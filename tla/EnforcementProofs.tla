--------------------------- MODULE EnforcementProofs ---------------------------
(***************************************************************************)
(* Theorems about the console and the decision point over one graph, for   *)
(* any people, agents, documents, calls and handlers: that consents and    *)
(* delegations mean what people last said, and that a decommissioned agent *)
(* is refused everything.  What is proved of the console alone holds here, *)
(* since the console of the composition is that console.                   *)
(***************************************************************************)
EXTENDS Enforcement, TLAPS

Alone == INSTANCE AccountConsoleProofs

-----------------------------------------------------------------------------
(* The console of the composition is the console.                          *)

\* Both begin with the seed and idle handlers.
LEMMA SameInit == Console!Init <=> Alone!Init
BY DEF Console!Init, Alone!Init, Console!Seed, Alone!Seed, Console!Idle,
       Alone!Idle, Console!Lasting, Alone!Lasting, Console!Expiring,
       Alone!Expiring, Console!Profile, Alone!Profile, Console!Home,
       Alone!Home, Console!Device, Alone!Device, Console!SystemPrincipal,
       Alone!SystemPrincipal, Console!Agent, Alone!Agent, Console!User,
       Alone!User, Console!Object, Alone!Object

\* Both have the same types.
LEMMA SameTypes == Console!ConsoleTypeOK <=> Alone!ConsoleTypeOK
BY DEF Console!ConsoleTypeOK, Alone!ConsoleTypeOK, Console!Relationship,
       Alone!Relationship, Console!Objects, Alone!Objects,
       Console!ObjectTypes, Alone!ObjectTypes, Console!ObjectIds,
       Alone!ObjectIds, Console!RelationNames, Alone!RelationNames,
       Console!HandlerState, Alone!HandlerState, Console!Identities,
       Alone!Identities, Console!Idle, Alone!Idle, Console!Agent,
       Alone!Agent, Console!SystemPrincipal, Alone!SystemPrincipal,
       Console!Object, Alone!Object

\* Consent, delegation, and their opposites.
LEMMA SameWords ==
  ASSUME NEW u, NEW x, NEW caps
  PROVE  /\ Console!GrantConsent(u, x, caps) <=> Alone!GrantConsent(u, x, caps)
         /\ Console!RevokeConsent(u, x, caps)
              <=> Alone!RevokeConsent(u, x, caps)
         /\ Console!WithdrawDelegation(u, x, caps)
              <=> Alone!WithdrawDelegation(u, x, caps)
         /\ Console!WriteDelegation(u) <=> Alone!WriteDelegation(u)
BY DEF Console!GrantConsent, Alone!GrantConsent, Console!RevokeConsent,
       Alone!RevokeConsent, Console!WithdrawDelegation,
       Alone!WithdrawDelegation, Console!WriteDelegation,
       Alone!WriteDelegation, Console!Grant, Alone!Grant, Console!Revoke,
       Alone!Revoke, Console!Undelegate, Alone!Undelegate, Console!Delegate,
       Alone!Delegate, Console!Touch, Alone!Touch, Console!Without,
       Alone!Without, Console!Same, Alone!Same, Console!WithoutResource,
       Alone!WithoutResource, Console!ConsentGrant, Alone!ConsentGrant,
       Console!Delegation, Alone!Delegation, Console!Lasting, Alone!Lasting,
       Console!Expiring, Alone!Expiring, Console!Application,
       Alone!Application, Console!Capability, Alone!Capability,
       Console!Agent, Alone!Agent, Console!User, Alone!User, Console!Object,
       Alone!Object, Console!Idle, Alone!Idle

\* Console, decision point and composition read the graph alike.
LEMMA SamePermitted ==
  ASSUME NEW g, NEW res, NEW perm, NEW sub
  PROVE  /\ Console!Permitted(g, res, perm, sub)
              <=> Permitted(g, res, perm, sub)
         /\ Alone!Permitted(g, res, perm, sub) <=> Permitted(g, res, perm, sub)
         /\ Point!Permitted(g, res, perm, sub) <=> Permitted(g, res, perm, sub)
BY Zenon
   DEF Console!Permitted, Alone!Permitted, Point!Permitted, Permitted,
       Console!DirectlyPermitted, Alone!DirectlyPermitted,
       Point!DirectlyPermitted, DirectlyPermitted, Console!Related,
       Alone!Related, Point!Related, Related, Console!DirectPermissions,
       Alone!DirectPermissions, Point!DirectPermissions, DirectPermissions,
       Console!InheritedPermissions, Alone!InheritedPermissions,
       Point!InheritedPermissions, InheritedPermissions,
       Console!RelationNames, Alone!RelationNames, Point!RelationNames,
       RelationNames

\* The beginnings of the handlers that make more than one call.
LEMMA SameBeginnings ==
  ASSUME NEW h, NEW u, NEW x, NEW caps, NEW ttl
  PROVE  /\ Console!BeginDelegation(h, u, x, caps, ttl)
              <=> Alone!BeginDelegation(h, u, x, caps, ttl)
         /\ Console!BeginDecommission(h, u, x)
              <=> Alone!BeginDecommission(h, u, x)
<1>1. /\ Console!EnrolledFor(graph, x, u) <=> Alone!EnrolledFor(graph, x, u)
      /\ Console!Operates(graph, x, u) <=> Alone!Operates(graph, x, u)
  BY SamePermitted
     DEF Console!EnrolledFor, Alone!EnrolledFor, Console!Operates,
         Alone!Operates, Console!Agent, Alone!Agent, Console!User,
         Alone!User, Console!Object, Alone!Object
<1> QED
  BY <1>1
     DEF Console!BeginDelegation, Alone!BeginDelegation,
         Console!BeginDecommission, Alone!BeginDecommission,
         Console!Delegatable, Alone!Delegatable, Console!EffectiveTTL,
         Alone!EffectiveTTL, Console!Idle, Alone!Idle

\* Their other steps, the scripts and time.
LEMMA SameSteps ==
  ASSUME NEW h, NEW a, NEW u
  PROVE  /\ Console!RemoveIdentity(h) <=> Alone!RemoveIdentity(h)
         /\ Console!RemoveDelegations(h) <=> Alone!RemoveDelegations(h)
         /\ Console!GiveUp(h) <=> Alone!GiveUp(h)
         /\ Console!OnboardAgent(a, u) <=> Alone!OnboardAgent(a, u)
         /\ Console!EnrolAgent(a, u) <=> Alone!EnrolAgent(a, u)
         /\ Console!Tick <=> Alone!Tick
         /\ Console!Identities = Alone!Identities
BY DEF Console!RemoveIdentity, Alone!RemoveIdentity,
       Console!RemoveDelegations, Alone!RemoveDelegations, Console!GiveUp,
       Alone!GiveUp, Console!OnboardAgent, Alone!OnboardAgent,
       Console!EnrolAgent, Alone!EnrolAgent, Console!Tick, Alone!Tick,
       Console!WithoutResource, Alone!WithoutResource,
       Console!WithoutDelegate, Alone!WithoutDelegate, Console!Touch,
       Alone!Touch, Console!Without, Alone!Without, Console!Same,
       Alone!Same, Console!Unexpired, Alone!Unexpired, Console!Lasting,
       Alone!Lasting, Console!Expiring, Alone!Expiring, Console!Agent,
       Alone!Agent, Console!User, Alone!User, Console!SystemPrincipal,
       Alone!SystemPrincipal, Console!Object, Alone!Object, Console!Idle,
       Alone!Idle, Console!Identities, Alone!Identities

\* Whatever happens in the composition happens, to the console, as it may.
LEMMA ConsoleIsTheConsole == Spec => Alone!Spec
<1>1. Init => Alone!Init
  BY SameInit DEF Init
<1>2. [Next]_vars => [Alone!Next]_(Alone!consoleVars)
  <2> SUFFICES ASSUME Next PROVE Alone!Next \/ UNCHANGED Alone!consoleVars
    BY DEF vars, Alone!consoleVars
  <2>1. CASE PointMoves
    BY <2>1 DEF PointMoves, Alone!consoleVars, Point!Accept, Point!Gate,
                Point!Conclude, Point!Permit, Point!Refuse, Point!GiveUp,
                Point!Swap, Point!Partition
  <2>2. ASSUME NEW u \in Users, NEW p \in Applications,
               NEW caps \in SUBSET Capabilities,
               GrantConsent(u, p, caps) \/ RevokeConsent(u, p, caps)
        PROVE  Alone!ConsoleStep
    BY <2>2, SameWords DEF GrantConsent, RevokeConsent, Alone!ConsoleStep
  <2>3. ASSUME NEW u \in Users, NEW a \in Agents,
               NEW caps \in SUBSET Capabilities,
               WithdrawDelegation(u, a, caps)
        PROVE  Alone!ConsoleStep
    BY <2>3, SameWords DEF WithdrawDelegation, Alone!ConsoleStep
  <2>4. ASSUME NEW h \in Handlers, WriteDelegation(h) \/ RemoveIdentity(h)
        PROVE  Alone!ConsoleStep
    BY <2>4, SameWords, SameSteps
       DEF WriteDelegation, RemoveIdentity, Alone!ConsoleStep
  <2>5. ASSUME NEW a \in Agents, NEW u \in Users, EnrolAgent(a, u)
        PROVE  Alone!Environment
    BY <2>5, SameSteps DEF EnrolAgent, Alone!Environment
  <2>6. CASE Wordless
    <3>1. ASSUME NEW h \in Handlers, NEW u \in Users, NEW a \in Agents,
                 NEW caps \in SUBSET Capabilities, NEW ttl \in TTLs,
                 Console!BeginDelegation(h, u, a, caps, ttl)
          PROVE  Alone!ConsoleStep
      BY <3>1, SameBeginnings DEF Alone!ConsoleStep
    <3>2. ASSUME NEW h \in Handlers, NEW u \in Users,
                 NEW target \in Console!Identities,
                 Console!BeginDecommission(h, u, target)
          PROVE  Alone!ConsoleStep
      BY <3>2, SameBeginnings, SameSteps DEF Alone!ConsoleStep
    <3>3. ASSUME NEW h \in Handlers,
                 Console!RemoveDelegations(h) \/ Console!GiveUp(h)
          PROVE  Alone!ConsoleStep
      BY <3>3, SameSteps DEF Alone!ConsoleStep
    <3>4. ASSUME NEW a \in Agents, NEW u \in Users, Console!OnboardAgent(a, u)
          PROVE  Alone!Environment
      BY <3>4, SameSteps DEF Alone!Environment
    <3>5. CASE Console!Tick
      BY <3>5, SameSteps DEF Alone!Environment, Alone!Next
    <3> QED
      BY <2>6, <3>1, <3>2, <3>3, <3>4, <3>5 DEF Wordless, Alone!Next
  <2> QED
    BY <2>1, <2>2, <2>3, <2>4, <2>5, <2>6
       DEF Next, ConsoleMoves, Alone!Next
<1> QED
  BY <1>1, <1>2, PTL DEF Spec, Alone!Spec

\* So the console's type invariant holds here.
LEMMA ConsoleTyped == Spec => []Console!ConsoleTypeOK
<1>1. Alone!Spec => []Alone!ConsoleTypeOK
  BY NeverAssumption, SeedAssumption, CatalogueAssumption,
     LifetimeAssumption, BoundAssumption, Alone!ConsoleTypeCorrect
<1> QED
  BY <1>1, SameTypes, ConsoleIsTheConsole, PTL

-----------------------------------------------------------------------------
(* Types.                                                                  *)

\* As in DecisionProofs, whose module has other constants.
LEMMA VerdictRange ==
  ASSUME NEW cfg, NEW r
  PROVE  Point!Verdict(cfg, r) \in Point!Reasons \cup {"ask"}
BY DEF Point!Verdict, Point!Gated, Point!Unidentified, Point!Reasons,
       Point!Refusals

\* A question that fails refuses.
LEMMA PlanReasons ==
  ASSUME NEW cfg, NEW r, NEW q \in Point!Plan(cfg, r)
  PROVE  q.reason \in Point!Refusals
BY DEF Point!Plan, Point!When, Point!Question, Point!Refusals

Flying == flight \in [Calls -> Point!Flight] /\ snapshot \in Configs

\* Answering a call that is being worked on leaves the calls well typed.
LEMMA AnswerTyped ==
  ASSUME Flying, NEW c \in Calls, flight[c].step \in {"gating", "asking"},
         NEW reason \in Point!Reasons, Point!Answer(c, reason)
  PROVE  flight' \in [Calls -> Point!Flight]
<1>1. flight[c].request \in Requests /\ flight[c].cfg \in Configs
  BY DEF Flying, Point!Flight, Point!Idle
<1>2. Point!Answered(flight[c].request, flight[c].cfg, reason)
        \in Point!Flight
  BY <1>1 DEF Point!Answered, Point!Outcome, Point!Reasons, Point!Refusals,
              Point!Flight
<1> QED
  BY <1>2 DEF Point!Answer, Flying

\* So does every step of the decision point.
LEMMA PointTyped ==
  ASSUME Flying, PointMoves
  PROVE  Flying'
<1>1. ASSUME NEW c \in Calls, NEW r \in Requests, Point!Accept(c, r)
      PROVE  Flying'
  <2>1. Point!Working("gating", r, snapshot) \in Point!Flight
    BY DEF Point!Working, Point!Flight, Flying
  <2> QED
    BY <1>1, <2>1 DEF Point!Accept, Flying
<1>2. ASSUME NEW c \in Calls, Point!Gate(c)
      PROVE  Flying'
  <2>1. PICK verdict :
          verdict = Point!Verdict(flight[c].cfg, flight[c].request)
    OBVIOUS
  <2>2. CASE verdict = "ask"
    <3>1. [flight[c] EXCEPT !.step = "asking"] \in Point!Flight
      <4>1. PICK f : f = [flight[c] EXCEPT !.step = "asking"]
        OBVIOUS
      <4>2. /\ f \in [step : {"asking"}, request : Requests, cfg : Configs]
            /\ f.cfg = flight[c].cfg /\ f.request = flight[c].request
        BY <1>2, <4>1 DEF Point!Gate, Flying, Point!Flight, Point!Idle
      <4>3. Point!Verdict(f.cfg, f.request) = "ask"
        BY <2>1, <2>2, <4>2
      <4> QED
        BY <4>1, <4>2, <4>3 DEF Point!Flight
    <3> QED
      BY <1>2, <2>1, <2>2, <3>1 DEF Point!Gate, Flying
  <2>3. CASE verdict # "ask"
    <3>1. verdict \in Point!Reasons
      BY <2>1, <2>3, VerdictRange
    <3>2. Point!Answer(c, verdict) /\ flight[c].step = "gating"
      BY <1>2, <2>1, <2>3 DEF Point!Gate
    <3> QED
      BY <1>2, <3>1, <3>2, AnswerTyped DEF Point!Gate, Flying
  <2> QED
    BY <2>2, <2>3
<1>3. ASSUME NEW c \in Calls, Point!Conclude(c)
      PROVE  Flying'
  <2>1. \E reason \in Point!Reasons : Point!Answer(c, reason)
    <3>1. {"permitted", "backend_unavailable"} \subseteq Point!Reasons
      BY DEF Point!Reasons, Point!Refusals
    <3>2. \A q \in Point!Plan(flight[c].cfg, flight[c].request) :
            q.reason \in Point!Reasons
      BY PlanReasons DEF Point!Reasons
    <3> QED
      BY <1>3, <3>1, <3>2
         DEF Point!Conclude, Point!Permit, Point!Refuse, Point!GiveUp
  <2>2. flight[c].step = "asking" /\ UNCHANGED snapshot
    BY <1>3 DEF Point!Conclude, Point!Permit, Point!Refuse, Point!GiveUp
  <2> QED
    BY <2>1, <2>2, AnswerTyped DEF Flying
<1>4. ASSUME NEW cfg \in Configs, Point!Swap(cfg)
      PROVE  Flying'
  BY <1>4 DEF Point!Swap, Flying
<1>5. CASE Point!Partition
  BY <1>5 DEF Point!Partition, Flying
<1> QED
  BY <1>1, <1>2, <1>3, <1>4, <1>5 DEF PointMoves

\* The ledgers of what people last said.
WordsTyped ==
  /\ consents \subseteq Users \X Applications \X Capabilities
  /\ enrolments \subseteq Agents \X Users
  /\ delegations \in [Users \X Agents \X Capabilities -> Nat \cup {Never}]

\* What a handler holds between its calls to SpiceDB.
LEMMA HandlerKnows ==
  ASSUME Console!ConsoleTypeOK, NEW h \in Handlers
  PROVE  /\ handler[h].step = "enrolled" =>
              /\ handler[h].user \in Users
              /\ handler[h].agent \in Agents
              /\ handler[h].caps \in SUBSET Capabilities
              /\ handler[h].ttl \in Int
         /\ handler[h].step = "operated" =>
              handler[h].target \in Console!Identities
BY DEF Console!ConsoleTypeOK, Console!HandlerState, Console!Idle

\* The ledgers stay well typed.
LEMMA WordsStayTyped ==
  ASSUME Console!ConsoleTypeOK, WordsTyped, ConsoleMoves
  PROVE  WordsTyped'
<1>1. ASSUME NEW u \in Users, NEW p \in Applications,
             NEW caps \in SUBSET Capabilities,
             GrantConsent(u, p, caps) \/ RevokeConsent(u, p, caps)
      PROVE  WordsTyped'
  BY <1>1 DEF GrantConsent, RevokeConsent, Words, WordsTyped
<1>2. ASSUME NEW u \in Users, NEW a \in Agents,
             NEW caps \in SUBSET Capabilities, WithdrawDelegation(u, a, caps)
      PROVE  WordsTyped'
  BY <1>2 DEF WithdrawDelegation, WordsTyped
<1>3. ASSUME NEW h \in Handlers, WriteDelegation(h)
      PROVE  WordsTyped'
  <2>1. now \in Nat
    BY DEF Console!ConsoleTypeOK
  <2> QED
    BY <1>3, <2>1 DEF WriteDelegation, WordsTyped
<1>4. ASSUME NEW h \in Handlers, RemoveIdentity(h)
      PROVE  WordsTyped'
  BY <1>4 DEF RemoveIdentity, WordsTyped
<1>5. ASSUME NEW a \in Agents, NEW u \in Users, EnrolAgent(a, u)
      PROVE  WordsTyped'
  BY <1>5 DEF EnrolAgent, WordsTyped
<1>6. CASE Wordless
  BY <1>6 DEF Wordless, words, WordsTyped
<1> QED
  BY <1>1, <1>2, <1>3, <1>4, <1>5, <1>6 DEF ConsoleMoves

\* The console, the calls and the ledgers stay in their states, whatever
\* interleaves (account-app, Check).
THEOREM EnforcementTypeCorrect == Spec => []EnforcementTypeOK
<1>1. Init => Flying /\ WordsTyped /\ reachable \in BOOLEAN
  <2> SUFFICES ASSUME Init
               PROVE  Flying /\ WordsTyped /\ reachable \in BOOLEAN
    OBVIOUS
  <2>1. \A a \in Agents : Operator[a] \in Users
    BY SeedAssumption
  <2> QED
    BY <2>1 DEF Init, Flying, Point!Flight, WordsTyped
<1>2. /\ Console!ConsoleTypeOK
      /\ Flying /\ WordsTyped /\ reachable \in BOOLEAN
      /\ [Next]_vars
      => (Flying /\ WordsTyped /\ reachable \in BOOLEAN)'
  <2> SUFFICES ASSUME Console!ConsoleTypeOK, Flying, WordsTyped,
                      reachable \in BOOLEAN, [Next]_vars
               PROVE  Flying' /\ WordsTyped' /\ reachable' \in BOOLEAN
    OBVIOUS
  <2>1. CASE ConsoleMoves
    BY <2>1, WordsStayTyped DEF ConsoleMoves, Flying
  <2>2. CASE PointMoves
    <3>1. reachable' \in BOOLEAN
      BY <2>2 DEF PointMoves, Point!Accept, Point!Gate, Point!Conclude,
                  Point!Permit, Point!Refuse, Point!GiveUp, Point!Swap,
                  Point!Partition
    <3> QED
      BY <2>2, <3>1, PointTyped DEF PointMoves, words, WordsTyped
  <2>3. CASE UNCHANGED vars
    BY <2>3 DEF vars, words, Flying, WordsTyped
  <2> QED
    BY <2>1, <2>2, <2>3 DEF Next
<1>3. Console!ConsoleTypeOK /\ Flying /\ WordsTyped /\ reachable \in BOOLEAN
        => EnforcementTypeOK
  BY DEF EnforcementTypeOK, Flying, WordsTyped
<1> QED
  BY <1>1, <1>2, <1>3, ConsoleTyped, PTL DEF Spec

-----------------------------------------------------------------------------
(* What the graph says of consents, enrolments and delegations is what     *)
(* people last said.  The ledgers follow the graph action by action; that  *)
(* they can is due to what an action leaves alone.                         *)

\* The relationships that a ledger is about stay as they are.
Untouched(type, rel) ==
  \A e \in graph \cup graph' :
    e.res.type = type /\ e.rel = rel => (e \in graph <=> e \in graph')

\* What an update by the console does, in the words of Relationships.
LEMMA Updates ==
  ASSUME NEW u, NEW x, NEW caps, NEW exp, NEW res, NEW g, NEW edges, NEW c
  PROVE  /\ Console!Grant(g, u, x, caps) = Grant(g, u, x, caps)
         /\ Console!Revoke(g, u, x, caps) = Revoke(g, u, x, caps)
         /\ Console!Delegate(g, u, x, caps, exp) = Delegate(g, u, x, caps, exp)
         /\ Console!Undelegate(g, u, x, caps) = Undelegate(g, u, x, caps)
         /\ Console!WithoutResource(g, res) = WithoutResource(g, res)
         /\ Console!WithoutDelegate(g, x) = WithoutDelegate(g, x)
         /\ Console!Touch(g, edges) = Touch(g, edges)
         /\ Console!Unexpired(g, exp) = Unexpired(g, exp)
         /\ Console!Lasting(res, x, u) = Lasting(res, x, u)
         /\ Console!Agent(x) = Agent(x) /\ Console!User(x) = User(x)
         /\ Console!SystemPrincipal(x) = SystemPrincipal(x)
         /\ Console!Seed = Seed
BY DEF Console!Grant, Grant, Console!Revoke, Revoke, Console!Delegate,
       Delegate, Console!Undelegate, Undelegate, Console!WithoutResource,
       WithoutResource, Console!WithoutDelegate, WithoutDelegate,
       Console!Touch, Touch, Console!Without, Without, Console!Same, Same,
       Console!Unexpired, Unexpired, Console!Lasting, Lasting,
       Console!Expiring, Expiring, Console!Agent, Agent, Console!User, User,
       Console!SystemPrincipal, SystemPrincipal, Console!Application,
       Application, Console!Capability, Capability, Console!ConsentGrant,
       ConsentGrant, Console!Delegation, Delegation, Console!Object, Object,
       Console!Seed, Seed, Console!Profile, Profile, Console!Home, Home,
       Console!Device, Device

\* A TOUCH leaves alone what it does not name.
LEMMA TouchLeaves ==
  ASSUME NEW type, NEW rel, NEW edges, graph' = Touch(graph, edges),
         \A f \in edges : f.res.type # type \/ f.rel # rel
  PROVE  Untouched(type, rel)
BY DEF Untouched, Touch, Without, Same

\* What consents write leaves delegations and enrolments alone.
LEMMA GrantLeaves ==
  ASSUME NEW u, NEW x, NEW caps,
         \/ graph' = Grant(graph, u, x, caps)
         \/ graph' = Revoke(graph, u, x, caps)
  PROVE  /\ Untouched("delegation", "granted")
         /\ Untouched("agent", "enrolled_for")
<1>1. ConsentGrant(u, x).type = "consent_grant"
  BY DEF ConsentGrant, Object
<1>2. CASE graph' = Grant(graph, u, x, caps)
  <2>1. PICK edges : /\ graph' = Touch(graph, edges)
                     /\ \A f \in edges : f.res = ConsentGrant(u, x)
    BY <1>2 DEF Grant, Lasting, Expiring
  <2> QED
    BY <1>1, <2>1, TouchLeaves
<1>3. CASE graph' = Revoke(graph, u, x, caps)
  <2>1. \A e \in graph : e.res # ConsentGrant(u, x) => e \in graph'
    BY <1>3 DEF Revoke, Without, WithoutResource, Same, Lasting, Expiring
  <2>2. graph' \subseteq graph
    BY <1>3 DEF Revoke, Without, WithoutResource
  <2> QED
    BY <1>1, <2>1, <2>2 DEF Untouched
<1> QED
  BY <1>2, <1>3

\* What delegations write leaves consents and enrolments alone.
LEMMA DelegateLeaves ==
  ASSUME NEW u, NEW x, NEW caps, NEW exp,
         \/ graph' = Delegate(graph, u, x, caps, exp)
         \/ graph' = Undelegate(graph, u, x, caps)
  PROVE  /\ Untouched("consent_grant", "granted")
         /\ Untouched("agent", "enrolled_for")
<1>1. Delegation(u, x).type = "delegation"
  BY DEF Delegation, Object
<1>2. CASE graph' = Delegate(graph, u, x, caps, exp)
  <2>1. PICK edges : /\ graph' = Touch(graph, edges)
                     /\ \A f \in edges : f.res = Delegation(u, x)
    BY <1>2 DEF Delegate, Lasting, Expiring
  <2> QED
    BY <1>1, <2>1, TouchLeaves
<1>3. CASE graph' = Undelegate(graph, u, x, caps)
  <2>1. \A e \in graph : e.res # Delegation(u, x) => e \in graph'
    BY <1>3 DEF Undelegate, Without, WithoutResource, Same, Lasting, Expiring
  <2>2. graph' \subseteq graph
    BY <1>3 DEF Undelegate, Without, WithoutResource
  <2> QED
    BY <1>1, <2>1, <2>2 DEF Untouched
<1> QED
  BY <1>2, <1>3

\* Decommissioning touches neither consents nor what was delegated; the
\* scripts touch agents only, and of them one relationship each.
LEMMA OthersLeave ==
  ASSUME Console!ConsoleTypeOK, NEW h \in Handlers, NEW a, NEW u
  PROVE  /\ \/ Console!RemoveIdentity(h) \/ Console!RemoveDelegations(h)
            \/ Console!OnboardAgent(a, u) \/ Console!EnrolAgent(a, u)
            => /\ Untouched("consent_grant", "granted")
               /\ Untouched("delegation", "granted")
         /\ Console!RemoveDelegations(h) \/ Console!OnboardAgent(a, u)
            => Untouched("agent", "enrolled_for")
<1>1. ASSUME Console!RemoveIdentity(h)
      PROVE  /\ Untouched("consent_grant", "granted")
             /\ Untouched("delegation", "granted")
  <2>1. PICK target : target = handler[h].target
    OBVIOUS
  <2>2. target.type \in {"agent", "system_principal"}
    BY <1>1, <2>1, HandlerKnows
       DEF Console!RemoveIdentity, Console!Identities, Console!Agent,
           Console!SystemPrincipal, Console!Object
  <2>3. graph' = {e \in graph : e.res # target}
    BY <1>1, <2>1 DEF Console!RemoveIdentity, Console!WithoutResource
  <2> QED
    BY <2>2, <2>3 DEF Untouched
<1>2. ASSUME Console!RemoveDelegations(h)
      PROVE  /\ Untouched("consent_grant", "granted")
             /\ Untouched("delegation", "granted")
             /\ Untouched("agent", "enrolled_for")
  BY <1>2 DEF Console!RemoveDelegations, Console!WithoutDelegate, Untouched
<1>3. ASSUME Console!OnboardAgent(a, u) \/ Console!EnrolAgent(a, u)
      PROVE  /\ Untouched("consent_grant", "granted")
             /\ Untouched("delegation", "granted")
             /\ Console!OnboardAgent(a, u) =>
                  Untouched("agent", "enrolled_for")
  <2>1. ASSUME NEW rel,
               graph' = Touch(graph, {Lasting(Agent(a), rel, User(u))}),
               NEW type, NEW other, type # "agent" \/ other # rel
        PROVE  Untouched(type, other)
    <3>1. PICK f : f = Lasting(Agent(a), rel, User(u))
      OBVIOUS
    <3>2. f.res.type = "agent" /\ f.rel = rel
      BY <3>1 DEF Lasting, Expiring, Agent, Object
    <3> QED
      BY <2>1, <3>1, <3>2, TouchLeaves
  <2>2. CASE Console!OnboardAgent(a, u)
    <3>1. graph' = Touch(graph, {Lasting(Agent(a), "operator", User(u))})
      BY <2>2, Updates DEF Console!OnboardAgent
    <3> QED
      BY <2>1, <3>1
  <2>3. CASE Console!EnrolAgent(a, u) /\ ~Console!OnboardAgent(a, u)
    <3>1. graph' = Touch(graph, {Lasting(Agent(a), "enrolled_for", User(u))})
      BY <2>3, Updates DEF Console!EnrolAgent
    <3> QED
      BY <2>1, <2>3, <3>1
  <2> QED
    BY <1>3, <2>2, <2>3
<1> QED
  BY <1>1, <1>2, <1>3

\* A name belongs to one object.
LEMMA Names ==
  ASSUME NEW u, NEW x, NEW v, NEW y
  PROVE  /\ ConsentGrant(u, x) = ConsentGrant(v, y) <=> u = v /\ x = y
         /\ Delegation(u, x) = Delegation(v, y) <=> u = v /\ x = y
         /\ Capability(u) = Capability(v) <=> u = v
         /\ Agent(u) = Agent(v) <=> u = v
         /\ User(u) = User(v) <=> u = v
         /\ ConsentGrant(u, x).type = "consent_grant"
         /\ Delegation(u, x).type = "delegation"
         /\ Agent(u).type = "agent"
BY DEF ConsentGrant, Delegation, Capability, Agent, User, Object

\* The fields of what is written.
LEMMA Fields ==
  ASSUME NEW res, NEW rel, NEW sub, NEW exp
  PROVE  /\ Lasting(res, rel, sub).res = res
         /\ Lasting(res, rel, sub).rel = rel
         /\ Lasting(res, rel, sub).sub = sub
         /\ Lasting(res, rel, sub).exp = Never
         /\ Expiring(res, rel, sub, exp).res = res
         /\ Expiring(res, rel, sub, exp).rel = rel
         /\ Expiring(res, rel, sub, exp).sub = sub
         /\ Expiring(res, rel, sub, exp).exp = exp
BY DEF Lasting, Expiring

\* The steps that are nobody's word change nothing that is anybody's, except
\* that time takes what has expired.
LEMMA WordlessLeaves ==
  ASSUME Console!ConsoleTypeOK, Wordless
  PROVE  /\ UNCHANGED words
         /\ \/ /\ Untouched("consent_grant", "granted")
               /\ Untouched("delegation", "granted")
               /\ Untouched("agent", "enrolled_for")
               /\ UNCHANGED now
            \/ now' = now + 1 /\ graph' = Unexpired(graph, now + 1)
<1>1. UNCHANGED graph => /\ Untouched("consent_grant", "granted")
                         /\ Untouched("delegation", "granted")
                         /\ Untouched("agent", "enrolled_for")
  BY DEF Untouched
<1>2. ASSUME NEW h \in Handlers, NEW u, NEW x, NEW caps, NEW ttl,
             \/ Console!BeginDelegation(h, u, x, caps, ttl)
             \/ Console!BeginDecommission(h, u, x)
             \/ Console!GiveUp(h)
      PROVE  UNCHANGED <<graph, now>>
  BY <1>2 DEF Console!BeginDelegation, Console!BeginDecommission,
              Console!GiveUp
<1>3. ASSUME NEW h \in Handlers, NEW a, NEW u,
             Console!RemoveDelegations(h) \/ Console!OnboardAgent(a, u)
      PROVE  /\ Untouched("consent_grant", "granted")
             /\ Untouched("delegation", "granted")
             /\ Untouched("agent", "enrolled_for")
             /\ UNCHANGED now
  BY <1>3, OthersLeave DEF Console!RemoveDelegations, Console!OnboardAgent
<1>4. CASE Console!Tick
  BY <1>4, Updates DEF Console!Tick, Wordless
<1>5. CASE \E h \in Handlers, u \in Users, a \in Agents,
              caps \in SUBSET Capabilities, ttl \in TTLs :
             Console!BeginDelegation(h, u, a, caps, ttl)
  BY <1>1, <1>2, <1>5 DEF Wordless
<1>6. CASE \E h \in Handlers, u \in Users, target \in Console!Identities :
             Console!BeginDecommission(h, u, target)
  BY <1>1, <1>2, <1>6 DEF Wordless
<1>7. CASE \E h \in Handlers :
             Console!RemoveDelegations(h) \/ Console!GiveUp(h)
  BY <1>1, <1>2, <1>3, <1>7 DEF Wordless
<1>8. CASE \E a \in Agents, u \in Users : Console!OnboardAgent(a, u)
  <2>1. PICK a \in Agents, u \in Users : Console!OnboardAgent(a, u)
    BY <1>8
  <2>2. /\ graph' = Touch(graph, {Lasting(Agent(a), "operator", User(u))})
        /\ UNCHANGED now
    BY <2>1, Updates DEF Console!OnboardAgent
  <2>3. \A f \in {Lasting(Agent(a), "operator", User(u))} :
          f.res.type = "agent" /\ f.rel = "operator"
    BY Fields, Names
  <2> QED
    BY <2>2, <2>3, TouchLeaves DEF Wordless
<1> QED
  BY <1>4, <1>5, <1>6, <1>7, <1>8 DEF Wordless

-----------------------------------------------------------------------------
(* Consents.                                                               *)

SaysConsent(e, w) ==
  e.res = ConsentGrant(w[1], w[2]) /\ e.sub = Capability(w[3])

ConsentEdge(e) == e.res.type = "consent_grant" /\ e.rel = "granted"

\* A consent in the graph is one last granted, and never lapses; a consent
\* last granted is in the graph.
ConsentLedger ==
  /\ \A e \in graph : ConsentEdge(e) =>
       e.exp = Never /\ \E w \in consents : SaysConsent(e, w)
  /\ \A w \in consents :
       \E e \in graph : ConsentEdge(e) /\ SaysConsent(e, w)

\* A step that touches no consent keeps its ledger.
LEMMA ConsentsKept ==
  ASSUME ConsentLedger, UNCHANGED consents,
         \A e \in graph \cup graph' :
           ConsentEdge(e) => (e \in graph <=> e \in graph')
  PROVE  ConsentLedger'
BY DEF ConsentLedger

\* A consent is entered when its relationship is.
LEMMA GrantFollows ==
  ASSUME ConsentLedger, NEW u \in Users, NEW p \in Applications,
         NEW caps \in SUBSET Capabilities, GrantConsent(u, p, caps)
  PROVE  ConsentLedger'
<1>1. PICK anchors :
        anchors = {Lasting(ConsentGrant(u, p), "subject", User(u)),
                   Lasting(ConsentGrant(u, p), "grantee", Application(p))}
  OBVIOUS
<1>2. graph' = Touch(graph, anchors \cup
        {Lasting(ConsentGrant(u, p), "granted", Capability(c)) : c \in caps})
  <2>1. graph' = Grant(graph, u, p, caps)
    BY Updates DEF GrantConsent, Console!GrantConsent
  <2> QED
    BY <1>1, <2>1 DEF Grant
<1>3. \A f \in anchors : f.rel # "granted"
  BY <1>1, Fields
<1>4. PICK granted : granted =
        {Lasting(ConsentGrant(u, p), "granted", Capability(c)) : c \in caps}
  OBVIOUS
<1>5. consents' = consents \cup {<<u, p, c>> : c \in caps}
  BY DEF GrantConsent, Console!GrantConsent, Words
<1>6. /\ \A e \in granted : \E c \in caps :
           e = Lasting(ConsentGrant(u, p), "granted", Capability(c))
      /\ \A c \in caps :
           Lasting(ConsentGrant(u, p), "granted", Capability(c)) \in granted
  BY <1>4
<1>7. graph' = Without(graph, anchors \cup granted) \cup anchors \cup granted
  BY <1>2, <1>4 DEF Touch
<1>8. ASSUME NEW c \in caps,
             NEW e, e = Lasting(ConsentGrant(u, p), "granted", Capability(c))
      PROVE  ConsentEdge(e) /\ e.exp = Never /\ SaysConsent(e, <<u, p, c>>)
  BY <1>8, Fields, Names DEF ConsentEdge, SaysConsent
<1>9. ASSUME NEW e \in graph', ConsentEdge(e)
      PROVE  e.exp = Never /\ \E w \in consents' : SaysConsent(e, w)
  <2>1. CASE e \in graph
    BY <1>5, <1>9, <2>1 DEF ConsentLedger
  <2>2. CASE e \in granted
    <3>1. PICK c \in caps :
            e = Lasting(ConsentGrant(u, p), "granted", Capability(c))
      BY <1>6, <2>2
    <3>2. <<u, p, c>> \in consents'
      BY <1>5
    <3> QED
      BY <1>8, <3>1, <3>2
  <2> QED
    BY <1>3, <1>7, <1>9, <2>1, <2>2 DEF Without, ConsentEdge
<1>10. ASSUME NEW w \in consents'
      PROVE  \E e \in graph' : ConsentEdge(e) /\ SaysConsent(e, w)
  <2>1. CASE w \in consents
    <3>1. PICK e \in graph : ConsentEdge(e) /\ SaysConsent(e, w)
      BY <2>1 DEF ConsentLedger
    <3>2. CASE \E f \in anchors \cup granted : Same(e, f)
      <4>1. PICK f \in anchors \cup granted : Same(e, f)
        BY <3>2
      <4>2. f \in graph' /\ ConsentEdge(f) /\ SaysConsent(f, w)
        BY <1>7, <3>1, <4>1 DEF Same, ConsentEdge, SaysConsent
      <4> QED
        BY <4>2
    <3>3. CASE \A f \in anchors \cup granted : ~Same(e, f)
      BY <1>7, <3>1, <3>3 DEF Without
    <3> QED
      BY <3>2, <3>3
  <2>2. CASE w \notin consents
    <3>1. PICK c \in caps : w = <<u, p, c>>
      BY <1>5, <2>2
    <3>2. PICK e :
            e = Lasting(ConsentGrant(u, p), "granted", Capability(c))
      OBVIOUS
    <3> QED
      BY <1>6, <1>7, <1>8, <3>1, <3>2
  <2> QED
    BY <2>1, <2>2
<1> QED
  BY <1>9, <1>10 DEF ConsentLedger

\* A consent is struck out when its relationship is.
LEMMA RevokeFollows ==
  ASSUME ConsentLedger, WordsTyped, NEW u \in Users, NEW p \in Applications,
         NEW caps \in SUBSET Capabilities, RevokeConsent(u, p, caps)
  PROVE  ConsentLedger'
<1>1. PICK gone : gone = IF caps = {} THEN Capabilities ELSE caps
  OBVIOUS
<1>2. consents' = consents \ {<<u, p, c>> : c \in gone}
  BY <1>1 DEF RevokeConsent, Words
<1>3. graph' = Revoke(graph, u, p, caps)
  BY Updates DEF RevokeConsent, Console!RevokeConsent
<1>4. ASSUME NEW w \in consents, NEW e \in graph, ConsentEdge(e),
             SaysConsent(e, w)
      PROVE  w \in consents' <=> e \in graph'
  <2>1. w \in Users \X Applications \X Capabilities
    BY DEF WordsTyped
  <2>2. w \in consents' <=> ~(w[1] = u /\ w[2] = p /\ w[3] \in gone)
    BY <1>2, <2>1
  <2>3. CASE caps = {}
    <3>1. e \in graph' <=> e.res # ConsentGrant(u, p)
      BY <1>3, <2>3 DEF Revoke, WithoutResource
    <3> QED
      BY <1>1, <1>4, <2>1, <2>2, <2>3, <3>1, Names DEF SaysConsent
  <2>4. CASE caps # {}
    <3>1. e \in graph' <=>
            \A c \in caps :
              ~Same(e, Lasting(ConsentGrant(u, p), "granted", Capability(c)))
      BY <1>3, <2>4 DEF Revoke, Without
    <3>2. ASSUME NEW c \in caps
          PROVE  Same(e, Lasting(ConsentGrant(u, p), "granted",
                                 Capability(c)))
                   <=> w[1] = u /\ w[2] = p /\ w[3] = c
      BY <1>4, Fields, Names DEF Same, SaysConsent, ConsentEdge
    <3> QED
      BY <1>1, <2>2, <2>4, <3>1, <3>2
  <2> QED
    BY <2>3, <2>4
<1>5. graph' \subseteq graph /\ consents' \subseteq consents
  BY <1>2, <1>3 DEF Revoke, Without, WithoutResource
<1> QED
  BY <1>4, <1>5 DEF ConsentLedger

\* Through every step of the console, the graph has the consents said.
LEMMA ConsentsFollow ==
  ASSUME Console!ConsoleTypeOK, WordsTyped, ConsentLedger, ConsoleMoves
  PROVE  ConsentLedger'
<1>1. Untouched("consent_grant", "granted") /\ UNCHANGED consents
        => ConsentLedger'
  BY ConsentsKept DEF Untouched, ConsentEdge
<1>2. ASSUME NEW u \in Users, NEW p \in Applications,
             NEW caps \in SUBSET Capabilities,
             GrantConsent(u, p, caps) \/ RevokeConsent(u, p, caps)
      PROVE  ConsentLedger'
  BY <1>2, GrantFollows, RevokeFollows
<1>3. ASSUME NEW u \in Users, NEW a \in Agents,
             NEW caps \in SUBSET Capabilities, WithdrawDelegation(u, a, caps)
      PROVE  ConsentLedger'
  <2>1. graph' = Undelegate(graph, u, a, caps) /\ UNCHANGED consents
    BY <1>3, Updates DEF WithdrawDelegation, Console!WithdrawDelegation
  <2> QED
    BY <1>1, <2>1, DelegateLeaves
<1>4. ASSUME NEW h \in Handlers, WriteDelegation(h)
      PROVE  ConsentLedger'
  <2>1. /\ graph' = Delegate(graph, handler[h].user, handler[h].agent,
                             handler[h].caps, now + handler[h].ttl)
        /\ UNCHANGED consents
    BY <1>4, Updates DEF WriteDelegation, Console!WriteDelegation
  <2> QED
    BY <1>1, <2>1, DelegateLeaves
<1>5. ASSUME NEW h \in Handlers, RemoveIdentity(h)
      PROVE  ConsentLedger'
  BY <1>1, <1>5, OthersLeave DEF RemoveIdentity
<1>6. ASSUME NEW a \in Agents, NEW u \in Users, EnrolAgent(a, u)
      PROVE  ConsentLedger'
  <2>1. Console!EnrolAgent(a, u) /\ UNCHANGED consents
    BY <1>6 DEF EnrolAgent
  <2>2. graph' = Touch(graph, {Lasting(Agent(a), "enrolled_for", User(u))})
    BY <2>1, Updates DEF Console!EnrolAgent
  <2>3. \A f \in {Lasting(Agent(a), "enrolled_for", User(u))} :
          f.res.type = "agent"
    BY Fields, Names
  <2> QED
    BY <1>1, <2>1, <2>2, <2>3, TouchLeaves
<1>7. CASE Wordless
  <2>1. CASE graph' = Unexpired(graph, now + 1) /\ UNCHANGED consents
    BY <2>1, ConsentsKept DEF ConsentLedger, Unexpired
  <2> QED
    BY <1>1, <1>7, <2>1, WordlessLeaves DEF words
<1> QED
  BY <1>2, <1>3, <1>4, <1>5, <1>6, <1>7 DEF ConsoleMoves

\* Nobody has consented to anything in the seed.
LEMMA ConsentsInitially == Init => ConsentLedger
<1> SUFFICES ASSUME Init PROVE ConsentLedger
  OBVIOUS
<1>1. graph = Seed /\ consents = {}
  BY Updates DEF Init, Console!Init
<1>2. \A e \in Seed : ~ConsentEdge(e)
  BY DEF Seed, Lasting, Expiring, ConsentEdge
<1> QED
  BY <1>1, <1>2 DEF ConsentLedger

-----------------------------------------------------------------------------
(* Enrolments.                                                             *)

Enrols(e, w) == e.res = Agent(w[1]) /\ e.sub = User(w[2])

EnrolmentEdge(e) == e.res.type = "agent" /\ e.rel = "enrolled_for"

\* An agent is enrolled only where somebody last enrolled it.
EnrolmentLedger ==
  \A e \in graph : EnrolmentEdge(e) => \E w \in enrolments : Enrols(e, w)

\* The enrolments of the seed are entered.
LEMMA EnrolmentsInitially == Init => EnrolmentLedger
<1> SUFFICES ASSUME Init PROVE EnrolmentLedger
  OBVIOUS
<1>1. graph = Seed /\ enrolments = {<<a, Operator[a]>> : a \in Agents}
  BY Updates DEF Init, Console!Init
<1>2. ASSUME NEW e \in Seed, EnrolmentEdge(e)
      PROVE  \E a \in Agents :
               e = Lasting(Agent(a), "enrolled_for", User(Operator[a]))
  BY <1>2 DEF Seed, Lasting, Expiring, EnrolmentEdge
<1>3. ASSUME NEW e \in Seed, EnrolmentEdge(e)
      PROVE  \E w \in enrolments : Enrols(e, w)
  <2>1. PICK a \in Agents :
          e = Lasting(Agent(a), "enrolled_for", User(Operator[a]))
    BY <1>2, <1>3
  <2>2. PICK w : w = <<a, Operator[a]>>
    OBVIOUS
  <2>3. w \in enrolments /\ Enrols(e, w)
    BY <1>1, <2>1, <2>2, Fields DEF Enrols
  <2> QED
    BY <2>3
<1> QED
  BY <1>1, <1>3 DEF EnrolmentLedger

\* No agent is enrolled that the ledger does not know of.
LEMMA EnrolmentsFollow ==
  ASSUME Console!ConsoleTypeOK, EnrolmentLedger, ConsoleMoves
  PROVE  EnrolmentLedger'
<1>1. Untouched("agent", "enrolled_for") /\ UNCHANGED enrolments
        => EnrolmentLedger'
  BY DEF Untouched, EnrolmentLedger, EnrolmentEdge
<1>2. ASSUME NEW u \in Users, NEW p \in Applications,
             NEW caps \in SUBSET Capabilities,
             GrantConsent(u, p, caps) \/ RevokeConsent(u, p, caps)
      PROVE  EnrolmentLedger'
  <2>1. /\ \/ graph' = Grant(graph, u, p, caps)
           \/ graph' = Revoke(graph, u, p, caps)
        /\ UNCHANGED enrolments
    BY <1>2, Updates DEF GrantConsent, Console!GrantConsent,
                         RevokeConsent, Console!RevokeConsent
  <2> QED
    BY <1>1, <2>1, GrantLeaves
<1>3. ASSUME NEW u \in Users, NEW a \in Agents,
             NEW caps \in SUBSET Capabilities, WithdrawDelegation(u, a, caps)
      PROVE  EnrolmentLedger'
  <2>1. graph' = Undelegate(graph, u, a, caps) /\ UNCHANGED enrolments
    BY <1>3, Updates DEF WithdrawDelegation, Console!WithdrawDelegation
  <2> QED
    BY <1>1, <2>1, DelegateLeaves
<1>4. ASSUME NEW h \in Handlers, WriteDelegation(h)
      PROVE  EnrolmentLedger'
  <2>1. /\ graph' = Delegate(graph, handler[h].user, handler[h].agent,
                             handler[h].caps, now + handler[h].ttl)
        /\ UNCHANGED enrolments
    BY <1>4, Updates DEF WriteDelegation, Console!WriteDelegation
  <2> QED
    BY <1>1, <2>1, DelegateLeaves
<1>5. ASSUME NEW h \in Handlers, RemoveIdentity(h)
      PROVE  EnrolmentLedger'
  <2>1. PICK target : target = handler[h].target
    OBVIOUS
  <2>2. /\ graph' = {e \in graph : e.res # target}
        /\ enrolments' = {w \in enrolments : Agent(w[1]) # target}
    BY <1>5, <2>1 DEF RemoveIdentity, Console!RemoveIdentity,
                      Console!WithoutResource
  <2> QED
    BY <2>2 DEF EnrolmentLedger, Enrols
<1>6. ASSUME NEW a \in Agents, NEW u \in Users, EnrolAgent(a, u)
      PROVE  EnrolmentLedger'
  <2>1. Console!EnrolAgent(a, u)
    BY <1>6 DEF EnrolAgent
  <2>2. PICK f : f = Lasting(Agent(a), "enrolled_for", User(u))
    OBVIOUS
  <2>3. graph' = Touch(graph, {f})
    BY <2>1, <2>2, Updates DEF Console!EnrolAgent
  <2>4. PICK w : w = <<a, u>>
    OBVIOUS
  <2>5. Enrols(f, w)
    BY <2>2, <2>4, Fields DEF Enrols
  <2>6. enrolments' = enrolments \cup {w}
    BY <1>6, <2>4 DEF EnrolAgent
  <2> QED
    BY <2>3, <2>5, <2>6 DEF EnrolmentLedger, Touch, Without
<1>7. CASE Wordless
  <2>1. CASE graph' = Unexpired(graph, now + 1) /\ UNCHANGED enrolments
    BY <2>1 DEF EnrolmentLedger, Unexpired
  <2> QED
    BY <1>1, <1>7, <2>1, WordlessLeaves DEF words
<1> QED
  BY <1>2, <1>3, <1>4, <1>5, <1>6, <1>7 DEF ConsoleMoves

-----------------------------------------------------------------------------
(* Delegations.                                                            *)

\* A handler about to write a delegation has something to write, for at most
\* a day.
Prepared ==
  \A h \in Handlers : handler[h].step = "enrolled" =>
    handler[h].caps # {} /\ handler[h].ttl \in 1..MaxTTL

\* No handler has begun.
LEMMA PreparedInitially == Init => Prepared
BY DEF Init, Console!Init, Console!Idle, Prepared

\* Nothing changes what a handler holds between its two calls.
LEMMA PreparedStays ==
  ASSUME Console!ConsoleTypeOK, Prepared, ConsoleMoves
  PROVE  Prepared'
<1>1. ASSUME NEW h \in Handlers, NEW state,
             handler' = [handler EXCEPT ![h] = state],
             state.step = "enrolled" =>
               state.caps # {} /\ state.ttl \in 1..MaxTTL
      PROVE  Prepared'
  BY <1>1 DEF Console!ConsoleTypeOK, Prepared
<1>2. UNCHANGED handler => Prepared'
  BY DEF Prepared
<1>3. ASSUME NEW h \in Handlers,
             \/ WriteDelegation(h)
             \/ Console!RemoveDelegations(h)
             \/ Console!GiveUp(h)
      PROVE  Prepared'
  <2>1. handler' = [handler EXCEPT ![h] = Console!Idle]
    BY <1>3 DEF WriteDelegation, Console!WriteDelegation,
                Console!RemoveDelegations, Console!GiveUp
  <2> QED
    BY <1>1, <2>1 DEF Console!Idle
<1>4. ASSUME NEW h \in Handlers, RemoveIdentity(h)
      PROVE  Prepared'
  <2>1. PICK state : state = IF handler[h].target.type = "agent"
                             THEN [handler[h] EXCEPT !.step = "removed"]
                             ELSE Console!Idle
    OBVIOUS
  <2>2. handler' = [handler EXCEPT ![h] = state] /\ handler[h].step = "operated"
    BY <1>4, <2>1 DEF RemoveIdentity, Console!RemoveIdentity
  <2>3. state.step # "enrolled"
    <3>1. handler[h] \in [step : {"operated"}, target : Console!Identities]
      BY <2>2 DEF Console!ConsoleTypeOK, Console!HandlerState, Console!Idle
    <3> QED
      BY <2>1, <3>1 DEF Console!Idle
  <2> QED
    BY <1>1, <2>2, <2>3
<1>5. ASSUME NEW h \in Handlers, NEW u \in Users, NEW a \in Agents,
             NEW caps \in SUBSET Capabilities, NEW ttl \in TTLs,
             Console!BeginDelegation(h, u, a, caps, ttl)
      PROVE  Prepared'
  <2>1. Console!EffectiveTTL(ttl) \in 1..MaxTTL
    BY LifetimeAssumption DEF Console!EffectiveTTL
  <2>2. PICK state :
          state = [step |-> "enrolled", user |-> u, agent |-> a,
                   caps |-> caps, ttl |-> Console!EffectiveTTL(ttl)]
    OBVIOUS
  <2>3. handler' = [handler EXCEPT ![h] = state] /\ caps # {}
    BY <1>5, <2>2 DEF Console!BeginDelegation
  <2> QED
    BY <1>1, <2>1, <2>2, <2>3
<1>6. ASSUME NEW h \in Handlers, NEW u \in Users,
             NEW target \in Console!Identities,
             Console!BeginDecommission(h, u, target)
      PROVE  Prepared'
  <2>1. PICK state : state = [step |-> "operated", target |-> target]
    OBVIOUS
  <2>2. handler' = [handler EXCEPT ![h] = state]
    BY <1>6, <2>1 DEF Console!BeginDecommission
  <2> QED
    BY <1>1, <2>1, <2>2
<1>7. CASE Wordless
  <2>1. ASSUME NEW a \in Agents, NEW u \in Users,
               Console!OnboardAgent(a, u) \/ Console!Tick
        PROVE  UNCHANGED handler
    BY <2>1 DEF Console!OnboardAgent, Console!Tick
  <2>2. Console!Tick => UNCHANGED handler
    BY DEF Console!Tick
  <2> QED
    BY <1>2, <1>3, <1>5, <1>6, <1>7, <2>1, <2>2 DEF Wordless
<1>8. ASSUME NEW u \in Users, NEW p, NEW caps \in SUBSET Capabilities,
             \/ GrantConsent(u, p, caps) \/ RevokeConsent(u, p, caps)
             \/ WithdrawDelegation(u, p, caps) \/ EnrolAgent(p, u)
      PROVE  Prepared'
  BY <1>2, <1>8
     DEF GrantConsent, Console!GrantConsent, RevokeConsent,
         Console!RevokeConsent, WithdrawDelegation,
         Console!WithdrawDelegation, EnrolAgent, Console!EnrolAgent
<1>9. ASSUME NEW a \in Agents, NEW u \in Users, EnrolAgent(a, u)
      PROVE  Prepared'
  BY <1>2, <1>9 DEF EnrolAgent, Console!EnrolAgent
<1> QED
  BY <1>3, <1>4, <1>7, <1>8, <1>9 DEF ConsoleMoves

SaysDelegation(e, w) ==
  e.res = Delegation(w[1], w[2]) /\ e.sub = Capability(w[3])

DelegationEdge(e) == e.res.type = "delegation" /\ e.rel = "granted"

\* The expiry of `e` is to come, and somebody made this delegation, at
\* `when[w]`, no more than a day before it, and has not taken it back.
Vouched(e, when, time) ==
  /\ e.exp # Never
  /\ time < e.exp
  /\ \E w \in Users \X Agents \X Capabilities :
       SaysDelegation(e, w) /\ when[w] # Never /\ e.exp <= when[w] + MaxTTL

\* A delegation in the graph is one last made within a day, and not over.
DelegationLedger ==
  \A e \in graph : DelegationEdge(e) => Vouched(e, delegations, now)

\* Nobody has delegated anything in the seed.
LEMMA DelegationsInitially == Init => DelegationLedger
<1> SUFFICES ASSUME Init PROVE DelegationLedger
  OBVIOUS
<1>1. graph = Seed
  BY Updates DEF Init, Console!Init
<1>2. \A e \in Seed : ~DelegationEdge(e)
  BY DEF Seed, Lasting, Expiring, DelegationEdge
<1> QED
  BY <1>1, <1>2 DEF DelegationLedger

\* A delegation is entered with the time it was written at.
LEMMA WriteFollows ==
  ASSUME Console!ConsoleTypeOK, WordsTyped, Prepared, DelegationLedger,
         NEW h \in Handlers, WriteDelegation(h)
  PROVE  DelegationLedger'
<1>1. PICK u, a, caps, exp :
        /\ u = handler[h].user /\ a = handler[h].agent
        /\ caps = handler[h].caps /\ exp = now + handler[h].ttl
  OBVIOUS
<1>2. handler[h].step = "enrolled"
  BY DEF WriteDelegation, Console!WriteDelegation
<1>3. /\ u \in Users /\ a \in Agents /\ caps \subseteq Capabilities
      /\ caps # {} /\ now \in Nat /\ exp \in Int /\ MaxTTL \in Nat
      /\ now < exp /\ exp <= now + MaxTTL
  <2>1. handler[h].ttl \in 1..MaxTTL /\ MaxTTL \in Nat /\ now \in Nat
    BY <1>2, LifetimeAssumption DEF Prepared, Console!ConsoleTypeOK
  <2> QED
    BY <1>1, <1>2, <2>1, HandlerKnows DEF Prepared
<1>4. graph' = Delegate(graph, u, a, caps, exp)
  BY <1>1, Updates DEF WriteDelegation, Console!WriteDelegation
<1>5. now' = now
  BY DEF WriteDelegation, Console!WriteDelegation
<1>6. \A w \in Users \X Agents \X Capabilities :
        delegations'[w] = IF \E c \in caps : w = <<u, a, c>>
                          THEN now ELSE delegations[w]
  <2>1. Words(u, a, caps) = {<<u, a, c>> : c \in caps}
    BY <1>3 DEF Words
  <2> QED
    BY <1>1, <2>1 DEF WriteDelegation, WordsTyped
<1>7. PICK anchors :
        anchors = {Lasting(Delegation(u, a), "delegator", User(u)),
                   Lasting(Delegation(u, a), "delegate", Agent(a))}
  OBVIOUS
<1>8. PICK granted : granted =
        {Expiring(Delegation(u, a), "granted", Capability(c), exp) :
           c \in caps}
  OBVIOUS
<1>9. graph' = Without(graph, anchors \cup granted) \cup anchors \cup granted
  BY <1>4, <1>7, <1>8 DEF Delegate, Touch
<1>10. /\ \A e \in granted : \E c \in caps :
            e = Expiring(Delegation(u, a), "granted", Capability(c), exp)
       /\ \A c \in caps :
            Expiring(Delegation(u, a), "granted", Capability(c), exp)
              \in granted
  BY <1>8
<1>11. \A f \in anchors : f.rel # "granted"
  BY <1>7, Fields
<1>12. ASSUME NEW e \in graph', DelegationEdge(e)
       PROVE  Vouched(e, delegations', now)
  <2>1. CASE e \in granted
    <3>1. PICK c \in caps :
            e = Expiring(Delegation(u, a), "granted", Capability(c), exp)
      BY <1>10, <2>1
    <3>2. PICK w : w = <<u, a, c>>
      OBVIOUS
    <3>3. /\ w \in Users \X Agents \X Capabilities
          /\ SaysDelegation(e, w) /\ e.exp = exp
      BY <1>3, <3>1, <3>2, Fields DEF SaysDelegation
    <3>4. delegations'[w] = now
      BY <1>6, <3>2, <3>3
    <3>5. now # Never /\ exp # Never
      BY <1>3, NeverAssumption
    <3> QED
      BY <1>3, <3>3, <3>4, <3>5 DEF Vouched
  <2>2. CASE e \in graph /\ \A f \in granted : ~Same(e, f)
    <3>1. PICK w \in Users \X Agents \X Capabilities :
            /\ SaysDelegation(e, w)
            /\ delegations[w] # Never /\ e.exp <= delegations[w] + MaxTTL
      BY <1>12, <2>2 DEF DelegationLedger, Vouched
    <3>2. ASSUME NEW c \in caps, w = <<u, a, c>>
          PROVE  FALSE
      <4>1. PICK f :
              f = Expiring(Delegation(u, a), "granted", Capability(c), exp)
        OBVIOUS
      <4>2. f \in granted
        BY <1>10, <4>1
      <4>3. f.res = Delegation(u, a) /\ f.rel = "granted"
            /\ f.sub = Capability(c)
        BY <4>1, Fields
      <4>4. Same(e, f)
        BY <1>12, <3>1, <3>2, <4>3 DEF Same, SaysDelegation, DelegationEdge
      <4> QED
        BY <2>2, <4>2, <4>4
    <3>3. delegations'[w] = delegations[w]
      BY <1>6, <3>2
    <3> QED
      BY <1>12, <2>2, <3>1, <3>3 DEF DelegationLedger, Vouched
  <2> QED
    BY <1>9, <1>11, <1>12, <2>1, <2>2 DEF Without, DelegationEdge
<1> QED
  BY <1>5, <1>12 DEF DelegationLedger, Vouched

\* A delegation is struck out when its relationship is gone.
LEMMA WithdrawFollows ==
  ASSUME WordsTyped, DelegationLedger, NEW u \in Users, NEW a \in Agents,
         NEW caps \in SUBSET Capabilities, WithdrawDelegation(u, a, caps)
  PROVE  DelegationLedger'
<1>1. PICK gone : gone = IF caps = {} THEN Capabilities ELSE caps
  OBVIOUS
<1>2. \A w \in Users \X Agents \X Capabilities :
        delegations'[w] = IF \E c \in gone : w = <<u, a, c>>
                          THEN Never ELSE delegations[w]
  <2>1. Words(u, a, caps) = {<<u, a, c>> : c \in gone}
    BY <1>1 DEF Words
  <2> QED
    BY <2>1 DEF WithdrawDelegation, WordsTyped
<1>3. graph' = Undelegate(graph, u, a, caps) /\ now' = now
  BY Updates DEF WithdrawDelegation, Console!WithdrawDelegation
<1>4. ASSUME NEW e \in graph', DelegationEdge(e)
      PROVE  Vouched(e, delegations', now)
  <2>1. e \in graph
    BY <1>3 DEF Undelegate, Without, WithoutResource
  <2>2. PICK w \in Users \X Agents \X Capabilities :
          /\ SaysDelegation(e, w)
          /\ delegations[w] # Never /\ e.exp <= delegations[w] + MaxTTL
    BY <1>4, <2>1 DEF DelegationLedger, Vouched
  <2>3. ASSUME NEW c \in gone, w = <<u, a, c>>
        PROVE  FALSE
    <3>1. CASE caps = {}
      <4>1. e.res # Delegation(u, a)
        BY <1>3, <3>1 DEF Undelegate, WithoutResource
      <4> QED
        BY <2>2, <2>3, <4>1 DEF SaysDelegation
    <3>2. CASE caps # {}
      <4>1. PICK f :
              f = Lasting(Delegation(u, a), "granted", Capability(c))
        OBVIOUS
      <4>2. ~Same(e, f)
        BY <1>1, <1>3, <3>2, <4>1 DEF Undelegate, Without
      <4>3. f.res = Delegation(u, a) /\ f.rel = "granted"
            /\ f.sub = Capability(c)
        BY <4>1, Fields
      <4> QED
        BY <1>4, <2>2, <2>3, <4>2, <4>3
           DEF Same, SaysDelegation, DelegationEdge
    <3> QED
      BY <3>1, <3>2
  <2>4. delegations'[w] = delegations[w]
    BY <1>2, <2>3
  <2> QED
    BY <1>4, <2>1, <2>2, <2>4 DEF DelegationLedger, Vouched
<1> QED
  BY <1>3, <1>4 DEF DelegationLedger, Vouched

\* Through every step of the console, time and expiry included, no
\* delegation in the graph is without its word.
LEMMA DelegationsFollow ==
  ASSUME Console!ConsoleTypeOK, WordsTyped, Prepared, DelegationLedger,
         ConsoleMoves
  PROVE  DelegationLedger'
<1>1. Untouched("delegation", "granted") /\ UNCHANGED <<delegations, now>>
        => DelegationLedger'
  BY DEF Untouched, DelegationLedger, DelegationEdge, Vouched
<1>2. ASSUME NEW u \in Users, NEW p \in Applications,
             NEW caps \in SUBSET Capabilities,
             GrantConsent(u, p, caps) \/ RevokeConsent(u, p, caps)
      PROVE  DelegationLedger'
  <2>1. /\ \/ graph' = Grant(graph, u, p, caps)
           \/ graph' = Revoke(graph, u, p, caps)
        /\ UNCHANGED <<delegations, now>>
    BY <1>2, Updates DEF GrantConsent, Console!GrantConsent,
                         RevokeConsent, Console!RevokeConsent
  <2> QED
    BY <1>1, <2>1, GrantLeaves
<1>3. ASSUME NEW h \in Handlers, RemoveIdentity(h)
      PROVE  DelegationLedger'
  BY <1>1, <1>3, OthersLeave DEF RemoveIdentity, Console!RemoveIdentity
<1>4. ASSUME NEW a \in Agents, NEW u \in Users, EnrolAgent(a, u)
      PROVE  DelegationLedger'
  <2>1. Console!EnrolAgent(a, u) /\ UNCHANGED <<delegations, now>>
    BY <1>4 DEF EnrolAgent, Console!EnrolAgent
  <2>2. graph' = Touch(graph, {Lasting(Agent(a), "enrolled_for", User(u))})
    BY <2>1, Updates DEF Console!EnrolAgent
  <2>3. \A f \in {Lasting(Agent(a), "enrolled_for", User(u))} :
          f.res.type = "agent"
    BY Fields, Names
  <2> QED
    BY <1>1, <2>1, <2>2, <2>3, TouchLeaves
<1>5. CASE Wordless
  <2>1. CASE now' = now + 1 /\ graph' = Unexpired(graph, now + 1)
             /\ UNCHANGED delegations
    <3>1. \A e \in graph' :
            e \in graph /\ (e.exp = Never \/ now + 1 < e.exp)
      <4>1. /\ \A e \in graph : e.exp \in Int \cup {Never}
            /\ now \in Nat
        BY DEF Console!ConsoleTypeOK, Console!Relationship
      <4> QED
        BY <2>1, <4>1 DEF Unexpired
    <3> QED
      BY <2>1, <3>1 DEF DelegationLedger, Vouched
  <2> QED
    BY <1>1, <1>5, <2>1, WordlessLeaves DEF words
<1> QED
  BY <1>2, <1>3, <1>4, <1>5, WriteFollows, WithdrawFollows DEF ConsoleMoves

-----------------------------------------------------------------------------
(* The graph says what people last said.                                   *)

Ledgers == ConsentLedger /\ EnrolmentLedger /\ DelegationLedger

\* What the graph means, always.
LEMMA LedgersHold ==
  Spec => [](EnforcementTypeOK /\ Prepared /\ Ledgers)
<1>1. Init => Prepared /\ Ledgers
  BY PreparedInitially, ConsentsInitially, EnrolmentsInitially,
     DelegationsInitially DEF Ledgers
<1>2. EnforcementTypeOK /\ Prepared /\ Ledgers /\ [Next]_vars
        => Prepared' /\ Ledgers'
  <2> SUFFICES ASSUME EnforcementTypeOK, Prepared, Ledgers, [Next]_vars
               PROVE  Prepared' /\ Ledgers'
    OBVIOUS
  <2>1. Console!ConsoleTypeOK /\ WordsTyped
    BY DEF EnforcementTypeOK, WordsTyped
  <2>2. CASE ConsoleMoves
    BY <2>1, <2>2, PreparedStays, ConsentsFollow, EnrolmentsFollow,
       DelegationsFollow DEF Ledgers
  <2>3. CASE UNCHANGED <<graph, now, handler, words>>
    BY <2>3 DEF words, Prepared, Ledgers, ConsentLedger, EnrolmentLedger,
                DelegationLedger, Vouched
  <2>4. PointMoves => UNCHANGED <<graph, now, handler, words>>
    BY DEF PointMoves, Point!Accept, Point!Gate, Point!Conclude,
           Point!Permit, Point!Refuse, Point!GiveUp, Point!Swap,
           Point!Partition
  <2> QED
    BY <2>2, <2>3, <2>4 DEF Next, vars
<1> QED
  BY <1>1, <1>2, EnforcementTypeCorrect, PTL DEF Spec

-----------------------------------------------------------------------------
(* What SpiceDB is asked about a call, in the words of Relationships.      *)

\* What a plan is sure to ask about a guarded route and about an agent.
LEMMA Asked ==
  ASSUME NEW f, NEW id, NEW rule,
         id = ActorOf(f), rule = RuleOf(f)
  PROVE  /\ Point!ConsentApplies(f.cfg, rule, id) =>
              \E q \in Point!Plan(f.cfg, f.request) :
                /\ q.reason = "consent_required"
                /\ q.res = ConsentGrant(id.subject, id.application)
                /\ q.permission = "includes"
                /\ q.sub = Capability(rule.capability)
         /\ id.kind = "agent" =>
              \E q \in Point!Plan(f.cfg, f.request) :
                /\ q.res = Agent(id.agent)
                /\ q.permission = "act_for"
                /\ q.sub = User(id.subject)
         /\ id.kind = "agent" /\ rule.capability # None =>
              \E q \in Point!Plan(f.cfg, f.request) :
                /\ q.res = Delegation(id.subject, id.agent)
                /\ q.permission = "includes"
                /\ q.sub = Capability(rule.capability)
<1>1. /\ Point!RuleAt(f.cfg, f.request.endpoint) = rule
      /\ Point!FromClaims(f.cfg, Point!Credential(f.request, rule)) = id
  BY DEF ActorOf, RuleOf, RuleAt, Point!RuleAt
<1>2. ASSUME Point!ConsentApplies(f.cfg, rule, id)
      PROVE  \E q \in Point!Plan(f.cfg, f.request) :
               /\ q.reason = "consent_required"
               /\ q.res = ConsentGrant(id.subject, id.application)
               /\ q.permission = "includes"
               /\ q.sub = Capability(rule.capability)
  <2>1. PICK q : q = Point!Question(2, "consent_required",
                       Point!ConsentGrant(id.subject, id.application),
                       "includes", Point!Capability(rule.capability))
    OBVIOUS
  <2>2. q \in Point!Plan(f.cfg, f.request)
    BY <1>1, <1>2, <2>1 DEF Point!Plan, Point!When
  <2>3. /\ q.reason = "consent_required"
        /\ q.res = ConsentGrant(id.subject, id.application)
        /\ q.permission = "includes"
        /\ q.sub = Capability(rule.capability)
    BY <2>1 DEF Point!Question, Point!ConsentGrant, ConsentGrant,
                Point!Capability, Capability, Point!Object, Object
  <2> QED
    BY <2>2, <2>3
<1>3. ASSUME id.kind = "agent"
      PROVE  \E q \in Point!Plan(f.cfg, f.request) :
               /\ q.res = Agent(id.agent)
               /\ q.permission = "act_for"
               /\ q.sub = User(id.subject)
  <2>1. PICK q : q = Point!Question(3, "agent_not_enrolled",
                       Point!Agent(id.agent), "act_for",
                       Point!User(id.subject))
    OBVIOUS
  <2>2. q \in Point!Plan(f.cfg, f.request)
    BY <1>1, <1>3, <2>1 DEF Point!Plan, Point!When
  <2>3. q.res = Agent(id.agent) /\ q.permission = "act_for"
        /\ q.sub = User(id.subject)
    BY <2>1 DEF Point!Question, Point!Agent, Agent, Point!User, User,
                Point!Object, Object
  <2> QED
    BY <2>2, <2>3
<1>4. ASSUME id.kind = "agent", rule.capability # None
      PROVE  \E q \in Point!Plan(f.cfg, f.request) :
               /\ q.res = Delegation(id.subject, id.agent)
               /\ q.permission = "includes"
               /\ q.sub = Capability(rule.capability)
  <2>1. PICK q : q = Point!Question(4, "delegation_required",
                       Point!Delegation(id.subject, id.agent), "includes",
                       Point!Capability(rule.capability))
    OBVIOUS
  <2>2. q \in Point!Plan(f.cfg, f.request)
    BY <1>1, <1>4, <2>1 DEF Point!Plan, Point!When
  <2>3. /\ q.res = Delegation(id.subject, id.agent)
        /\ q.permission = "includes"
        /\ q.sub = Capability(rule.capability)
    BY <2>1 DEF Point!Question, Point!Delegation, Delegation,
                Point!Capability, Capability, Point!Object, Object
  <2> QED
    BY <2>2, <2>3
<1> QED
  BY <1>2, <1>3, <1>4

\* And no other question is answered with "consent_required".
LEMMA OnlyConsentChallenges ==
  ASSUME NEW f, NEW id, NEW rule,
         id = ActorOf(f), rule = RuleOf(f),
         NEW q \in Point!Plan(f.cfg, f.request),
         q.reason = "consent_required"
  PROVE  /\ q.res = ConsentGrant(id.subject, id.application)
         /\ q.permission = "includes"
         /\ q.sub = Capability(rule.capability)
<1>1. /\ Point!RuleAt(f.cfg, f.request.endpoint) = rule
      /\ Point!FromClaims(f.cfg, Point!Credential(f.request, rule)) = id
  BY DEF ActorOf, RuleOf, RuleAt, Point!RuleAt
<1>2. q = Point!Question(2, "consent_required",
            Point!ConsentGrant(id.subject, id.application),
            "includes", Point!Capability(rule.capability))
  BY <1>1 DEF Point!Plan, Point!When, Point!Question
<1> QED
  BY <1>2 DEF Point!Question, Point!ConsentGrant, ConsentGrant,
              Point!Capability, Capability, Point!Object, Object

\* A consent, a delegation or an enrolment is held exactly by the
\* relationship that was written for it.
LEMMA HeldByEdge ==
  ASSUME NEW res, NEW permission, NEW rel \in RelationNames, NEW sub,
         \/ /\ res.type \in {"consent_grant", "delegation"}
            /\ permission = "includes" /\ rel = "granted"
         \/ /\ res.type = "agent"
            /\ permission = "act_for" /\ rel = "enrolled_for"
  PROVE  Permitted(graph, res, permission, sub)
           <=> Related(graph, res, rel, sub)
<1>1. \A other \in RelationNames :
        <<res.type, permission, other>> \in DirectPermissions
          <=> other = rel
  BY DEF DirectPermissions
<1> QED
  BY <1>1 DEF Permitted, DirectlyPermitted

\* What was asked of a call that is let through is in the graph.
LEMMA PermittedHolds ==
  ASSUME NEW c \in Calls, Point!Permit(c),
         NEW q \in Point!Plan(flight[c].cfg, flight[c].request)
  PROVE  Permitted(graph, q.res, q.permission, q.sub)
BY SamePermitted DEF Point!Permit, Point!Holds

\* A relationship says one word only.
LEMMA WordOf ==
  ASSUME NEW w \in Users \X Agents \X Capabilities, NEW e,
         NEW u, NEW a, NEW c,
         e.res = Delegation(u, a), e.sub = Capability(c),
         SaysDelegation(e, w)
  PROVE  w = <<u, a, c>>
<1>1. w = <<w[1], w[2], w[3]>>
  OBVIOUS
<1>2. w[1] = u /\ w[2] = a /\ w[3] = c
  BY DEF SaysDelegation, Delegation, Capability, Object
<1> QED
  BY <1>1, <1>2

\* A consent names its person, application and capability.
LEMMA ConsentWordOf ==
  ASSUME NEW w \in Users \X Applications \X Capabilities, NEW e,
         NEW u, NEW p, NEW c,
         e.res = ConsentGrant(u, p), e.sub = Capability(c),
         SaysConsent(e, w)
  PROVE  w = <<u, p, c>>
<1>1. w = <<w[1], w[2], w[3]>>
  OBVIOUS
<1>2. w[1] = u /\ w[2] = p /\ w[3] = c
  BY DEF SaysConsent, ConsentGrant, Capability, Object
<1> QED
  BY <1>1, <1>2

\* SpiceDB answers yes to a consent exactly when it was last given.
LEMMA ConsentIsInTheGraph ==
  ASSUME WordsTyped, ConsentLedger, NEW u, NEW p, NEW c
  PROVE  Permitted(graph, ConsentGrant(u, p), "includes", Capability(c))
           <=> <<u, p, c>> \in consents
<1>1. Permitted(graph, ConsentGrant(u, p), "includes", Capability(c))
        <=> Related(graph, ConsentGrant(u, p), "granted", Capability(c))
  BY HeldByEdge, Names DEF RelationNames
<1>2. ASSUME Related(graph, ConsentGrant(u, p), "granted", Capability(c))
      PROVE  <<u, p, c>> \in consents
  <2>1. PICK e \in graph : /\ e.res = ConsentGrant(u, p)
                           /\ e.rel = "granted" /\ e.sub = Capability(c)
    BY <1>2 DEF Related
  <2>2. PICK w \in consents : SaysConsent(e, w)
    BY <2>1, Names DEF ConsentLedger, ConsentEdge
  <2>3. w \in Users \X Applications \X Capabilities
    BY <2>2 DEF WordsTyped
  <2> QED
    BY <2>1, <2>2, <2>3, ConsentWordOf
<1>3. ASSUME <<u, p, c>> \in consents
      PROVE  Related(graph, ConsentGrant(u, p), "granted", Capability(c))
  <2>1. PICK w \in consents : w = <<u, p, c>>
    BY <1>3
  <2>2. PICK e \in graph : ConsentEdge(e) /\ SaysConsent(e, w)
    BY <2>1 DEF ConsentLedger
  <2> QED
    BY <2>1, <2>2 DEF Related, ConsentEdge, SaysConsent
<1> QED
  BY <1>1, <1>2, <1>3

\* A third-party application is let in on a person's last word, and she is
\* asked for no consent that she has given (consentApplies, Grant, Revoke).
THEOREM ConsentsMeanTheLastWord == Spec => ConsentLastWord
<1>1. EnforcementTypeOK /\ Ledgers /\ [Next]_vars =>
        [\A c \in Calls :
           LET f == flight[c]
               word == <<ActorOf(f).subject, ActorOf(f).application,
                         RuleOf(f).capability>>
           IN /\ Point!Permit(c)
                 /\ Point!ConsentApplies(f.cfg, RuleOf(f), ActorOf(f))
                   => word \in consents
              /\ Point!Refuse(c) /\ flight'[c].reason = "consent_required"
                   => word \notin consents
        ]_vars
  <2> SUFFICES ASSUME EnforcementTypeOK, Ledgers, NEW c \in Calls
               PROVE  LET f == flight[c]
                          word == <<ActorOf(f).subject, ActorOf(f).application,
                                    RuleOf(f).capability>>
                      IN /\ Point!Permit(c)
                            /\ Point!ConsentApplies(f.cfg, RuleOf(f),
                                                    ActorOf(f))
                              => word \in consents
                         /\ Point!Refuse(c)
                            /\ flight'[c].reason = "consent_required"
                              => word \notin consents
    OBVIOUS
  <2>1. PICK f, id, rule :
          f = flight[c] /\ id = ActorOf(f) /\ rule = RuleOf(f)
    OBVIOUS
  <2>2. WordsTyped /\ ConsentLedger
    BY DEF EnforcementTypeOK, WordsTyped, Ledgers
  <2>3. ASSUME Point!Permit(c), Point!ConsentApplies(f.cfg, rule, id)
        PROVE  <<id.subject, id.application, rule.capability>> \in consents
    <3>1. PICK q \in Point!Plan(f.cfg, f.request) :
            /\ q.res = ConsentGrant(id.subject, id.application)
            /\ q.permission = "includes"
            /\ q.sub = Capability(rule.capability)
      BY <2>1, <2>3, Asked
    <3>2. Permitted(graph, q.res, q.permission, q.sub)
      BY <2>1, <2>3, PermittedHolds
    <3> QED
      BY <2>2, <3>1, <3>2, ConsentIsInTheGraph
  <2>4. ASSUME Point!Refuse(c), flight'[c].reason = "consent_required"
        PROVE  <<id.subject, id.application, rule.capability>> \notin consents
    <3>1. PICK q \in Point!Plan(f.cfg, f.request) :
            /\ ~Point!Holds(q, graph)
            /\ Point!Answer(c, q.reason)
      BY <2>1, <2>4 DEF Point!Refuse, Point!Blocks
    <3>2. flight'[c].reason = q.reason
      <4>1. c \in DOMAIN flight
        BY DEF EnforcementTypeOK
      <4> QED
        BY <3>1, <4>1 DEF Point!Answer, Point!Answered
    <3>3. /\ q.res = ConsentGrant(id.subject, id.application)
          /\ q.permission = "includes"
          /\ q.sub = Capability(rule.capability)
      BY <2>1, <2>4, <3>1, <3>2, OnlyConsentChallenges
    <3>4. ~Permitted(graph, q.res, q.permission, q.sub)
      BY <3>1, SamePermitted DEF Point!Holds
    <3> QED
      BY <2>2, <3>3, <3>4, ConsentIsInTheGraph
  <2> QED
    BY <2>1, <2>3, <2>4
<1> QED
  BY <1>1, LedgersHold, PTL DEF Spec, ConsentLastWord

\* What an agent is let through for, its person delegated within a day and
\* has not taken back (Delegate, Undelegate, createDelegation).
THEOREM DelegationsMeanTheLastWord == Spec => DelegationLastWord
<1>1. EnforcementTypeOK /\ Ledgers /\ [Next]_vars =>
        [\A c \in Calls :
           LET f == flight[c]
               when == delegations[<<ActorOf(f).subject, ActorOf(f).agent,
                                     RuleOf(f).capability>>]
           IN Point!Permit(c) /\ ActorOf(f).kind = "agent"
                /\ RuleOf(f).capability # None =>
                when # Never /\ now < when + MaxTTL
        ]_vars
  <2> SUFFICES ASSUME EnforcementTypeOK, Ledgers, NEW c \in Calls
               PROVE  LET f == flight[c]
                          when == delegations[<<ActorOf(f).subject,
                                    ActorOf(f).agent, RuleOf(f).capability>>]
                      IN Point!Permit(c) /\ ActorOf(f).kind = "agent"
                           /\ RuleOf(f).capability # None =>
                           when # Never /\ now < when + MaxTTL
    OBVIOUS
  <2>1. PICK f, id, rule :
          f = flight[c] /\ id = ActorOf(f) /\ rule = RuleOf(f)
    OBVIOUS
  <2>2. ASSUME Point!Permit(c), id.kind = "agent", rule.capability # None
        PROVE  LET when == delegations[<<id.subject, id.agent,
                                         rule.capability>>]
               IN when # Never /\ now < when + MaxTTL
    <3>1. PICK q \in Point!Plan(f.cfg, f.request) :
            /\ q.res = Delegation(id.subject, id.agent)
            /\ q.permission = "includes"
            /\ q.sub = Capability(rule.capability)
      BY <2>1, <2>2, Asked
    <3>2. Permitted(graph, q.res, q.permission, q.sub)
      BY <2>1, <2>2, PermittedHolds
    <3>3. Related(graph, Delegation(id.subject, id.agent), "granted",
                  Capability(rule.capability))
      BY <3>1, <3>2, HeldByEdge, Names DEF RelationNames
    <3>4. PICK e \in graph : /\ e.res = Delegation(id.subject, id.agent)
                             /\ e.rel = "granted"
                             /\ e.sub = Capability(rule.capability)
      BY <3>3 DEF Related
    <3>5. Vouched(e, delegations, now)
      BY <3>4, Names DEF Ledgers, DelegationLedger, DelegationEdge
    <3>6. PICK w \in Users \X Agents \X Capabilities :
            /\ SaysDelegation(e, w)
            /\ delegations[w] # Never /\ e.exp <= delegations[w] + MaxTTL
      BY <3>5 DEF Vouched
    <3>7. w = <<id.subject, id.agent, rule.capability>>
      BY <3>4, <3>6, WordOf
    <3>8. /\ e.exp \in Int /\ now \in Int /\ MaxTTL \in Int
          /\ delegations[w] \in Int /\ now < e.exp
      BY <3>5, <3>6, LifetimeAssumption
         DEF Vouched, EnforcementTypeOK, Console!ConsoleTypeOK,
             Console!Relationship
    <3> QED
      BY <3>6, <3>7, <3>8
  <2> QED
    BY <2>1, <2>2
<1> QED
  BY <1>1, LedgersHold, PTL DEF Spec, DelegationLastWord

\* From the first deletion of its decommission until it is enrolled again an
\* agent is refused everything (Decommission, createDelegation, check).
THEOREM DecommissionedIsRefused == Spec => DecommissionedAgentRefused
<1>1. EnforcementTypeOK /\ Ledgers /\ [Next]_vars =>
        [\A c \in Calls :
           Point!Permit(c) /\ ActorOf(flight[c]).kind = "agent" =>
             <<ActorOf(flight[c]).agent, ActorOf(flight[c]).subject>>
               \in enrolments
        ]_vars
  <2> SUFFICES ASSUME EnforcementTypeOK, Ledgers, NEW c \in Calls,
                      Point!Permit(c), ActorOf(flight[c]).kind = "agent"
               PROVE  <<ActorOf(flight[c]).agent, ActorOf(flight[c]).subject>>
                        \in enrolments
    OBVIOUS
  <2>1. PICK f, id, rule :
          f = flight[c] /\ id = ActorOf(f) /\ rule = RuleOf(f)
    OBVIOUS
  <2>2. PICK q \in Point!Plan(f.cfg, f.request) :
          /\ q.res = Agent(id.agent)
          /\ q.permission = "act_for"
          /\ q.sub = User(id.subject)
    BY <2>1, Asked
  <2>3. Permitted(graph, q.res, q.permission, q.sub)
    BY <2>1, PermittedHolds
  <2>4. Related(graph, Agent(id.agent), "enrolled_for", User(id.subject))
    BY <2>2, <2>3, HeldByEdge, Names DEF RelationNames
  <2>5. PICK e \in graph : /\ e.res = Agent(id.agent)
                           /\ e.rel = "enrolled_for"
                           /\ e.sub = User(id.subject)
    BY <2>4 DEF Related
  <2>6. PICK w \in enrolments : Enrols(e, w)
    BY <2>5, Names DEF Ledgers, EnrolmentLedger, EnrolmentEdge
  <2>7. w \in Agents \X Users
    BY <2>6 DEF EnforcementTypeOK
  <2>8. w[1] = id.agent /\ w[2] = id.subject
    BY <2>5, <2>6 DEF Enrols, Agent, User, Object
  <2> QED
    BY <2>1, <2>6, <2>7, <2>8
<1> QED
  BY <1>1, LedgersHold, PTL DEF Spec, DecommissionedAgentRefused
=============================================================================
