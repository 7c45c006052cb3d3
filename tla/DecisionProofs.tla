---------------------------- MODULE DecisionProofs ----------------------------
(***************************************************************************)
(* Theorems about the decision point for every set of calls, requests,     *)
(* configurations and graphs: its type invariant, the two invariants about *)
(* agents, that it implements the access policy, and that its challenges   *)
(* tell the truth.                                                         *)
(***************************************************************************)
EXTENDS Decision, CheckProofs, TLAPS

-----------------------------------------------------------------------------
(* What the gates and the plan can say.                                    *)

\* The gates end in a reason or leave the call to be asked.
LEMMA VerdictRange ==
  ASSUME NEW cfg, NEW r
  PROVE  Verdict(cfg, r) \in Reasons \cup {"ask"}
BY DEF Verdict, Gated, Unidentified, Reasons, Refusals

\* A question that fails refuses.
LEMMA PlanReasons ==
  ASSUME NEW cfg, NEW r, NEW q \in Plan(cfg, r)
  PROVE  q.reason \in Refusals
BY DEF Plan, When, Question, Refusals

\* An answer agrees with its reason.
LEMMA AnsweredTyped ==
  ASSUME NEW cfg \in Configs, NEW r \in Requests, NEW reason \in Reasons
  PROVE  Answered(r, cfg, reason) \in Flight
BY DEF Answered, Outcome, Reasons, Refusals, Flight

\* A call that is being worked on has a request and a configuration.
LEMMA WorkingTyped ==
  ASSUME DecisionTypeOK, NEW c \in Calls,
         flight[c].step \in {"gating", "asking"}
  PROVE  /\ flight[c].request \in Requests
         /\ flight[c].cfg \in Configs
BY DEF DecisionTypeOK, Flight, Idle

\* Answering a call that is being worked on leaves everything well typed.
LEMMA AnswerTyped ==
  ASSUME DecisionTypeOK, NEW c \in Calls,
         flight[c].step \in {"gating", "asking"},
         NEW reason \in Reasons, Answer(c, reason)
  PROVE  flight' \in [Calls -> Flight]
<1>1. Answered(flight[c].request, flight[c].cfg, reason) \in Flight
  BY WorkingTyped, AnsweredTyped
<1> QED
  BY <1>1 DEF Answer, DecisionTypeOK

-----------------------------------------------------------------------------
(* The type invariant is inductive as it stands: that only what the gates  *)
(* leave open is asked of SpiceDB is part of it.                           *)

\* Every call is in a state the pipeline has, whatever is swapped or written
\* meanwhile, and is let through for no reason but "permitted" (Check).
THEOREM TypeCorrect == Spec => []DecisionTypeOK
<1>1. Init => DecisionTypeOK
  BY DEF Init, DecisionTypeOK, Flight
<1>2. DecisionTypeOK /\ [Next]_vars => DecisionTypeOK'
  <2> SUFFICES ASSUME DecisionTypeOK, [Next]_vars
               PROVE  DecisionTypeOK'
    OBVIOUS
  <2>1. ASSUME NEW c \in Calls, NEW r \in Requests, Accept(c, r)
        PROVE  DecisionTypeOK'
    <3>1. Working("gating", r, snapshot) \in Flight
      BY DEF Working, Flight, DecisionTypeOK
    <3> QED
      BY <2>1, <3>1 DEF Accept, DecisionTypeOK
  <2>2. ASSUME NEW c \in Calls, Gate(c)
        PROVE  DecisionTypeOK'
    <3> DEFINE verdict == Verdict(flight[c].cfg, flight[c].request)
    <3>1. flight' \in [Calls -> Flight]
      <4>1. CASE verdict = "ask"
        <5>1. [flight[c] EXCEPT !.step = "asking"] \in Flight
          BY <2>2, <4>1 DEF Gate, DecisionTypeOK, Flight, Idle
        <5> QED
          BY <2>2, <4>1, <5>1 DEF Gate, DecisionTypeOK
      <4>2. CASE verdict # "ask"
        <5>1. verdict \in Reasons
          BY <4>2, VerdictRange
        <5>2. Answer(c, verdict) /\ flight[c].step = "gating"
          BY <2>2, <4>2 DEF Gate
        <5> HIDE DEF verdict
        <5> QED
          BY <5>1, <5>2, AnswerTyped
      <4> QED
        BY <4>1, <4>2
    <3> QED
      BY <2>2, <3>1 DEF Gate, DecisionTypeOK
  <2>3. ASSUME NEW c \in Calls, Conclude(c)
        PROVE  DecisionTypeOK'
    <3>1. CASE Permit(c)
      <4>1. "permitted" \in Reasons
        BY DEF Reasons
      <4> QED
        BY <3>1, <4>1, AnswerTyped DEF Permit, DecisionTypeOK
    <3>2. CASE Refuse(c)
      <4>1. PICK q \in Plan(flight[c].cfg, flight[c].request) :
              Answer(c, q.reason)
        BY <3>2 DEF Refuse
      <4>2. q.reason \in Reasons
        BY <4>1, PlanReasons DEF Reasons
      <4> QED
        BY <3>2, <4>1, <4>2, AnswerTyped DEF Refuse, DecisionTypeOK
    <3>3. CASE GiveUp(c)
      <4>1. "backend_unavailable" \in Reasons
        BY DEF Reasons, Refusals
      <4> QED
        BY <3>3, <4>1, AnswerTyped DEF GiveUp, DecisionTypeOK
    <3> QED
      BY <2>3, <3>1, <3>2, <3>3 DEF Conclude
  <2>4. ASSUME NEW cfg \in Configs, Swap(cfg)
        PROVE  DecisionTypeOK'
    BY <2>4 DEF Swap, DecisionTypeOK
  <2>5. CASE WriteGraph
    BY <2>5 DEF WriteGraph, DecisionTypeOK
  <2>6. CASE Partition
    BY <2>6 DEF Partition, DecisionTypeOK
  <2>7. CASE UNCHANGED vars
    BY <2>7 DEF vars, DecisionTypeOK
  <2> QED
    BY <2>1, <2>2, <2>3, <2>4, <2>5, <2>6, <2>7 DEF Next
<1> QED
  BY <1>1, <1>2, PTL DEF Spec

-----------------------------------------------------------------------------
(* What the gates establish.                                               *)

\* Requests come in at endpoints.
LEMMA RequestEnters ==
  ASSUME NEW r \in Requests
  PROVE  r.endpoint \in Endpoints
BY RequestAssumption DEF Request

\* The strengthening: a call that was let through had passed the gates.
GatesPassed ==
  \A f \in LetThrough :
    /\ f.request \in Requests
    /\ f.cfg \in Configs
    /\ Verdict(f.cfg, f.request) \in {"permitted", "ask"}

GateInv == DecisionTypeOK /\ GatesPassed

\* No interleaving lets through what the gates did not.
LEMMA GatesAlwaysPassed == Spec => []GateInv
<1>1. Init => GatesPassed
  BY DEF Init, GatesPassed, LetThrough, Idle
<1>2. DecisionTypeOK /\ GatesPassed /\ [Next]_vars => GatesPassed'
  <2> SUFFICES ASSUME DecisionTypeOK, GatesPassed, [Next]_vars,
                      NEW c \in Calls, flight'[c].step = "answered",
                      flight'[c].outcome = "permit",
                      ~RuleAt(flight'[c].cfg, flight'[c].request.endpoint).public
               PROVE  /\ flight'[c].request \in Requests
                      /\ flight'[c].cfg \in Configs
                      /\ Verdict(flight'[c].cfg, flight'[c].request)
                           \in {"permitted", "ask"}
    BY DEF GatesPassed, LetThrough
  <2>1. CASE flight'[c] = flight[c]
    BY <2>1 DEF GatesPassed, LetThrough
  <2>2. CASE Gate(c)
    <3> DEFINE verdict == Verdict(flight[c].cfg, flight[c].request)
    <3>1. CASE verdict = "ask"
      BY <2>2, <3>1 DEF Gate, DecisionTypeOK, Flight, Idle
    <3>2. CASE verdict # "ask"
      <4>1. flight'[c] = Answered(flight[c].request, flight[c].cfg, verdict)
        BY <2>2, <3>2 DEF Gate, Answer, DecisionTypeOK
      <4>2. verdict = "permitted"
        BY <4>1 DEF Answered, Outcome
      <4> QED
        BY <2>2, <4>1, <4>2, WorkingTyped DEF Gate, Answered
    <3> QED
      BY <3>1, <3>2
  <2>3. CASE flight[c].step = "asking" /\
             \E reason \in Reasons : Answer(c, reason)
    <3>1. PICK reason \in Reasons :
            flight'[c] = Answered(flight[c].request, flight[c].cfg, reason)
      BY <2>3 DEF Answer, DecisionTypeOK
    <3>2. Verdict(flight[c].cfg, flight[c].request) = "ask"
      BY <2>3 DEF DecisionTypeOK, Flight, Idle
    <3> QED
      BY <2>3, <3>1, <3>2, WorkingTyped DEF Answered
  <2>4. ASSUME NEW d \in Calls, NEW r \in Requests, Accept(d, r)
        PROVE  flight'[c] = flight[c]
    BY <2>4 DEF Accept, Working, DecisionTypeOK
  <2>5. ASSUME NEW d \in Calls, d # c, Gate(d) \/ Conclude(d)
        PROVE  flight'[c] = flight[c]
    BY <2>5 DEF Gate, Conclude, Permit, Refuse, GiveUp, Answer,
                DecisionTypeOK
  <2>6. ASSUME Conclude(c)
        PROVE  flight[c].step = "asking" /\
               \E reason \in Reasons : Answer(c, reason)
    <3>1. \A q \in Plan(flight[c].cfg, flight[c].request) :
            q.reason \in Reasons
      BY PlanReasons DEF Reasons
    <3>2. {"permitted", "backend_unavailable"} \subseteq Reasons
      BY DEF Reasons, Refusals
    <3> QED
      BY <2>6, <3>1, <3>2 DEF Conclude, Permit, Refuse, GiveUp
  <2>7. CASE \/ \E cfg \in Configs : Swap(cfg)
             \/ WriteGraph
             \/ Partition
             \/ UNCHANGED vars
    BY <2>1, <2>7 DEF Swap, WriteGraph, Partition, vars
  <2> QED
    BY <2>1, <2>2, <2>3, <2>4, <2>5, <2>6, <2>7 DEF Next
<1> QED
  BY <1>1, <1>2, TypeCorrect, PTL DEF Spec, GateInv

\* No process that runs an agent gets anything done with any token but that
\* agent's, and no bound agent's token from a process that runs none, however
\* the registry changes (checkActorBinding).
THEOREM BindingHolds == Spec => []AgentsKeepToTheirWorkloads
<1>1. GateInv => AgentsKeepToTheirWorkloads
  <2> SUFFICES ASSUME GateInv, NEW f \in LetThrough
               PROVE  LET runs == AgentsByWorkload(f.cfg, f.request.source)
                          acts == AgentsByClient(f.cfg, Azp(f))
                      IN /\ runs # {} =>
                              \E e \in runs, g \in acts : e.object = g.object
                         /\ acts # {} /\ (\A g \in acts : g.workload # None)
                              => runs # {}
    BY DEF AgentsKeepToTheirWorkloads
  <2> DEFINE t == Credential(f.request, RuleAt(f.cfg, f.request.endpoint))
             id == FromClaims(f.cfg, t)
  <2>1. ActorBound(f.cfg, f.request.source, id)
    BY PastTheGates DEF GateInv, GatesPassed, LetThrough
  <2>2. /\ id.application = t.azp
        /\ id.kind = "agent" <=> AgentsByClient(f.cfg, t.azp) # {}
        /\ id.kind = "agent" =>
             id.agent = AgentByClient(f.cfg, t.azp).object
    BY DEF FromClaims
  <2> HIDE DEF t, id
  <2> QED
    BY <2>1, <2>2, Lookups DEF ActorBound, Azp, t
<1> QED
  BY <1>1, GatesAlwaysPassed, PTL

\* A sensitive resource is opened only to a person who has authenticated at
\* the level the rule asks for, never to an agent or a device, nor by any
\* token to a process that runs an agent (checkActorBinding, stepUp).
THEOREM StepUpHolds == Spec => []StepUpNeedsPerson
<1>1. GateInv => StepUpNeedsPerson
  <2> SUFFICES ASSUME GateInv, NEW f \in LetThrough,
                      RuleAt(f.cfg, f.request.endpoint).stepUp,
                      RuleAt(f.cfg, f.request.endpoint).type # None
               PROVE  /\ AgentsByWorkload(f.cfg, f.request.source) = {}
                      /\ AgentsByClient(f.cfg, Azp(f)) = {}
                      /\ DeviceOf(f.cfg, Azp(f)) = None
                      /\ Credential(f.request,
                            RuleAt(f.cfg, f.request.endpoint)).acr
                           >= RuleAt(f.cfg, f.request.endpoint).minACR
    BY DEF StepUpNeedsPerson
  <2> DEFINE rule == RuleAt(f.cfg, f.request.endpoint)
             t == Credential(f.request, rule)
             id == FromClaims(f.cfg, t)
  <2>1. f.cfg \in Configs /\ f.request \in Requests /\ ~rule.public
    BY DEF GateInv, GatesPassed, LetThrough
  <2>2. /\ rule # None
        /\ ActorBound(f.cfg, f.request.source, id)
        /\ rule.authenticatedOnly \/ StepUpMet(rule, id)
    BY <2>1, PastTheGates DEF GateInv, GatesPassed
  <2>3. ~rule.authenticatedOnly
    <3>1. f.request.endpoint \in Endpoints
      BY <2>1, RequestEnters
    <3> QED
      BY <2>1, <2>2, <3>1, ConfigAssumption DEF ValidRule, RuleAt
  <2>4. id.kind = "user" /\ id.acr >= rule.minACR
    BY <2>2, <2>3 DEF StepUpMet
  <2>5. /\ AgentsByClient(f.cfg, t.azp) = {}
        /\ DeviceOf(f.cfg, t.azp) = None
        /\ id.acr = t.acr
    BY <2>4 DEF FromClaims
  <2>6. AgentsByWorkload(f.cfg, f.request.source) = {}
    BY <2>2, <2>4 DEF ActorBound
  <2> QED
    BY <2>4, <2>5, <2>6 DEF Azp
<1> QED
  BY <1>1, GatesAlwaysPassed, PTL

-----------------------------------------------------------------------------
(* The pipeline implements the policy.                                     *)

\* The policy reads the registries and the graph as the pipeline does.
LEMMA SameRegistry ==
  ASSUME NEW cfg, NEW x, NEW y, NEW z
  PROVE  /\ Policy!RuleAt(cfg, x) = RuleAt(cfg, x)
         /\ Policy!AgentsByClient(cfg, x) = AgentsByClient(cfg, x)
         /\ Policy!AgentsByWorkload(cfg, x) = AgentsByWorkload(cfg, x)
         /\ Policy!AgentByClient(cfg, x) = AgentByClient(cfg, x)
         /\ Policy!AgentByWorkload(cfg, x) = AgentByWorkload(cfg, x)
         /\ Policy!DeviceOf(cfg, x) = DeviceOf(cfg, x)
         /\ Policy!AppByName(cfg, x) = AppByName(cfg, x)
         /\ Policy!FirstParty(cfg, x) = FirstParty(cfg, x)
         /\ Policy!TargetId(x, y, z) = TargetId(x, y, z)
         /\ Policy!Object(x, y) = Object(x, y)
         /\ Policy!User(x) = User(x)
         /\ Policy!SystemPrincipal(x) = SystemPrincipal(x)
BY DEF Policy!RuleAt, Policy!AgentsByClient, Policy!AgentsByWorkload,
       Policy!AgentByClient, Policy!AgentByWorkload, Policy!DeviceOf,
       Policy!AppByName, Policy!FirstParty, Policy!TargetId, Policy!Object,
       Policy!User, Policy!SystemPrincipal, RuleAt, AgentsByClient,
       AgentsByWorkload, AgentByClient, AgentByWorkload, DeviceOf, AppByName,
       FirstParty, TargetId, Object, User, SystemPrincipal

\* The policy reads the graph as the pipeline does.
LEMMA SamePermitted ==
  ASSUME NEW g, NEW res, NEW perm, NEW sub
  PROVE  Policy!Permitted(g, res, perm, sub) = Permitted(g, res, perm, sub)
BY Zenon DEF Policy!Permitted, Permitted, Policy!DirectlyPermitted,
       DirectlyPermitted, Policy!Related, Related, Policy!DirectPermissions,
       DirectPermissions, Policy!RelationNames, RelationNames,
       Policy!InheritedPermissions, InheritedPermissions

\* The policy's words for what the plan asks.
LEMMA SameGrants ==
  ASSUME NEW g, NEW u, NEW x, NEW c
  PROVE  /\ Policy!Consented(g, u, x, c) =
              Permitted(g, ConsentGrant(u, x), "includes", Capability(c))
         /\ Policy!EnrolledFor(g, x, u) =
              Permitted(g, Agent(x), "act_for", User(u))
         /\ Policy!Delegated(g, u, x, c) =
              Permitted(g, Delegation(u, x), "includes", Capability(c))
BY SamePermitted
   DEF Policy!Consented, Policy!EnrolledFor, Policy!Delegated,
       Policy!ConsentGrant, Policy!Agent, Policy!User, Policy!Delegation,
       Policy!Capability, Policy!Object, ConsentGrant, Agent, User,
       Delegation, Capability, Object

\* The policy authorizes what Authorization says is authorized.
LEMMA SameAuthorized ==
  ASSUME NEW cfg, NEW r, NEW w
  PROVE  Policy!Authorized(cfg, r, w) = Authorized(cfg, r, w)
<1>1. ASSUME NEW rule, NEW t
      PROVE  /\ Policy!PersonMay(cfg, rule, r, t, w) =
                  PersonMay(cfg, rule, r, t, w)
             /\ Policy!AgentMay(cfg, rule, r, t, w) =
                  AgentMay(cfg, rule, r, t, w)
             /\ Policy!DeviceMay(cfg, rule, r, t, w) =
                  DeviceMay(cfg, rule, r, t, w)
             /\ Policy!SpeaksFor(rule, r, t) = SpeaksFor(rule, r, t)
  <2>1. Policy!PersonMay(cfg, rule, r, t, w) = PersonMay(cfg, rule, r, t, w)
    BY SameRegistry, SamePermitted, SameGrants
       DEF Policy!PersonMay, PersonMay, Consented
  <2>2. Policy!AgentMay(cfg, rule, r, t, w) = AgentMay(cfg, rule, r, t, w)
    BY SameRegistry, SamePermitted, SameGrants
       DEF Policy!AgentMay, AgentMay, EnrolledFor, Delegated
  <2>3. Policy!DeviceMay(cfg, rule, r, t, w) = DeviceMay(cfg, rule, r, t, w)
    BY SameRegistry, SamePermitted DEF Policy!DeviceMay, DeviceMay
  <2>4. Policy!SpeaksFor(rule, r, t) = SpeaksFor(rule, r, t)
    BY DEF Policy!SpeaksFor, SpeaksFor
  <2> QED
    BY <2>1, <2>2, <2>3, <2>4
<1> QED
  BY <1>1, SameRegistry DEF Policy!Authorized, Authorized

\* How the policy sees the calls.
Seen == [c \in Calls |-> Abstract(flight[c])]

\* What happens to one call the policy sees happen to that call.
LEMMA SeenStep ==
  ASSUME DecisionTypeOK, NEW c \in Calls, NEW STATE f,
         flight' = [flight EXCEPT ![c] = f]
  PROVE  Seen' = [Seen EXCEPT ![c] = Abstract(f)]
<1>1. ASSUME NEW d \in Calls
      PROVE  Seen'[d] = IF d = c THEN Abstract(f) ELSE Seen[d]
  <2>1. CASE d = c
    <3>1. flight'[d] = f
      BY <2>1 DEF DecisionTypeOK
    <3> QED
      BY <2>1, <3>1 DEF Seen
  <2>2. CASE d # c
    <3>1. flight'[d] = flight[d]
      BY <2>2 DEF DecisionTypeOK
    <3> QED
      BY <2>2, <3>1 DEF Seen
  <2> QED
    BY <2>1, <2>2
<1>2. Seen = [d \in Calls |-> Seen[d]] /\ Seen' = [d \in Calls |-> Seen'[d]]
  BY DEF Seen
<1> QED
  BY <1>1, <1>2

\* A call that is worked on is one that the policy has pending.
LEMMA SeenWorking ==
  ASSUME DecisionTypeOK, NEW c \in Calls,
         flight[c].step \in {"gating", "asking"}
  PROVE  Seen[c] = Policy!Pending(flight[c].request, flight[c].cfg)
BY DEF Seen, Abstract, Policy!Pending

\* An answer is a call turned away, or one let through if it is authorized.
LEMMA AnswerSeen ==
  ASSUME DecisionTypeOK, NEW c \in Calls,
         flight[c].step \in {"gating", "asking"},
         NEW reason, Answer(c, reason),
         UNCHANGED <<graph, snapshot>>,
         reason = "permitted" =>
           Policy!Authorized(flight[c].cfg, flight[c].request, graph)
  PROVE  Policy!LetThrough(c) \/ Policy!TurnAway(c)
<1> DEFINE f == flight[c]
<1>1. Seen' = [Seen EXCEPT ![c] =
                 Abstract(Answered(f.request, f.cfg, reason))]
  BY SeenStep DEF Answer
<1>2. Seen[c] = Policy!Pending(f.request, f.cfg)
  BY SeenWorking
<1>3. Abstract(Answered(f.request, f.cfg, reason)) =
        Policy!Judged(f.request, f.cfg,
                      IF reason = "permitted" THEN "permit" ELSE "refuse")
  BY DEF Abstract, Answered, Outcome, Policy!Judged
<1> HIDE DEF f
<1>4. /\ Seen[c].step = "pending"
      /\ Seen[c].request = f.request
      /\ Seen[c].cfg = f.cfg
  BY <1>2 DEF Policy!Pending
<1>5. CASE reason = "permitted"
  BY <1>1, <1>3, <1>4, <1>5 DEF Policy!LetThrough, Seen, f
<1>6. CASE reason # "permitted"
  BY <1>1, <1>3, <1>4, <1>6 DEF Policy!TurnAway, Seen
<1> QED
  BY <1>5, <1>6

\* The pipeline implements the policy: a request is let through only if the
\* configuration installed when it arrived and the relationships at that
\* instant authorize whoever is acting (Check).
THEOREM Implements == Spec => PolicyKept
<1>1. Init => Policy!Init
  BY DEF Init, Policy!Init, Policy!Free, Abstract, Idle
<1>2. DecisionTypeOK /\ [Next]_vars => [Policy!Next]_(Policy!policyVars)
  <2> SUFFICES ASSUME DecisionTypeOK, [Next]_vars
               PROVE  Policy!Next \/ UNCHANGED Policy!policyVars
    OBVIOUS
  <2>1. ASSUME NEW c \in Calls, NEW r \in Requests, Accept(c, r)
        PROVE  Policy!Arrive(c, r)
    <3>1. Seen' = [Seen EXCEPT ![c] = Abstract(Working("gating", r, snapshot))]
      BY <2>1, SeenStep DEF Accept
    <3>2. Abstract(Working("gating", r, snapshot)) = Policy!Pending(r, snapshot)
      BY DEF Abstract, Working, Policy!Pending
    <3>3. Seen[c].step # "pending"
      BY <2>1 DEF Accept, Seen, Abstract
    <3> QED
      BY <2>1, <3>1, <3>2, <3>3 DEF Accept, Policy!Arrive, Seen
  <2>2. ASSUME NEW c \in Calls, Gate(c)
        PROVE  \/ Policy!LetThrough(c) \/ Policy!TurnAway(c)
               \/ UNCHANGED Policy!policyVars
    <3> DEFINE verdict == Verdict(flight[c].cfg, flight[c].request)
    <3>1. CASE verdict = "ask"
      <4>1. flight' = [flight EXCEPT ![c] =
                         [flight[c] EXCEPT !.step = "asking"]]
        BY <2>2, <3>1 DEF Gate
      <4>2. Abstract([flight[c] EXCEPT !.step = "asking"]) =
              Abstract(flight[c])
        BY <2>2 DEF Gate, Abstract, DecisionTypeOK, Flight, Idle
      <4>3. Seen' = Seen
        BY <4>1, <4>2, SeenStep DEF Seen
      <4> QED
        BY <2>2, <4>3 DEF Gate, Policy!policyVars, Seen
    <3>2. CASE verdict # "ask"
      <4>1. /\ flight[c].step = "gating"
            /\ Answer(c, verdict)
            /\ UNCHANGED <<graph, snapshot>>
        BY <2>2, <3>2 DEF Gate
      <4>2. verdict = "permitted" =>
              Policy!Authorized(flight[c].cfg, flight[c].request, graph)
        BY <4>1, WorkingTyped, RequestEnters, OnlyTheAuthorized,
           SameAuthorized
      <4> HIDE DEF verdict
      <4> QED
        BY <4>1, <4>2, AnswerSeen
    <3> QED
      BY <3>1, <3>2
  <2>3. ASSUME NEW c \in Calls, Conclude(c)
        PROVE  Policy!LetThrough(c) \/ Policy!TurnAway(c)
    <3>1. CASE Permit(c)
      <4>1. Verdict(flight[c].cfg, flight[c].request) = "ask"
        BY <3>1 DEF Permit, DecisionTypeOK, Flight, Idle
      <4>2. Policy!Authorized(flight[c].cfg, flight[c].request, graph)
        BY <3>1, <4>1, WorkingTyped, RequestEnters, OnlyTheAuthorized,
           SameAuthorized DEF Permit
      <4> QED
        BY <3>1, <4>2, AnswerSeen DEF Permit
    <3>2. CASE Refuse(c)
      <4>1. PICK q \in Plan(flight[c].cfg, flight[c].request) :
              Answer(c, q.reason)
        BY <3>2 DEF Refuse
      <4>2. q.reason # "permitted"
        BY <4>1, PlanReasons DEF Refusals
      <4> QED
        BY <3>2, <4>1, <4>2, AnswerSeen DEF Refuse
    <3>3. CASE GiveUp(c)
      BY <3>3, AnswerSeen DEF GiveUp
    <3> QED
      BY <2>3, <3>1, <3>2, <3>3 DEF Conclude
  <2>4. ASSUME NEW cfg \in Configs, Swap(cfg)
        PROVE  Policy!WorldChanges
    BY <2>4 DEF Swap, Policy!WorldChanges
  <2>5. CASE WriteGraph
    BY <2>5 DEF WriteGraph, Policy!WorldChanges, Policy!Next
  <2>6. CASE Partition
    BY <2>6 DEF Partition, Policy!policyVars
  <2>7. CASE UNCHANGED vars
    BY <2>7 DEF vars, Policy!policyVars
  <2> QED
    BY <2>1, <2>2, <2>3, <2>4, <2>5, <2>6, <2>7 DEF Next, Policy!Next
<1> QED
  BY <1>1, <1>2, TypeCorrect, PTL DEF Spec, PolicyKept, Policy!Spec

-----------------------------------------------------------------------------
(* A challenge tells the truth.                                            *)

\* Whoever is sent to the consent screen or the delegation screen would be
\* let through with just that grant given (check, the order of the plan).
THEOREM ChallengesTellTheTruth == Spec => ChallengesSuffice
<1>1. DecisionTypeOK /\ [Next]_vars =>
        [\A c \in Calls :
           LET f == flight[c]
               id == FromClaims(f.cfg,
                       Credential(f.request, RuleAt(f.cfg, f.request.endpoint)))
               capability ==
                 Capability(RuleAt(f.cfg, f.request.endpoint).capability)
               remedy(grant) == graph \cup {Lasting(grant, "granted", capability)}
           IN Refuse(c) =>
                /\ flight'[c].reason = "consent_required" =>
                     Policy!Authorized(f.cfg, f.request,
                       remedy(ConsentGrant(id.subject, id.application)))
                /\ flight'[c].reason = "delegation_required" =>
                     Policy!Authorized(f.cfg, f.request,
                       remedy(Delegation(id.subject, id.agent)))
        ]_vars
  <2>1. ASSUME DecisionTypeOK, NEW c \in Calls, Refuse(c),
               NEW f, f = flight[c], NEW rule, NEW id,
               rule = RuleAt(f.cfg, f.request.endpoint),
               id = FromClaims(f.cfg, Credential(f.request, rule))
        PROVE  /\ flight'[c].reason = "consent_required" =>
                    Policy!Authorized(f.cfg, f.request,
                      graph \cup {Lasting(ConsentGrant(id.subject,
                                                       id.application),
                                "granted", Capability(rule.capability))})
               /\ flight'[c].reason = "delegation_required" =>
                    Policy!Authorized(f.cfg, f.request,
                      graph \cup {Lasting(Delegation(id.subject, id.agent),
                                "granted", Capability(rule.capability))})
    <3>1. /\ f.cfg \in Configs /\ f.request \in Requests
          /\ Verdict(f.cfg, f.request) = "ask"
      BY <2>1 DEF Refuse, DecisionTypeOK, Flight, Idle
    <3>2. PICK q \in Plan(f.cfg, f.request) :
            /\ Blocks(q, Plan(f.cfg, f.request), graph)
            /\ Answer(c, q.reason)
      BY <2>1 DEF Refuse
    <3>3. flight'[c].reason = q.reason
      BY <2>1, <3>2 DEF Answer, Answered, DecisionTypeOK
    <3>4. q.reason \in {"consent_required", "delegation_required"} =>
            Policy!Authorized(f.cfg, f.request,
              graph \cup {Lasting(q.res, "granted", q.sub)})
      BY <3>1, <3>2, RequestEnters, RemedySuffices, SameAuthorized
    <3>5. /\ q.reason = "consent_required" =>
               /\ q.res = ConsentGrant(id.subject, id.application)
               /\ q.sub = Capability(rule.capability)
          /\ q.reason = "delegation_required" =>
               /\ q.res = Delegation(id.subject, id.agent)
               /\ q.sub = Capability(rule.capability)
      BY <2>1, PlanIs
    <3> QED
      BY <3>3, <3>4, <3>5
  <2> QED
    BY <2>1
<1> QED
  BY <1>1, TypeCorrect, PTL DEF Spec, ChallengesSuffice
=============================================================================
