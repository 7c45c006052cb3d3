------------------------------ MODULE CheckProofs ------------------------------
(***************************************************************************)
(* What one Check establishes, for every configuration, request and graph: *)
(* a request that passes its gates, and whose questions are all answered   *)
(* yes, is one that the policy authorizes.  The decision point and the     *)
(* hops of the mesh are proved from it.                                    *)
(***************************************************************************)
EXTENDS Check, Authorization, TLAPS

-----------------------------------------------------------------------------
(* The gates and the plan.                                                 *)

\* Past the gates of a route that is not public there is a rule, a verified
\* credential and a known client, bound to its workload.
LEMMA PastTheGates ==
  ASSUME NEW cfg, NEW r,
         Verdict(cfg, r) \in {"permitted", "ask"},
         ~RuleAt(cfg, r.endpoint).public
  PROVE  LET rule == RuleAt(cfg, r.endpoint)
             t    == Credential(r, rule)
             id   == FromClaims(cfg, t)
         IN /\ rule # None
            /\ t # None
            /\ t.valid
            /\ Known(cfg, t)
            /\ ActorBound(cfg, r.source, id)
            /\ CallerRegistered(rule, r.source)
            /\ \/ rule.authenticatedOnly /\ Verdict(cfg, r) = "permitted"
               \/ /\ ~rule.authenticatedOnly
                  /\ Verdict(cfg, r) = "ask"
                  /\ StepUpMet(rule, id)
                  /\ ResourceId(rule, r, id) # None
BY DEF Verdict, Gated, Unidentified

\* The registries hold what they are looked up by.
LEMMA Lookups ==
  ASSUME NEW cfg, NEW x
  PROVE  /\ AgentsByClient(cfg, x) # {} =>
              AgentByClient(cfg, x) \in AgentsByClient(cfg, x)
         /\ AgentsByWorkload(cfg, x) # {} =>
              AgentByWorkload(cfg, x) \in AgentsByWorkload(cfg, x)
BY DEF AgentByClient, AgentByWorkload

\* What the plan asks, one question for each part of the policy.
LEMMA PlanHolds ==
  ASSUME NEW cfg, NEW r, NEW world,
         \A q \in Plan(cfg, r) : Holds(q, world)
  PROVE  LET rule == RuleAt(cfg, r.endpoint)
             id   == FromClaims(cfg, Credential(r, rule))
         IN /\ Permitted(world, Object(rule.type, ResourceId(rule, r, id)),
                         rule.permission, Subject(id))
            /\ ConsentApplies(cfg, rule, id) =>
                 Permitted(world, ConsentGrant(id.subject, id.application),
                           "includes", Capability(rule.capability))
            /\ id.kind = "agent" =>
                 Permitted(world, Agent(id.agent), "act_for",
                           User(id.subject))
            /\ id.kind = "agent" /\ rule.capability # None =>
                 Permitted(world, Delegation(id.subject, id.agent),
                           "includes", Capability(rule.capability))
<1> DEFINE rule == RuleAt(cfg, r.endpoint)
           id   == FromClaims(cfg, Credential(r, rule))
           q1 == Question(1, "permission_denied",
                          Object(rule.type, ResourceId(rule, r, id)),
                          rule.permission, Subject(id))
           q2 == Question(2, "consent_required",
                          ConsentGrant(id.subject, id.application),
                          "includes", Capability(rule.capability))
           q3 == Question(3, "agent_not_enrolled", Agent(id.agent),
                          "act_for", User(id.subject))
           q4 == Question(4, "delegation_required",
                          Delegation(id.subject, id.agent),
                          "includes", Capability(rule.capability))
<1>1. /\ q1 \in Plan(cfg, r)
      /\ ConsentApplies(cfg, rule, id) => q2 \in Plan(cfg, r)
      /\ id.kind = "agent" => q3 \in Plan(cfg, r)
      /\ id.kind = "agent" /\ rule.capability # None => q4 \in Plan(cfg, r)
  BY Zenon DEF Plan, When
<1>2. ASSUME NEW order, NEW reason, NEW res, NEW permission, NEW sub,
             Holds(Question(order, reason, res, permission, sub), world)
      PROVE  Permitted(world, res, permission, sub)
  BY <1>2 DEF Holds, Question
<1> QED
  BY <1>1, <1>2

\* A request that passes the gates, and whose questions are all answered yes,
\* is one the policy authorizes.
THEOREM OnlyTheAuthorized ==
  ASSUME NEW cfg \in Configs, NEW r, r.endpoint \in Endpoints,
         NEW world,
         \/ Verdict(cfg, r) = "permitted"
         \/ /\ Verdict(cfg, r) = "ask"
            /\ \A q \in Plan(cfg, r) : Holds(q, world)
  PROVE  Authorized(cfg, r, world)
<1> DEFINE rule == RuleAt(cfg, r.endpoint)
           t    == Credential(r, rule)
           id   == FromClaims(cfg, t)
<1>1. CASE rule # None /\ rule.public
  BY <1>1 DEF Authorized
<1>2. CASE rule = None
  BY <1>2 DEF Verdict, Gated, Unidentified
<1>3. CASE rule # None /\ ~rule.public
  <2>1. /\ t # None
        /\ t.valid
        /\ Known(cfg, t)
        /\ ActorBound(cfg, r.source, id)
        /\ CallerRegistered(rule, r.source)
        /\ \/ rule.authenticatedOnly
           \/ /\ Verdict(cfg, r) = "ask"
              /\ StepUpMet(rule, id)
              /\ ResourceId(rule, r, id) # None
    BY <1>3, PastTheGates
  <2>2. rule.authMode \in AuthModes
    <3>2. Document[cfg].rules \in [Endpoints -> Rule \cup {None}]
      BY ConfigAssumption DEF Config
    <3>3. rule \in Rule
      BY <1>3, <3>2 DEF RuleAt
    <3> HIDE DEF rule
    <3> QED
      BY <3>3 DEF Rule
  <2>3. t \in {r.bearer, r.session} /\ SpeaksFor(rule, r, t)
    <3> DEFINE mode == rule.authMode
    <3>1. mode \in {"session", "bearer", "either"}
      BY <2>2 DEF AuthModes
    <3>2. AuthMode(rule) = mode
      BY <1>3 DEF AuthMode
    <3>3. CASE r.bearer # None /\ mode # "session"
      BY <2>1, <3>2, <3>3 DEF Credential, UsesBearer, SpeaksFor
    <3>4. CASE r.bearer = None \/ mode = "session"
      <4>1. t = r.session /\ mode # "bearer"
        BY <2>1, <3>2, <3>4 DEF Credential, UsesBearer
      <4> QED
        BY <2>1, <3>1, <3>4, <4>1 DEF SpeaksFor
    <3> QED
      BY <3>3, <3>4
  <2>4. \/ rule.authenticatedOnly
        \/ /\ StepUpMet(rule, id)
           /\ ResourceId(rule, r, id) # None
           /\ Permitted(world, Object(rule.type, ResourceId(rule, r, id)),
                        rule.permission, Subject(id))
           /\ ConsentApplies(cfg, rule, id) =>
                Permitted(world, ConsentGrant(id.subject, id.application),
                          "includes", Capability(rule.capability))
           /\ id.kind = "agent" =>
                Permitted(world, Agent(id.agent), "act_for",
                          User(id.subject))
           /\ id.kind = "agent" /\ rule.capability # None =>
                Permitted(world, Delegation(id.subject, id.agent),
                          "includes", Capability(rule.capability))
    BY <2>1, PlanHolds
  <2>5. /\ id.application = t.azp
        /\ id.kind \in {"user", "agent", "system"}
        /\ id.kind = "agent" <=> AgentsByClient(cfg, t.azp) # {}
        /\ id.kind = "agent" => id.agent = AgentByClient(cfg, t.azp).object
        /\ id.kind = "system" => /\ DeviceOf(cfg, t.azp) # None
                                 /\ id.subject = DeviceOf(cfg, t.azp)
        /\ id.kind = "user" => /\ DeviceOf(cfg, t.azp) = None
                               /\ id.acr = t.acr
        /\ id.kind \in {"user", "agent"} => id.subject = t.sub
    BY DEF FromClaims
  <2> HIDE DEF rule, t, id
  <2>6. ASSUME id.kind = "user"
        PROVE  PersonMay(cfg, rule, r, t, world)
    BY <2>1, <2>4, <2>5, <2>6
       DEF PersonMay, Known, ActorBound, StepUpMet, ResourceId,
           Subject, ConsentApplies, Consented
  <2>7. ASSUME id.kind = "agent"
        PROVE  AgentMay(cfg, rule, r, t, world)
    BY <2>1, <2>4, <2>5, <2>7
       DEF AgentMay, ActorBound, StepUpMet, ResourceId, Subject, EnrolledFor,
           Delegated
  <2>8. ASSUME id.kind = "system"
        PROVE  DeviceMay(cfg, rule, r, t, world)
    BY <2>1, <2>4, <2>5, <2>8
       DEF DeviceMay, ActorBound, StepUpMet, ResourceId, Subject
  <2> QED
    BY <1>3, <2>1, <2>3, <2>5, <2>6, <2>7, <2>8
       DEF Authorized, rule, CallerRegistered
<1> QED
  BY <1>1, <1>2, <1>3

-----------------------------------------------------------------------------
(* What a grant that is missing would change.                              *)

\* Another relationship takes no permission away.
LEMMA PermittedGrows ==
  ASSUME NEW world, NEW e, NEW res, NEW permission, NEW sub,
         Permitted(world, res, permission, sub)
  PROVE  Permitted(world \cup {e}, res, permission, sub)
<1>1. ASSUME NEW o, NEW p, NEW s, DirectlyPermitted(world, o, p, s)
      PROVE  DirectlyPermitted(world \cup {e}, o, p, s)
  BY <1>1 DEF DirectlyPermitted, Related
<1> QED
  BY <1>1 DEF Permitted

\* A grant with the one relationship that is missing includes the capability.
LEMMA RemedyHolds ==
  ASSUME NEW world, NEW grant, NEW capability,
         grant.type \in {"consent_grant", "delegation"}
  PROVE  Permitted(world \cup {Lasting(grant, "granted", capability)},
                   grant, "includes", capability)
<1>1. PICK e : e = Lasting(grant, "granted", capability)
  OBVIOUS
<1>2. e.res = grant /\ e.rel = "granted" /\ e.sub = capability
  BY <1>1 DEF Lasting, Expiring
<1>3. Related(world \cup {e}, grant, "granted", capability)
  BY <1>2 DEF Related
<1>4. /\ "granted" \in RelationNames
      /\ <<grant.type, "includes", "granted">> \in DirectPermissions
  BY DEF RelationNames, DirectPermissions
<1> QED
  BY <1>1, <1>3, <1>4 DEF Permitted, DirectlyPermitted

\* What is asked about a call, and under which reasons.
LEMMA PlanIs ==
  ASSUME NEW cfg, NEW r, NEW rule, NEW id,
         rule = RuleAt(cfg, r.endpoint),
         id = FromClaims(cfg, Credential(r, rule)),
         NEW q \in Plan(cfg, r)
  PROVE  \/ q.order = 1 /\ q.reason = "permission_denied"
         \/ /\ q.order = 2 /\ q.reason = "consent_required"
            /\ id.kind = "user"
            /\ q.res = ConsentGrant(id.subject, id.application)
            /\ q.permission = "includes"
            /\ q.sub = Capability(rule.capability)
         \/ /\ q.order = 3 /\ q.reason = "agent_not_enrolled"
            /\ id.kind = "agent"
         \/ /\ q.order = 4 /\ q.reason = "delegation_required"
            /\ id.kind = "agent"
            /\ q.res = Delegation(id.subject, id.agent)
            /\ q.permission = "includes"
            /\ q.sub = Capability(rule.capability)
BY DEF Plan, When, Question, ConsentApplies

\* With the grant that the first question answered no asks for, and that is
\* asked for by nothing else, every question is answered yes.
LEMMA RemedySuffices ==
  ASSUME NEW cfg \in Configs, NEW r, r.endpoint \in Endpoints,
         Verdict(cfg, r) = "ask",
         NEW world, NEW q \in Plan(cfg, r), Blocks(q, Plan(cfg, r), world),
         q.reason \in {"consent_required", "delegation_required"}
  PROVE  Authorized(cfg, r,
           world \cup {Lasting(q.res, "granted", q.sub)})
<1>1. PICK rule, id : /\ rule = RuleAt(cfg, r.endpoint)
                      /\ id = FromClaims(cfg, Credential(r, rule))
  OBVIOUS
<1>2. PICK after : after = world \cup {Lasting(q.res, "granted", q.sub)}
  OBVIOUS
<1>3. /\ q.permission = "includes"
      /\ q.res \in {ConsentGrant(id.subject, id.application),
                    Delegation(id.subject, id.agent)}
      /\ \/ q.order = 2 /\ id.kind = "user"
         \/ q.order = 4 /\ id.kind = "agent"
  BY <1>1, PlanIs
<1>4. q.res.type \in {"consent_grant", "delegation"}
  BY <1>3 DEF ConsentGrant, Delegation, Object
<1>5. Permitted(after, q.res, q.permission, q.sub)
  BY <1>2, <1>3, <1>4, RemedyHolds
<1>6. ASSUME NEW p \in Plan(cfg, r)
      PROVE  Holds(p, after)
  <2>1. CASE p.order < q.order
    <3>1. Permitted(world, p.res, p.permission, p.sub)
      BY <2>1 DEF Blocks, Holds
    <3> QED
      BY <1>2, <3>1, PermittedGrows DEF Holds
  <2>2. CASE ~(p.order < q.order)
    <3>1. p.res = q.res /\ p.permission = q.permission /\ p.sub = q.sub
      BY <1>1, <1>3, <2>2, PlanIs
    <3> QED
      BY <1>5, <3>1 DEF Holds
  <2> QED
    BY <2>1, <2>2
<1> QED
  BY <1>2, <1>6, OnlyTheAuthorized
=============================================================================
