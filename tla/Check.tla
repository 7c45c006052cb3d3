--------------------------------- MODULE Check ---------------------------------
(***************************************************************************)
(* What internal/decision makes of one request under one configuration:    *)
(* who is asking, what the gates say, and which questions are left for     *)
(* SpiceDB.  When all this is worked out, and about which graph the        *)
(* questions are answered, is the business of the modules that use this    *)
(* one.                                                                    *)
(***************************************************************************)
EXTENDS Registry

CONSTANT SpecialPaths   \* the endpoints /_id/callback and /_id/logout

ASSUME SpecialPathsAssumption == SpecialPaths \subseteq Endpoints

-----------------------------------------------------------------------------
(* identify: the principal, the application and, perhaps, the agent.       *)

AuthMode(rule) == IF rule = None THEN "either" ELSE rule.authMode

UsesBearer(r, rule) == r.bearer # None /\ AuthMode(rule) # "session"

\* A bearer token where the route takes one; otherwise the session's.
Credential(r, rule) ==
  IF UsesBearer(r, rule) THEN r.bearer
  ELSE IF AuthMode(rule) = "bearer" THEN None
  ELSE r.session

\* A credential that does not verify is a 401 if it is a bearer token; a
\* session that has none left sends a browser to log in and others away.
Unidentified(cfg, r, rule) ==
  IF UsesBearer(r, rule) THEN "token_invalid"
  ELSE IF AuthMode(rule) = "bearer" THEN "no_session"
  ELSE IF r.html /\ r.endpoint \in Document[cfg].browser THEN "redirect_to_login"
  ELSE "no_session"

Identity ==
  [kind : {"user", "agent", "system"}, subject : Users \cup Devices,
   application : Clients, agent : Agents \cup {None}, acr : Int]

Known(cfg, t) ==
  \/ AgentsByClient(cfg, t.azp) # {}
  \/ DeviceOf(cfg, t.azp) # None
  \/ AppByName(cfg, t.azp) # {}

\* The agent registry is asked first, then the devices, then applications.
FromClaims(cfg, t) ==
  IF AgentsByClient(cfg, t.azp) # {}
  THEN [kind |-> "agent", subject |-> t.sub, application |-> t.azp,
        agent |-> AgentByClient(cfg, t.azp).object, acr |-> t.acr]
  ELSE IF DeviceOf(cfg, t.azp) # None
  THEN [kind |-> "system", subject |-> DeviceOf(cfg, t.azp),
        application |-> t.azp, agent |-> None, acr |-> 0]
  ELSE [kind |-> "user", subject |-> t.sub, application |-> t.azp,
        agent |-> None, acr |-> t.acr]

Subject(id) ==
  IF id.kind = "system" THEN SystemPrincipal(id.subject) ELSE User(id.subject)

-----------------------------------------------------------------------------
(* The gates that need no relationship.                                    *)

\* Mutant: only the workload constrains the token, not the other way round.
WorkloadConstrainsToken(cfg, source, id) ==
  AgentsByWorkload(cfg, source) # {} =>
    id.kind = "agent" /\ id.agent = AgentByWorkload(cfg, source).object

\* checkActorBinding: a workload that runs an agent presents only that
\* agent's token, and the token of a bound agent comes from such a workload.
ActorBound(cfg, source, id) ==
  /\ AgentsByWorkload(cfg, source) # {} =>
       id.kind = "agent" /\ id.agent = AgentByWorkload(cfg, source).object
  /\ id.kind = "agent" /\ AgentsByWorkload(cfg, source) = {} =>
       AgentByClient(cfg, id.application).workload = None

\* checkWorkload: is the caller registered for the route?
CallerRegistered(rule, source) == rule.callers = {} \/ source \in rule.callers

\* Mutant: an agent may pass with the `acr` it inherits from the person.
StepUpByACR(rule, id) ==
  rule.stepUp => id.kind # "system" /\ id.acr >= rule.minACR

\* stepUp: for a person, and one who has just authenticated.
StepUpMet(rule, id) ==
  rule.stepUp => id.kind = "user" /\ id.acr >= rule.minACR

\* The id the resource of a call has.
ResourceId(rule, r, id) == TargetId(rule, r, id.subject)

\* The answer of the gates, or "ask" when SpiceDB must be asked.
Gated(cfg, r, rule, id) ==
  IF ~ActorBound(cfg, r.source, id) THEN "actor_not_bound"
  ELSE IF rule = None THEN "no_route_match"
  ELSE IF ~CallerRegistered(rule, r.source) THEN "workload_not_registered"
  ELSE IF rule.authenticatedOnly THEN "permitted"
  ELSE IF ~StepUpMet(rule, id) THEN "step_up_required"
  ELSE IF ResourceId(rule, r, id) = None THEN "internal_error"
  ELSE "ask"

\* Everything Check decides before it asks anything, in its order.
Verdict(cfg, r) ==
  LET rule == RuleAt(cfg, r.endpoint)
      t    == Credential(r, rule)
  IN IF r.endpoint \in SpecialPaths THEN "session_step"
     ELSE IF rule # None /\ rule.public THEN "permitted"
     ELSE IF t = None \/ ~t.valid THEN Unidentified(cfg, r, rule)
     ELSE IF ~Known(cfg, t) THEN "unknown_application"
     ELSE Gated(cfg, r, rule, FromClaims(cfg, t))

-----------------------------------------------------------------------------
(* The questions for SpiceDB, put together and read in order.              *)

Question(order, reason, res, permission, sub) ==
  [order |-> order, reason |-> reason, res |-> res,
   permission |-> permission, sub |-> sub]

Holds(q, world) == Permitted(world, q.res, q.permission, q.sub)

\* consentApplies: a third-party application acting for a person.
ConsentApplies(cfg, rule, id) ==
  /\ rule.consentRequired
  /\ id.kind = "user"
  /\ ~FirstParty(cfg, id.application)

When(condition, question) == IF condition THEN {question} ELSE {}

\* Mutant: a delegation is taken to prove that the agent is enrolled.
PlanWithoutEnrolment(cfg, r) ==
  LET rule == RuleAt(cfg, r.endpoint)
      id   == FromClaims(cfg, Credential(r, rule))
  IN {Question(1, "permission_denied",
               Object(rule.type, ResourceId(rule, r, id)),
               rule.permission, Subject(id))}
     \cup When(ConsentApplies(cfg, rule, id),
               Question(2, "consent_required",
                        ConsentGrant(id.subject, id.application),
                        "includes", Capability(rule.capability)))
     \cup When(id.kind = "agent" /\ rule.capability # None,
               Question(4, "delegation_required",
                        Delegation(id.subject, id.agent),
                        "includes", Capability(rule.capability)))

Plan(cfg, r) ==
  LET rule == RuleAt(cfg, r.endpoint)
      id   == FromClaims(cfg, Credential(r, rule))
      agent == id.kind = "agent"
  IN {Question(1, "permission_denied",
               Object(rule.type, ResourceId(rule, r, id)),
               rule.permission, Subject(id))}
     \cup When(ConsentApplies(cfg, rule, id),
               Question(2, "consent_required",
                        ConsentGrant(id.subject, id.application),
                        "includes", Capability(rule.capability)))
     \cup When(agent,
               Question(3, "agent_not_enrolled", Agent(id.agent),
                        "act_for", User(id.subject)))
     \cup When(agent /\ rule.capability # None,
               Question(4, "delegation_required",
                        Delegation(id.subject, id.agent),
                        "includes", Capability(rule.capability)))

\* Mutant: the answers are read from the last question to the first.
BlocksFromTheEnd(q, plan, world) ==
  /\ ~Holds(q, world)
  /\ \A p \in plan : p.order > q.order => Holds(p, world)

\* The first question answered no is the reason for the refusal.
Blocks(q, plan, world) ==
  /\ ~Holds(q, world)
  /\ \A p \in plan : p.order < q.order => Holds(p, world)
=============================================================================
