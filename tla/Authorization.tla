----------------------------- MODULE Authorization -----------------------------
(***************************************************************************)
(* Who may do what: which requests a configuration and the relationships   *)
(* of a moment authorize.  It says so without the order and the shortcuts  *)
(* of the pipeline, which it is the measure of.                            *)
(***************************************************************************)
EXTENDS Registry

\* A person, through an application she may have to have consented to.
PersonMay(cfg, rule, r, t, world) ==
  /\ AgentsByClient(cfg, t.azp) = {}
  /\ DeviceOf(cfg, t.azp) = None
  /\ AppByName(cfg, t.azp) # {}
  /\ AgentsByWorkload(cfg, r.source) = {}
  /\ \/ rule.authenticatedOnly
     \/ /\ rule.stepUp => t.acr >= rule.minACR
        /\ LET id == TargetId(rule, r, t.sub) IN
             /\ id # None
             /\ Permitted(world, Object(rule.type, id), rule.permission,
                          User(t.sub))
        /\ rule.consentRequired /\ ~FirstParty(cfg, t.azp) =>
             Consented(world, t.sub, t.azp, rule.capability)

\* An agent, from the workload that runs it, on the authority of the person
\* who is enrolled and, capability by capability, has delegated to it.
AgentMay(cfg, rule, r, t, world) ==
  /\ AgentsByClient(cfg, t.azp) # {}
  /\ LET agent == AgentByClient(cfg, t.azp) IN
       /\ IF AgentsByWorkload(cfg, r.source) = {}
          THEN agent.workload = None
          ELSE agent.object = AgentByWorkload(cfg, r.source).object
       /\ \/ rule.authenticatedOnly
          \/ /\ ~rule.stepUp
             /\ LET id == TargetId(rule, r, t.sub) IN
                  /\ id # None
                  /\ Permitted(world, Object(rule.type, id), rule.permission,
                               User(t.sub))
             /\ EnrolledFor(world, agent.object, t.sub)
             /\ rule.capability # None =>
                  Delegated(world, t.sub, agent.object, rule.capability)

\* A device, on its own relationships and nobody's behalf.
DeviceMay(cfg, rule, r, t, world) ==
  /\ AgentsByClient(cfg, t.azp) = {}
  /\ DeviceOf(cfg, t.azp) # None
  /\ AgentsByWorkload(cfg, r.source) = {}
  /\ \/ rule.authenticatedOnly
     \/ /\ ~rule.stepUp
        /\ LET device == DeviceOf(cfg, t.azp)
               id == TargetId(rule, r, device) IN
             /\ id # None
             /\ Permitted(world, Object(rule.type, id), rule.permission,
                          SystemPrincipal(device))

\* The token that speaks for a request on a route of this authMode.
SpeaksFor(rule, r, t) ==
  /\ t # None
  /\ t.valid
  /\ \/ rule.authMode # "session" /\ t = r.bearer
     \/ rule.authMode = "session" /\ t = r.session
     \/ rule.authMode = "either" /\ r.bearer = None /\ t = r.session

Authorized(cfg, r, world) ==
  LET rule == RuleAt(cfg, r.endpoint) IN
  /\ rule # None
  /\ \/ rule.public
     \/ /\ rule.callers = {} \/ r.source \in rule.callers
        /\ \E t \in {r.bearer, r.session} :
             /\ SpeaksFor(rule, r, t)
             /\ \/ PersonMay(cfg, rule, r, t, world)
                \/ AgentMay(cfg, rule, r, t, world)
                \/ DeviceMay(cfg, rule, r, t, world)
=============================================================================
