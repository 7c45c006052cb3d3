--------------------------------- MODULE MCMesh ---------------------------------
(* The rules of config/ext-authz.yaml that a click at smarthome-service meets, *)
(* and the relationships that come and go while it is on its way.            *)
EXTENDS Mesh, TLC

CONSTANTS alice, bob, smarthome, profileApp, assistantAgent, sensorClient,
          assistant, lock, sensor, aliceHome, view, control, unlock, read,
          gateway, service, agentRunner,
          edgeUnlock, edgeProfile, edgeAssistant,
          deviceUnlock, deviceState, apiProfile, agentTask, ingest,
          deployed, offboarded, c1, c2

MCOperator  == assistant :> alice @@ sensor :> alice @@ lock :> alice
MCHomeOwner == aliceHome :> alice
MCHomeOf    == sensor :> aliceHome @@ lock :> aliceHome

-----------------------------------------------------------------------------
HomeRule(capability, stepUp) ==
  [public |-> FALSE, authenticatedOnly |-> FALSE, authMode |-> "either",
   callers |-> {}, type |-> "home", idFrom |-> "path", literal |-> None,
   permission |-> "view", capability |-> capability,
   consentRequired |-> TRUE, stepUp |-> stepUp,
   minACR |-> IF stepUp THEN 1 ELSE 0]

TaskRule(mode, callers) ==
  [HomeRule(view, FALSE) EXCEPT !.idFrom = "literal", !.literal = aliceHome,
                                !.authMode = mode, !.callers = callers]

DeviceRule(permission, capability, stepUp) ==
  [HomeRule(capability, stepUp) EXCEPT
     !.type = "device", !.permission = permission, !.authMode = "bearer",
     !.callers = {service, agentRunner}]

ProfileRule(idFrom, mode, callers) ==
  [HomeRule(read, FALSE) EXCEPT !.type = "user_profile", !.idFrom = idFrom,
                                !.authMode = mode, !.callers = callers]

IngestRule ==
  [DeviceRule("push_telemetry", None, FALSE) EXCEPT
     !.callers = {}, !.consentRequired = FALSE]

Deployed ==
  [rules |->
     edgeUnlock :> HomeRule(unlock, TRUE)
       @@ edgeProfile :> ProfileRule("principal", "either", {})
       @@ edgeAssistant :> TaskRule("either", {})
       @@ deviceUnlock :> DeviceRule("operate_lock", unlock, TRUE)
       @@ apiProfile :> ProfileRule("path", "bearer", {service, agentRunner})
       @@ deviceState :> DeviceRule("operate", control, FALSE)
       @@ agentTask :> TaskRule("bearer", {service})
       @@ ingest :> IngestRule,
   browser |-> {edgeUnlock, edgeProfile, edgeAssistant},
   applications |-> {[name |-> smarthome, firstParty |-> FALSE],
                     [name |-> profileApp, firstParty |-> TRUE]},
   agents |-> {[client |-> assistantAgent, object |-> assistant,
                workload |-> agentRunner]},
   systemPrincipals |->
     [c \in Clients |-> IF c = sensorClient THEN sensor ELSE None]]

MCDocument ==
  [cfg \in Configs |->
     IF cfg = deployed THEN Deployed
     ELSE [Deployed EXCEPT !.agents = {},
                           !.systemPrincipals = [c \in Clients |-> None]]]

-----------------------------------------------------------------------------
MCEdge ==
  [unlock |-> edgeUnlock, profile |-> edgeProfile,
   assistant |-> edgeAssistant]

MCInner ==
  [unlock |-> deviceUnlock, state |-> deviceState,
   profile |-> apiProfile, assistant |-> agentTask, push |-> ingest]

Ask(kind, target) == [kind |-> kind, target |-> target, home |-> aliceHome]

MCAsks ==
  c1 :> {Ask("assistant", None), Ask("push", sensor)}
    @@ c2 :> {Ask("unlock", lock), Ask("push", sensor), Ask("push", lock)}

MCTask == <<Ask("profile", None), Ask("unlock", lock)>>

By(sub, azp, acr) == [valid |-> TRUE, sub |-> sub, azp |-> azp, acr |-> acr]

MCSessions ==
  {By(alice, smarthome, 1), By(bob, smarthome, 0), By(bob, sensorClient, 0)}

MCInitialState == lock :> "locked" @@ sensor :> "reporting"

-----------------------------------------------------------------------------
Owner(u) == Lasting(Home(aliceHome), "owner", User(u))
Guest(u) == Lasting(Home(aliceHome), "guest", User(u))
InHome   == {Lasting(Device(d), "home", Home(aliceHome)) : d \in {lock, sensor}}
Itself   == Lasting(Device(sensor), "self", SystemPrincipal(sensor))

ConsentOf(u) ==
  {Lasting(ConsentGrant(u, smarthome), "granted", Capability(c)) :
     c \in Capabilities}

Enrolled  == {Lasting(Agent(assistant), "enrolled_for", User(u)) : u \in Users}
Delegates ==
  {Lasting(Delegation(u, assistant), "granted", Capability(c)) :
     u \in Users, c \in {view, read}}
OwnProfiles ==
  {Lasting(Profile(u), "owner", User(u)) : u \in Users}

Everything ==
  InHome \cup ConsentOf(alice) \cup ConsentOf(bob) \cup Delegates
         \cup Enrolled \cup OwnProfiles
         \cup {Owner(alice), Guest(bob), Itself}

\* Everything; the owner made a guest (Scenario 3b) who withdraws the agent's
\* delegation; sensor and agent decommissioned, which leaves the delegation.
MCWorlds ==
  {Everything,
   (Everything \ ({Owner(alice)} \cup Delegates)) \cup {Guest(alice)},
   Everything \ ({Itself} \cup Enrolled)}
=============================================================================
