------------------------------ MODULE MCDecision ------------------------------
(* Model values, configurations and requests for the decision point.       *)
EXTENDS Decision, TLC

CONSTANTS alice, bob, profileApp, smarthome, assistantAgent, sensorClient,
          stranger, assistant, sensor, aliceHome, read, unlock,
          runner, backend, landing, console, profile, door, telemetry,
          unmapped, callback,
          deployed, reworked, offboarded, stepUpPage, c1

MCOperator  == assistant :> alice @@ sensor :> alice
MCHomeOwner == aliceHome :> alice
MCHomeOf    == sensor :> aliceHome

-----------------------------------------------------------------------------
PublicRule ==
  [public |-> TRUE, authenticatedOnly |-> FALSE, authMode |-> "either",
   callers |-> {}, type |-> None, idFrom |-> "path", literal |-> None,
   permission |-> None, capability |-> None, consentRequired |-> FALSE,
   stepUp |-> FALSE, minACR |-> 0]

ConsoleRule == [PublicRule EXCEPT !.public = FALSE, !.authenticatedOnly = TRUE]

ProfileRule ==
  [PublicRule EXCEPT !.public = FALSE, !.type = "user_profile",
     !.permission = "view", !.capability = read, !.consentRequired = TRUE]

DoorRule ==
  [PublicRule EXCEPT !.public = FALSE, !.authMode = "bearer",
     !.callers = {runner, backend}, !.type = "device", !.idFrom = "literal",
     !.literal = sensor, !.permission = "operate_lock",
     !.capability = unlock, !.stepUp = TRUE, !.minACR = 1]

TelemetryRule ==
  [PublicRule EXCEPT !.public = FALSE, !.authMode = "bearer",
     !.type = "device", !.permission = "push_telemetry"]

DeployedRules ==
  landing :> PublicRule @@ console :> ConsoleRule @@ profile :> ProfileRule
    @@ door :> DoorRule @@ telemetry :> TelemetryRule
    @@ unmapped :> None @@ callback :> None

Deployed ==
  [rules |-> DeployedRules,
   browser |-> {console, profile},
   applications |-> {[name |-> profileApp, firstParty |-> TRUE],
                     [name |-> smarthome, firstParty |-> FALSE]},
   agents |-> {[client |-> assistantAgent, object |-> assistant,
                workload |-> runner]},
   systemPrincipals |->
     [c \in Clients |-> IF c = sensorClient THEN sensor ELSE None]]

\* The agent is no longer bound, the profile has become sensitive and the
\* console is for sessions only.
Reworked ==
  [Deployed EXCEPT
     !.agents = {[client |-> assistantAgent, object |-> assistant,
                  workload |-> None]},
     !.rules[profile].stepUp = TRUE,
     !.rules[profile].minACR = 1,
     !.rules[console].authMode = "session"]

\* Agent and device have been offboarded, and no consent is asked.
Offboarded ==
  [Deployed EXCEPT
     !.agents = {},
     !.systemPrincipals = [c \in Clients |-> None],
     !.rules[profile].consentRequired = FALSE]

\* The console page marked stepUp: validate lets it through.
StepUpPage ==
  [Deployed EXCEPT !.rules[console].stepUp = TRUE,
                   !.rules[console].minACR = 1]

MCDocument ==
  [cfg \in Configs |->
     CASE cfg = deployed   -> Deployed
       [] cfg = reworked   -> Reworked
       [] cfg = offboarded -> Offboarded
       [] cfg = stepUpPage -> StepUpPage]

-----------------------------------------------------------------------------
By(sub, azp, acr) == [valid |-> TRUE, sub |-> sub, azp |-> azp, acr |-> acr]

Expired == [By(alice, smarthome, 1) EXCEPT !.valid = FALSE]

Tokens ==
  {By(alice, profileApp, 0), By(alice, smarthome, 1),
   By(alice, assistantAgent, 1), By(bob, assistantAgent, 0),
   By(bob, sensorClient, 0)}

To(endpoint, param, source, bearer) ==
  [endpoint |-> endpoint, param |-> param, source |-> source,
   bearer |-> bearer, session |-> None, html |-> FALSE]

Browse(endpoint, token, html) ==
  [To(endpoint, alice, None, None) EXCEPT !.session = token, !.html = html]

MCRequests ==
  {To(profile, alice, w, t) : w \in {runner, backend}, t \in Tokens}
  \cup {To(door, None, w, t) : w \in {runner, None}, t \in Tokens}
  \cup {To(door, None, backend, By(alice, smarthome, 1)),
        To(telemetry, sensor, None, By(bob, sensorClient, 0)),
        To(telemetry, None, None, By(bob, sensorClient, 0)),
        To(telemetry, sensor, None, None),
        To(console, None, runner, By(alice, assistantAgent, 1)),
        To(profile, alice, None, Expired),
        To(profile, alice, None, By(alice, stranger, 1)),
        To(landing, None, None, None),
        To(unmapped, None, None, By(alice, smarthome, 1)),
        To(callback, None, None, None),
        Browse(profile, By(alice, smarthome, 0), FALSE),
        Browse(profile, Expired, TRUE),
        Browse(unmapped, None, FALSE)}

ProfileOwned == Lasting(Profile(alice), "owner", User(alice))
Operated     == Lasting(Device(sensor), "operator", User(alice))
SelfPush     == Lasting(Device(sensor), "self", SystemPrincipal(sensor))
Consent      ==
  Lasting(ConsentGrant(alice, smarthome), "granted", Capability(read))
Enrolment    == Lasting(Agent(assistant), "enrolled_for", User(alice))
ReadDelegated ==
  Lasting(Delegation(alice, assistant), "granted", Capability(read))

Everything ==
  {ProfileOwned, Operated, SelfPush, Consent, Enrolment, ReadDelegated}

\* Any one relationship missing, the pairs of which two questions of one plan
\* are answered no, nothing, and everything.
MCWorlds ==
  {Everything \ {e} : e \in Everything}
  \cup {Everything \ missing : missing \in
          {{ProfileOwned, Consent}, {ProfileOwned, ReadDelegated},
           {Enrolment, ReadDelegated}, Everything, {}}}
=============================================================================
