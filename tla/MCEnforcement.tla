----------------------------- MODULE MCEnforcement -----------------------------
(* Model values and bounds for the console and the decision point together: *)
(* one resource, reached by an application and by an agent.                 *)
EXTENDS Enforcement, TLC

CONSTANTS alice, smarthome, assistantAgent, assistant, sensor, aliceHome,
          read, runner, backend, profile, deployed, offboarded, h1, h2, c1

MCOperator  == assistant :> alice @@ sensor :> alice
MCHomeOwner == aliceHome :> alice
MCHomeOf    == sensor :> aliceHome
MCAsks      == assistant :> {read}

ProfileRule ==
  [public |-> FALSE, authenticatedOnly |-> FALSE, authMode |-> "either",
   callers |-> {}, type |-> "user_profile", idFrom |-> "path",
   literal |-> None, permission |-> "view", capability |-> read,
   consentRequired |-> TRUE, stepUp |-> FALSE, minACR |-> 0]

Deployed ==
  [rules |-> profile :> ProfileRule,
   browser |-> {},
   applications |-> {[name |-> smarthome, firstParty |-> FALSE]},
   agents |-> {[client |-> assistantAgent, object |-> assistant,
                workload |-> runner]},
   systemPrincipals |-> [c \in Clients |-> None]]

MCDocument ==
  [cfg \in Configs |->
     IF cfg = deployed THEN Deployed ELSE [Deployed EXCEPT !.agents = {}]]

As(azp, source) ==
  [endpoint |-> profile, param |-> alice, source |-> source,
   bearer |-> [valid |-> TRUE, sub |-> alice, azp |-> azp, acr |-> 1],
   session |-> None, html |-> FALSE]

MCRequests == {As(smarthome, backend), As(assistantAgent, runner)}
=============================================================================
