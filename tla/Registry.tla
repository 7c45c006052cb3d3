------------------------------- MODULE Registry -------------------------------
(***************************************************************************)
(* A configuration that internal/config has loaded and validated, and what *)
(* ext-authz looks up in it: the rule for an endpoint, the applications,   *)
(* the agents with the workloads they are bound to, and the clients that   *)
(* are devices; and the requests that are held against it.  A              *)
(* configuration is a value; who holds which one, and when it changes, is  *)
(* the business of the modules that use this one.                          *)
(*                                                                         *)
(* A rule is what route matching finds for an endpoint, so that paths,     *)
(* methods and patterns do not appear here.  Every rule of the deployed    *)
(* configuration that owns a resource is fully consistent, so a rule has   *)
(* no consistency mode here.                                               *)
(***************************************************************************)
EXTENDS Relationships

CONSTANTS
  Clients,     \* OAuth client ids, the `azp` of a token
  Workloads,   \* SPIFFE identities
  Endpoints,   \* host, method and path
  Configs,     \* the configurations that are ever installed, by name
  Document,    \* [Configs -> Config], what each says
  Calls,       \* the Check calls that can be in progress at once
  Requests,    \* the requests that arrive
  Worlds,      \* the graphs of live relationships there can be
  None

AuthModes == {"session", "bearer", "either"}

Rule ==
  [public : BOOLEAN, authenticatedOnly : BOOLEAN, authMode : AuthModes,
   callers : SUBSET Workloads,
   type : ObjectTypes \cup {None},
   idFrom : {"path", "principal", "literal"},
   literal : ObjectIds \cup {None},
   permission : STRING \cup {None},
   capability : Capabilities \cup {None},
   consentRequired : BOOLEAN, stepUp : BOOLEAN, minACR : Int]

\* An agent with no workload is unbound.
AgentEntry ==
  [client : Clients, object : Agents, workload : Workloads \cup {None}]

ApplicationEntry == [name : Clients \cap Applications, firstParty : BOOLEAN]

Config ==
  [rules : [Endpoints -> Rule \cup {None}],
   browser : SUBSET Endpoints,     \* on a host that an application claims
   applications : SUBSET ApplicationEntry,
   agents : SUBSET AgentEntry,
   systemPrincipals : [Clients -> Devices \cup {None}]]

\* What validate refuses to load is not among the configurations.
ValidRule(rule) ==
  /\ ~(rule.public /\ rule.authenticatedOnly)
  /\ rule.public \/ rule.authenticatedOnly =>
       /\ rule.type = None
       /\ rule.permission = None
       /\ ~rule.consentRequired
  /\ ~rule.public /\ ~rule.authenticatedOnly =>
       /\ rule.type # None
       /\ rule.permission # None
       /\ rule.idFrom = "literal" => rule.literal # None
       /\ rule.consentRequired => rule.capability # None
       /\ rule.stepUp => rule.capability # None /\ rule.minACR # 0

ASSUME NoneAssumption ==
  None \notin Clients \cup Workloads \cup Agents \cup Devices
              \cup Capabilities \cup ObjectIds \cup ObjectTypes \cup Rule
ASSUME ConfigAssumption ==
  /\ Document \in [Configs -> Config]
  /\ \A cfg \in Configs, e \in Endpoints :
       Document[cfg].rules[e] # None => ValidRule(Document[cfg].rules[e])

-----------------------------------------------------------------------------
(* Lookups.  Nothing stops a document from registering one client or one   *)
(* workload twice; the code then takes the first in document order, which  *)
(* a set does not have, and CHOOSE stands for it.                          *)

RuleAt(cfg, endpoint) == Document[cfg].rules[endpoint]

AgentsByClient(cfg, client) ==
  {e \in Document[cfg].agents : e.client = client}

AgentsByWorkload(cfg, workload) ==
  {e \in Document[cfg].agents : e.workload # None /\ e.workload = workload}

AgentByClient(cfg, client) ==
  CHOOSE e \in AgentsByClient(cfg, client) : TRUE

AgentByWorkload(cfg, workload) ==
  CHOOSE e \in AgentsByWorkload(cfg, workload) : TRUE

\* The device a client is, None for one that is not a device.
DeviceOf(cfg, client) == Document[cfg].systemPrincipals[client]

AppByName(cfg, name) == {e \in Document[cfg].applications : e.name = name}

FirstParty(cfg, name) ==
  /\ AppByName(cfg, name) # {}
  /\ (CHOOSE e \in AppByName(cfg, name) : TRUE).firstParty

-----------------------------------------------------------------------------
(* Requests, and the world they are made in.                               *)

\* A token Keycloak signed; `acr` says how its session was authenticated.
Token == [valid : BOOLEAN, sub : Users, azp : Clients, acr : Int]

\* `source` is the peer's mTLS identity, if there is one; `session` is the
\* access token of the live session the cookie names, if there is one.
Request ==
  [endpoint : Endpoints, param : ObjectIds \cup {None},
   source : Workloads \cup {None}, bearer : Token \cup {None},
   session : Token \cup {None}, html : BOOLEAN]

ASSUME RequestAssumption ==
  /\ Requests \subseteq Request
  /\ None \notin Token \cup Request
ASSUME WorldsAssumption == Worlds \subseteq SUBSET Relationship

\* resolveResourceID, None when the path has no such parameter.
TargetId(rule, r, principal) ==
  CASE rule.idFrom = "path"      -> r.param
    [] rule.idFrom = "principal" -> principal
    [] rule.idFrom = "literal"   -> rule.literal
=============================================================================
