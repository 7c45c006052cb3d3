---------------------------- MODULE Relationships ----------------------------
(***************************************************************************)
(* The relationship graph every authorization answer comes from: the       *)
(* permissions spicedb/schema.zed computes over it, the world              *)
(* spicedb/seed.yaml writes, and the updates and reads that                *)
(* internal/spicedb/writer.go makes.  A graph is a set of relationships;   *)
(* an update is a function from graphs to graphs, applied atomically       *)
(* because WriteRelationships and DeleteRelationships are transactions.    *)
(***************************************************************************)
EXTENDS Integers

CONSTANTS
  Users,          \* Keycloak subjects
  Applications,   \* OAuth clients a user may consent to
  Agents,         \* object ids of agents
  Devices,        \* device names; a device's system principal has its name
  Homes,
  Capabilities,
  Operator,       \* [Agents \cup Devices -> Users], who answers for each
  HomeOwner,      \* [Homes -> Users]
  HomeOf,         \* [Devices -> Homes]
  Never           \* the expiry of a relationship that has none

ASSUME NeverAssumption == Never \notin Int
ASSUME SeedAssumption ==
  /\ Operator \in [Agents \cup Devices -> Users]
  /\ HomeOwner \in [Homes -> Users]
  /\ HomeOf \in [Devices -> Homes]

-----------------------------------------------------------------------------
(* Objects and relationships.                                              *)

Object(type, id) == [type |-> type, id |-> id]

User(u)        == Object("user", u)
Application(p) == Object("application", p)
Agent(a)       == Object("agent", a)
Capability(c)  == Object("capability", c)
Device(d)      == Object("device", d)
Home(h)        == Object("home", h)
Profile(u)     == Object("user_profile", u)

\* The non-human identity that a device authenticates as.
SystemPrincipal(d) == Object("system_principal", d)

\* `<user>|<application>` and `<user>|<agent>`: the pair is the object id.
ConsentGrant(u, p) == Object("consent_grant", <<u, p>>)
Delegation(u, a)   == Object("delegation", <<u, a>>)

ObjectTypes ==
  {"user", "application", "agent", "capability", "device", "home",
   "user_profile", "system_principal", "consent_grant", "delegation"}

RelationNames ==
  {"operator", "enrolled_for", "subject", "grantee", "granted", "delegator",
   "delegate", "owner", "reader", "resident", "guest", "home", "self"}

ObjectIds ==
  Users \cup Applications \cup Agents \cup Devices \cup Homes
    \cup Capabilities \cup (Users \X Applications) \cup (Users \X Agents)

Objects == [type : ObjectTypes, id : ObjectIds]

Relationship ==
  [res : Objects, rel : RelationNames, sub : Objects, exp : Int \cup {Never}]

Expiring(res, rel, sub, exp) ==
  [res |-> res, rel |-> rel, sub |-> sub, exp |-> exp]

Lasting(res, rel, sub) == Expiring(res, rel, sub, Never)

-----------------------------------------------------------------------------
(* Permissions.  A chain has at most two links, device -> home, so no      *)
(* recursion is needed.                                                    *)

Related(graph, res, rel, sub) ==
  \E e \in graph : e.res = res /\ e.rel = rel /\ e.sub = sub

\* <<type, permission, relation>>: the relation alone gives the permission.
DirectPermissions ==
  {<<"system_principal", "administrate", "operator">>,
   <<"consent_grant", "includes", "granted">>,
   <<"consent_grant", "revoke", "subject">>,
   <<"user_profile", "view", "owner">>,
   <<"user_profile", "view", "reader">>,
   <<"user_profile", "edit", "owner">>,
   <<"home", "administrate", "owner">>,
   <<"home", "operate", "owner">>,
   <<"home", "operate", "resident">>,
   <<"home", "view", "owner">>,
   <<"home", "view", "resident">>,
   <<"home", "view", "guest">>,
   <<"device", "view", "operator">>,
   <<"device", "operate", "operator">>,
   <<"device", "operate_lock", "operator">>,
   <<"device", "push_telemetry", "self">>,
   <<"agent", "administrate", "operator">>,
   <<"agent", "act_for", "enrolled_for">>,
   <<"delegation", "includes", "granted">>,
   <<"delegation", "revoke", "delegator">>}

\* <<device permission, permission on the device's home that gives it>>.
InheritedPermissions ==
  {<<"view", "view">>, <<"operate", "operate">>,
   <<"operate_lock", "administrate">>}

DirectlyPermitted(graph, res, perm, sub) ==
  \E rel \in RelationNames :
    /\ <<res.type, perm, rel>> \in DirectPermissions
    /\ Related(graph, res, rel, sub)

Permitted(graph, res, perm, sub) ==
  \/ DirectlyPermitted(graph, res, perm, sub)
  \/ /\ res.type = "device"
     /\ \E e \in graph, via \in InheritedPermissions :
          /\ e.res = res
          /\ e.rel = "home"
          /\ via[1] = perm
          /\ DirectlyPermitted(graph, e.sub, via[2], sub)

\* SpiceDB does not see a relationship whose expiry has come.
Unexpired(graph, time) == {e \in graph : e.exp = Never \/ e.exp > time}

-----------------------------------------------------------------------------
(* The world at bootstrap: no consent and no delegation.                   *)

Seed ==
  {Lasting(Profile(u), "owner", User(u)) : u \in Users}
  \cup {Lasting(Home(h), "owner", User(HomeOwner[h])) : h \in Homes}
  \cup {Lasting(Device(d), "home", Home(HomeOf[d])) : d \in Devices}
  \cup {Lasting(Device(d), "self", SystemPrincipal(d)) : d \in Devices}
  \cup {Lasting(SystemPrincipal(d), "operator", User(Operator[d])) :
          d \in Devices}
  \cup {Lasting(Agent(a), "operator", User(Operator[a])) : a \in Agents}
  \cup {Lasting(Agent(a), "enrolled_for", User(Operator[a])) : a \in Agents}

-----------------------------------------------------------------------------
(* Updates.                                                                *)

Same(e, f) == e.res = f.res /\ e.rel = f.rel /\ e.sub = f.sub

Without(graph, edges) == {e \in graph : \A f \in edges : ~Same(e, f)}

\* TOUCH creates a relationship or replaces its expiry.
Touch(graph, edges) == Without(graph, edges) \cup edges

WithoutResource(graph, res) == {e \in graph : e.res # res}

\* writer.Grant: one transaction for the grant and what makes it revocable.
Grant(graph, u, p, caps) ==
  Touch(graph,
    {Lasting(ConsentGrant(u, p), "subject", User(u)),
     Lasting(ConsentGrant(u, p), "grantee", Application(p))}
    \cup {Lasting(ConsentGrant(u, p), "granted", Capability(c)) : c \in caps})

\* Mutant: the whole grant is revoked by its subject relationship only.
RevokeSubjectOnly(graph, u, p, caps) ==
  Without(graph,
    IF caps = {}
    THEN {Lasting(ConsentGrant(u, p), "subject", User(u))}
    ELSE {Lasting(ConsentGrant(u, p), "granted", Capability(c)) : c \in caps})

\* writer.Revoke: some capabilities, or with none named the whole grant.
Revoke(graph, u, p, caps) ==
  IF caps = {}
  THEN WithoutResource(graph, ConsentGrant(u, p))
  ELSE Without(graph,
         {Lasting(ConsentGrant(u, p), "granted", Capability(c)) : c \in caps})

\* Mutant: the delegated capabilities carry no expiry.
DelegateForever(graph, u, a, caps, exp) ==
  Touch(graph,
    {Lasting(Delegation(u, a), "delegator", User(u)),
     Lasting(Delegation(u, a), "delegate", Agent(a))}
    \cup {Lasting(Delegation(u, a), "granted", Capability(c)) : c \in caps})

\* writer.Delegate: the same, every capability with the same expiry.
Delegate(graph, u, a, caps, exp) ==
  Touch(graph,
    {Lasting(Delegation(u, a), "delegator", User(u)),
     Lasting(Delegation(u, a), "delegate", Agent(a))}
    \cup {Expiring(Delegation(u, a), "granted", Capability(c), exp) :
            c \in caps})

\* writer.Undelegate, by capability or whole.
Undelegate(graph, u, a, caps) ==
  IF caps = {}
  THEN WithoutResource(graph, Delegation(u, a))
  ELSE Without(graph,
         {Lasting(Delegation(u, a), "granted", Capability(c)) : c \in caps})

\* writer.Decommission, second call, for an agent: its `delegate`
\* relationships, wherever they are.
WithoutDelegate(graph, agent) ==
  {e \in graph : ~(/\ e.res.type = "delegation"
                   /\ e.rel = "delegate"
                   /\ e.sub = agent)}

-----------------------------------------------------------------------------
(* Reads.                                                                  *)

EnrolledFor(graph, a, u) == Permitted(graph, Agent(a), "act_for", User(u))

Operates(graph, object, u) ==
  Permitted(graph, object, "administrate", User(u))

Consented(graph, u, p, c) ==
  Permitted(graph, ConsentGrant(u, p), "includes", Capability(c))

Delegated(graph, u, a, c) ==
  Permitted(graph, Delegation(u, a), "includes", Capability(c))

\* writer.Delegations: the agents a user's account page lists as holding
\* something, found by the `granted` relationships of her delegations.
DelegationsListed(graph, u) ==
  {a \in Agents : \E c \in Capabilities :
      Related(graph, Delegation(u, a), "granted", Capability(c))}
=============================================================================
