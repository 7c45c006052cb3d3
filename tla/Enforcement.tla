------------------------------ MODULE Enforcement ------------------------------
(***************************************************************************)
(* The account console and the decision point over one SpiceDB: people     *)
(* give and take back, identities are enrolled and decommissioned, time    *)
(* passes, and calls are decided meanwhile.  The module adds what people   *)
(* last said, which no component stores, to say that it is what counts.    *)
(***************************************************************************)
EXTENDS Registry

CONSTANTS
  SpecialPaths,                                    \* of Decision
  Handlers, Asks, Sensitive, TTLs, DefaultTTL,     \* of AccountConsole
  MaxTTL, LastWrite, MaxTime

\* What AccountConsole asks of the catalogue and the bounds.
ASSUME CatalogueAssumption ==
  /\ Asks \in [Agents -> SUBSET Capabilities]
  /\ Sensitive \subseteq Capabilities
ASSUME LifetimeAssumption ==
  /\ TTLs \subseteq Int
  /\ MaxTTL \in Nat
  /\ DefaultTTL \in 1..MaxTTL
ASSUME BoundAssumption == LastWrite \in Nat /\ MaxTime \in Nat

VARIABLES
  graph,                        \* the relationships, shared
  now, handler,                 \* of AccountConsole
  snapshot, reachable, flight,  \* of Decision
  consents,     \* <<user, application, capability>> last granted
  enrolments,   \* <<agent, user>> last enrolled
  delegations   \* when <<user, agent, capability>> was last delegated

Console == INSTANCE AccountConsole
Point   == INSTANCE Decision

words == <<consents, enrolments, delegations>>
vars  == <<graph, now, handler, snapshot, reachable, flight, words>>

EnforcementTypeOK ==
  /\ Console!ConsoleTypeOK
  /\ snapshot \in Configs
  /\ reachable \in BOOLEAN
  /\ flight \in [Calls -> Point!Flight]
  /\ consents \subseteq Users \X Applications \X Capabilities
  /\ enrolments \subseteq Agents \X Users
  /\ delegations \in [Users \X Agents \X Capabilities -> Nat \cup {Never}]

Init ==
  /\ Console!Init
  /\ snapshot \in Configs
  /\ reachable = TRUE
  /\ flight = [c \in Calls |-> Point!Idle]
  /\ consents = {}
  /\ enrolments = {<<a, Operator[a]>> : a \in Agents}
  /\ delegations = [w \in Users \X Agents \X Capabilities |-> Never]

-----------------------------------------------------------------------------
(* A person's word, whole or by capability.                                *)

Words(u, x, caps) == {<<u, x, c>> : c \in IF caps = {} THEN Capabilities ELSE caps}

GrantConsent(u, p, caps) ==
  /\ Console!GrantConsent(u, p, caps)
  /\ consents' = consents \cup Words(u, p, caps)
  /\ UNCHANGED <<enrolments, delegations>>

RevokeConsent(u, p, caps) ==
  /\ Console!RevokeConsent(u, p, caps)
  /\ consents' = consents \ Words(u, p, caps)
  /\ UNCHANGED <<enrolments, delegations>>

WriteDelegation(h) ==
  /\ Console!WriteDelegation(h)
  /\ delegations' = [w \in DOMAIN delegations |->
       IF w \in Words(handler[h].user, handler[h].agent, handler[h].caps)
       THEN now ELSE delegations[w]]
  /\ UNCHANGED <<consents, enrolments>>

WithdrawDelegation(u, a, caps) ==
  /\ Console!WithdrawDelegation(u, a, caps)
  /\ delegations' = [w \in DOMAIN delegations |->
       IF w \in Words(u, a, caps) THEN Never ELSE delegations[w]]
  /\ UNCHANGED <<consents, enrolments>>

\* The operator's word ends an agent's enrolments with its first deletion.
RemoveIdentity(h) ==
  /\ Console!RemoveIdentity(h)
  /\ enrolments' = {w \in enrolments : Agent(w[1]) # handler[h].target}
  /\ UNCHANGED <<consents, delegations>>

EnrolAgent(a, u) ==
  /\ Console!EnrolAgent(a, u)
  /\ enrolments' = enrolments \cup {<<a, u>>}
  /\ UNCHANGED <<consents, delegations>>

\* The steps of the console that are nobody's word.
Wordless ==
  /\ \/ \E h \in Handlers, u \in Users, a \in Agents,
           caps \in SUBSET Capabilities, ttl \in TTLs :
          Console!BeginDelegation(h, u, a, caps, ttl)
     \/ \E h \in Handlers, u \in Users, target \in Console!Identities :
          Console!BeginDecommission(h, u, target)
     \/ \E h \in Handlers : Console!RemoveDelegations(h) \/ Console!GiveUp(h)
     \/ \E a \in Agents, u \in Users : Console!OnboardAgent(a, u)
     \/ Console!Tick
  /\ UNCHANGED words

ConsoleMoves ==
  /\ \/ \E u \in Users, p \in Applications, caps \in SUBSET Capabilities :
          GrantConsent(u, p, caps) \/ RevokeConsent(u, p, caps)
     \/ \E u \in Users, a \in Agents, caps \in SUBSET Capabilities :
          WithdrawDelegation(u, a, caps)
     \/ \E h \in Handlers : WriteDelegation(h) \/ RemoveIdentity(h)
     \/ \E a \in Agents, u \in Users : EnrolAgent(a, u)
     \/ Wordless
  /\ UNCHANGED <<snapshot, reachable, flight>>

\* The decision point moves; the graph is written by the console alone.
PointMoves ==
  /\ \/ \E c \in Calls, r \in Requests : Point!Accept(c, r)
     \/ \E c \in Calls : Point!Gate(c) \/ Point!Conclude(c)
     \/ \E cfg \in Configs : Point!Swap(cfg)
     \/ Point!Partition
  /\ UNCHANGED <<now, handler, words>>

Next == ConsoleMoves \/ PointMoves

Spec == Init /\ [][Next]_vars

-----------------------------------------------------------------------------
(* Properties.                                                             *)

RuleOf(f)  == RuleAt(f.cfg, f.request.endpoint)
ActorOf(f) == Point!FromClaims(f.cfg, Point!Credential(f.request, RuleOf(f)))

\* A third-party application gets at what a person's consent guards only while
\* her last word on that capability was yes, however calls in progress, whole
\* and partial revocations and swaps of the configuration interleave; and she
\* is never asked for a consent that she has given (consentApplies, Grant,
\* Revoke).
ConsentLastWord ==
  [][\A c \in Calls :
       LET f == flight[c]
           word == <<ActorOf(f).subject, ActorOf(f).application,
                     RuleOf(f).capability>>
       IN /\ Point!Permit(c) /\ Point!ConsentApplies(f.cfg, RuleOf(f), ActorOf(f))
               => word \in consents
          /\ Point!Refuse(c) /\ flight'[c].reason = "consent_required"
               => word \notin consents
    ]_vars

\* No agent acts on a word given longer ago than a day, taken back, or given
\* for another capability: what it is let through for, its person delegated
\* within MaxTTL and has not withdrawn (Delegate, Undelegate, Delegations).
DelegationLastWord ==
  [][\A c \in Calls :
       LET f == flight[c]
           when == delegations[<<ActorOf(f).subject, ActorOf(f).agent,
                                 RuleOf(f).capability>>]
       IN Point!Permit(c) /\ ActorOf(f).kind = "agent"
            /\ RuleOf(f).capability # None =>
            when # Never /\ now < when + MaxTTL
    ]_vars

\* From the first deletion of its decommission until it is enrolled again an
\* agent is refused everything, also when the handler dies before the second
\* deletion, when a delegation begun before is written after, and for calls
\* that were accepted before (Decommission, createDelegation, check).
DecommissionedAgentRefused ==
  [][\A c \in Calls :
       Point!Permit(c) /\ ActorOf(flight[c]).kind = "agent" =>
         <<ActorOf(flight[c]).agent, ActorOf(flight[c]).subject>> \in enrolments
    ]_vars
=============================================================================
