------------------------------- MODULE Decision -------------------------------
(***************************************************************************)
(* The decision point, internal/decision: what one Check call does from    *)
(* the request to the answer.  A call takes the installed configuration    *)
(* once, decides everything it can from the request alone, and puts what   *)
(* is left to SpiceDB in one bulk check.  Configurations are swapped and   *)
(* relationships written while calls are in progress.                      *)
(***************************************************************************)
EXTENDS Check

VARIABLES
  graph,     \* the live relationships
  snapshot,  \* Pipeline.snapshot, the installed configuration
  reachable, \* does SpiceDB answer?
  flight     \* [Calls -> Flight], where each call is

vars == <<graph, snapshot, reachable, flight>>

-----------------------------------------------------------------------------
(* A call.                                                                 *)

Refusals ==
  {"no_session", "token_invalid", "unknown_application", "actor_not_bound",
   "no_route_match", "workload_not_registered", "step_up_required",
   "internal_error", "backend_unavailable", "permission_denied",
   "consent_required", "agent_not_enrolled", "delegation_required"}

Reasons == Refusals \cup {"permitted", "redirect_to_login", "session_step"}

\* Mutant: a backend that cannot be reached is served from goodwill.
FailOpen(reason) ==
  IF reason \in {"permitted", "backend_unavailable"} THEN "permit"
  ELSE IF reason \in {"redirect_to_login", "session_step"} THEN "redirect"
  ELSE "deny"

Outcome(reason) ==
  IF reason = "permitted" THEN "permit"
  ELSE IF reason \in {"redirect_to_login", "session_step"} THEN "redirect"
  ELSE "deny"

Idle == [step |-> "idle"]

Working(step, r, cfg) == [step |-> step, request |-> r, cfg |-> cfg]

Answered(r, cfg, reason) ==
  [step |-> "answered", request |-> r, cfg |-> cfg,
   outcome |-> Outcome(reason), reason |-> reason]

Answer(c, reason) ==
  flight' = [flight EXCEPT ![c] =
               Answered(flight[c].request, flight[c].cfg, reason)]

Init ==
  /\ graph \in Worlds
  /\ snapshot \in Configs
  /\ reachable \in BOOLEAN
  /\ flight = [c \in Calls |-> Idle]

\* Envoy calls Check; the call reads the snapshot, once.
Accept(c, r) ==
  /\ flight[c].step \in {"idle", "answered"}
  /\ flight' = [flight EXCEPT ![c] = Working("gating", r, snapshot)]
  /\ UNCHANGED <<graph, snapshot, reachable>>

Gate(c) ==
  /\ flight[c].step = "gating"
  /\ LET verdict == Verdict(flight[c].cfg, flight[c].request) IN
       IF verdict = "ask"
       THEN flight' = [flight EXCEPT ![c].step = "asking"]
       ELSE Answer(c, verdict)
  /\ UNCHANGED <<graph, snapshot, reachable>>

\* Mutant: the questions are put together from the configuration installed
\* by now, not from the one the call began with.
PermitByCurrentConfig(c) ==
  /\ flight[c].step = "asking"
  /\ reachable
  /\ Verdict(snapshot, flight[c].request) = "ask"
  /\ \A q \in Plan(snapshot, flight[c].request) : Holds(q, graph)
  /\ Answer(c, "permitted")
  /\ UNCHANGED <<graph, snapshot, reachable>>

\* CheckBulk answers every question at one revision, the current one.
Permit(c) ==
  /\ flight[c].step = "asking"
  /\ reachable
  /\ \A q \in Plan(flight[c].cfg, flight[c].request) : Holds(q, graph)
  /\ Answer(c, "permitted")
  /\ UNCHANGED <<graph, snapshot, reachable>>

Refuse(c) ==
  /\ flight[c].step = "asking"
  /\ reachable
  /\ LET plan == Plan(flight[c].cfg, flight[c].request) IN
       \E q \in plan : Blocks(q, plan, graph) /\ Answer(c, q.reason)
  /\ UNCHANGED <<graph, snapshot, reachable>>

\* Mutant: the call to SpiceDB has no deadline of its own.
GiveUpWhenTold(c) ==
  /\ flight[c].step = "asking"
  /\ reachable
  /\ Answer(c, "backend_unavailable")
  /\ UNCHANGED <<graph, snapshot, reachable>>

\* SpiceDB errs, answers in part, or not before the timeout.
GiveUp(c) ==
  /\ flight[c].step = "asking"
  /\ Answer(c, "backend_unavailable")
  /\ UNCHANGED <<graph, snapshot, reachable>>

\* Pipeline.Swap.
Swap(cfg) ==
  /\ snapshot' = cfg
  /\ UNCHANGED <<graph, reachable, flight>>

\* The account console and the operators write relationships, and some
\* expire.
WriteGraph ==
  /\ graph' \in Worlds
  /\ UNCHANGED <<snapshot, reachable, flight>>

Partition ==
  /\ reachable' = ~reachable
  /\ UNCHANGED <<graph, snapshot, flight>>

Conclude(c) == Permit(c) \/ Refuse(c) \/ GiveUp(c)

Next ==
  \/ \E c \in Calls, r \in Requests : Accept(c, r)
  \/ \E c \in Calls : Gate(c) \/ Conclude(c)
  \/ \E cfg \in Configs : Swap(cfg)
  \/ WriteGraph
  \/ Partition

Spec == Init /\ [][Next]_vars

\* A goroutine runs on, and the call to SpiceDB has a deadline; SpiceDB
\* itself owes nothing.
FairSpec ==
  Spec /\ \A c \in Calls : WF_vars(Gate(c)) /\ WF_vars(Conclude(c))

-----------------------------------------------------------------------------
(* The policy this pipeline implements.                                    *)

Abstract(f) ==
  CASE f.step = "idle" -> [step |-> "free"]
    [] f.step \in {"gating", "asking"} ->
         [step |-> "pending", request |-> f.request, cfg |-> f.cfg]
    [] f.step = "answered" ->
         [step |-> "judged", request |-> f.request, cfg |-> f.cfg,
          outcome |-> IF f.outcome = "permit" THEN "permit" ELSE "refuse"]

Policy == INSTANCE AccessPolicy
            WITH installed <- snapshot,
                 judged <- [c \in Calls |-> Abstract(flight[c])]

-----------------------------------------------------------------------------
(* Properties.                                                             *)

Flight ==
  {Idle}
  \cup [step : {"gating"}, request : Requests, cfg : Configs]
  \cup {f \in [step : {"asking"}, request : Requests, cfg : Configs] :
          Verdict(f.cfg, f.request) = "ask"}
  \cup {f \in [step : {"answered"}, request : Requests, cfg : Configs,
                outcome : {"permit", "deny", "redirect"},
                reason : Reasons] :
          /\ f.outcome = "permit" <=> f.reason = "permitted"
          /\ f.outcome = "deny" <=> f.reason \in Refusals}

\* Calls are in one of these states, only what the gates leave open is asked
\* of SpiceDB, and a call is let through for no reason but "permitted".
DecisionTypeOK ==
  /\ graph \in Worlds
  /\ snapshot \in Configs
  /\ reachable \in BOOLEAN
  /\ flight \in [Calls -> Flight]

\* The calls let through on a route that is not public.
LetThrough ==
  {f \in {flight[c] : c \in Calls} :
     /\ f.step = "answered"
     /\ f.outcome = "permit"
     /\ ~RuleAt(f.cfg, f.request.endpoint).public}

Azp(f) == Credential(f.request, RuleAt(f.cfg, f.request.endpoint)).azp

\* The process that runs an agent gets nothing done with any token but that
\* agent's, whoever's token it holds, and the token of an agent bound to a
\* workload gets nothing done from a process that runs no agent, across
\* configurations in which an agent is onboarded, unbound, rebound or gone
\* (checkActorBinding).
AgentsKeepToTheirWorkloads ==
  \A f \in LetThrough :
    LET runs == AgentsByWorkload(f.cfg, f.request.source)
        acts == AgentsByClient(f.cfg, Azp(f))
    IN /\ runs # {} => \E e \in runs, g \in acts : e.object = g.object
       /\ acts # {} /\ (\A g \in acts : g.workload # None) => runs # {}

\* A sensitive resource is opened only to a person who has just authenticated
\* and not, by any token, to a process that runs an agent: this takes the
\* actor binding, the order of the registries and the step-up gate together
\* (checkActorBinding, fromClaims, stepUp).
StepUpNeedsPerson ==
  \A f \in LetThrough :
    LET rule == RuleAt(f.cfg, f.request.endpoint) IN
    rule.stepUp /\ rule.type # None =>
      /\ AgentsByWorkload(f.cfg, f.request.source) = {}
      /\ AgentsByClient(f.cfg, Azp(f)) = {}
      /\ DeviceOf(f.cfg, Azp(f)) = None
      /\ Credential(f.request, rule).acr >= rule.minACR

\* An agent never satisfies a rule marked stepUp.
AgentNeverPassesStepUp ==
  \A f \in LetThrough :
    RuleAt(f.cfg, f.request.endpoint).stepUp =>
      AgentsByClient(f.cfg, Azp(f)) = {}

\* A challenge tells the truth: whoever is sent to the consent screen or the
\* delegation screen would, with just that grant given, be let through.  A
\* plan read in another order would send people to grant what is of no use
\* (check, the order of the plan).
ChallengesSuffice ==
  [][\A c \in Calls :
       LET f == flight[c]
           id == FromClaims(f.cfg,
                   Credential(f.request, RuleAt(f.cfg, f.request.endpoint)))
           capability ==
             Capability(RuleAt(f.cfg, f.request.endpoint).capability)
           remedy(grant) == graph \cup {Lasting(grant, "granted", capability)}
       IN Refuse(c) =>
            /\ flight'[c].reason = "consent_required" =>
                 Policy!Authorized(f.cfg, f.request,
                   remedy(ConsentGrant(id.subject, id.application)))
            /\ flight'[c].reason = "delegation_required" =>
                 Policy!Authorized(f.cfg, f.request,
                   remedy(Delegation(id.subject, id.agent)))
    ]_vars

\* Every call is answered, also while SpiceDB cannot be reached and however
\* often configurations are swapped under it (Check, CheckBulk's timeout).
EveryCallAnswered ==
  \A c \in Calls :
    flight[c].step \in {"gating", "asking"} ~> flight[c].step = "answered"

\* The pipeline implements the policy: each request is judged against the
\* one configuration installed when it arrived, and is let through only if
\* the relationships authorize it at that instant.
PolicyKept == Policy!Spec
=============================================================================
