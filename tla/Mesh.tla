---------------------------------- MODULE Mesh ----------------------------------
(***************************************************************************)
(* What becomes of a click: it passes the ingress gateway and the sidecar  *)
(* of smarthome-service, the service calls another one on the person's     *)
(* behalf, and that one may be agent-runner, which makes calls of its own. *)
(* Every hop asks the decision point again, with the relationships of that *)
(* moment; callers stop waiting after ten seconds, callees do not notice.  *)
(*                                                                         *)
(* A hop's Check is one step here: that a Check in progress may be         *)
(* overtaken by a new configuration, and that it is always answered, is    *)
(* the business of Decision.                                               *)
(***************************************************************************)
EXTENDS Check, Authorization, Sequences, FiniteSets

CONSTANTS
  Clicks,                    \* the requests that enter at the gateway
  Asks,                      \* [Clicks -> what each may ask, [kind, target]]
  Sessions,                  \* the access tokens browsers and devices have
  Gateway, Service, Runner,  \* the workloads of three of the hops
  Edge,                      \* [kinds -> Endpoints] on the service's host
  Inner,                     \* [kinds -> Endpoints] of the service called
  AgentClient,               \* AGENT_CLIENT_ID
  Audience,                  \* clients whose tokens name the agent in `aud`
  Task,                      \* what the agent tries, in order
  InitialState,              \* [things -> the state each starts in]
  Profiles,                  \* the people profile-service has a record of
  TelemetryCap

ASSUME WorkloadsAssumption == {Gateway, Service, Runner} \subseteq Workloads
ASSUME TelemetryAssumption == TelemetryCap \in Nat \ {0}

\* What may be asked, and of whom.  The agent's task calls other services.
Errand == [kind : DOMAIN Inner, target : ObjectIds \cup {None}, home : Homes]

ASSUME ErrandsAssumption ==
  /\ Asks \in [Clicks -> SUBSET Errand] /\ Task \in Seq(Errand)
  /\ \A i \in DOMAIN Task : Task[i].kind \notin {"assistant", "push"}
  /\ Sessions \subseteq Token /\ AgentClient \in Clients
  /\ \A kind \in DOMAIN Inner : Inner[kind] \in Endpoints
  /\ \A kind \in DOMAIN Edge : Edge[kind] \in Endpoints
  /\ \A c \in Clicks : \A ask \in Asks[c] :
       ask.kind = "push" \/ ask.kind \in DOMAIN Edge
ASSUME LockedAssumption ==
  \A d \in DOMAIN InitialState : InitialState[d] # "unlocked"

\* A route between services: a bearer token for a resource of the path.
Guarded(rule, type, permission) ==
  /\ ~rule.public /\ ~rule.authenticatedOnly
  /\ rule.authMode = "bearer" /\ rule.idFrom = "path"
  /\ rule.type = type /\ rule.permission = permission

\* What ext-authz.yaml says of the routes that services call each other on.
ASSUME RoutesAssumption ==
  \A cfg \in Configs :
    LET at(kind) == RuleAt(cfg, Inner[kind]) IN
    /\ \A i \in DOMAIN Task : LET rule == at(Task[i].kind) IN
         rule # None => /\ Guarded(rule, rule.type, rule.permission)
                        /\ rule.capability # None
    /\ LET rule == at("unlock") IN
         rule # None => /\ Guarded(rule, "device", "operate_lock")
                        /\ rule.stepUp /\ rule.minACR >= 1
                        /\ rule.consentRequired
    /\ LET rule == at("push") IN
         rule # None => Guarded(rule, "device", "push_telemetry")

\* The agent's client is no application and no device, and a device has no
\* identity but its own.
ASSUME IdentitiesAssumption ==
  /\ \A cfg \in Configs :
       DeviceOf(cfg, AgentClient) = None /\ AppByName(cfg, AgentClient) = {}
  /\ \A g \in Worlds : \A e \in g : e.rel = "self" =>
       \E d \in Devices : e.res = Device(d) /\ e.sub = SystemPrincipal(d)

VARIABLES
  graph, snapshot,
  click,      \* [Clicks -> Click], a request and who waits for its answer
  wire,       \* the calls of services that are not answered
  runner,     \* [Clicks -> Run], the task agent-runner does for a click
  device,     \* device-service: `State`, `UpdateBy` and whether it has a `Reading`
  telemetry,  \* device-service: the last readings
  acted       \* what has had its effect; no program stores this

vars == <<graph, snapshot, click, wire, runner, device, telemetry, acted>>

-----------------------------------------------------------------------------
(* One hop.                                                                *)

\* The answer of ext-authz to a sidecar, or of Envoy for it: anything but a
\* permit is a refusal, a panic, a timeout and no answer at all included.
Passes(r) ==
  LET verdict == Verdict(snapshot, r) IN
  \/ verdict = "permitted"
  \/ /\ verdict = "ask"
     /\ \A q \in Plan(snapshot, r) : Holds(q, graph)

Hop(endpoint, target, source, bearer, session) ==
  [endpoint |-> endpoint, param |-> target, source |-> source,
   bearer |-> bearer, session |-> session, html |-> FALSE]

\* A browser has a cookie, a device a token.
AtGateway(k) ==
  IF k.ask.kind = "push"
  THEN Hop(Inner["push"], k.ask.target, None, k.token, None)
  ELSE Hop(Edge[k.ask.kind], k.ask.home, None, None, k.token)

\* The gateway's Check has put the session's token in `authorization`.
AtService(k) == Hop(Edge[k.ask.kind], k.ask.home, Gateway, k.token, None)

NoWorld == {}

\* It is one's own profile that is asked for, by the service and by the agent.
Asked(ask, token) ==
  IF ask.kind = "profile" THEN [ask EXCEPT !.target = token.sub] ELSE ask

\* Upstream.Do, and agent-runner's call: a request on its way to the sidecar
\* of the service that is called.
Call(c, step, ask, source, token) ==
  [click |-> c, step |-> step, source |-> source, bearer |-> token,
   ask |-> Asked(ask, token), stage |-> "sent", user |-> None,
   seen |-> NoWorld]

\* Mutant: the callee asks what was asked at the edge, of home and view.
AtEdgeAgain(w) ==
  Hop(IF w.step = 0 /\ w.ask.kind \in DOMAIN Edge THEN Edge[w.ask.kind]
      ELSE Inner[w.ask.kind],
      IF w.step = 0 /\ w.ask.kind \in DOMAIN Edge THEN w.ask.home
      ELSE w.ask.target,
      w.source, w.bearer, None)

AtCallee(w) ==
  Hop(Inner[w.ask.kind], w.ask.target, w.source, w.bearer, None)

With(w, stage) ==
  (wire \ {w}) \cup {[w EXCEPT !.stage = stage, !.seen = NoWorld]}

-----------------------------------------------------------------------------
(* From the browser to the service.                                        *)

Idle == [stage |-> "idle"]

Factory == [d \in DOMAIN InitialState |->
              [state |-> InitialState[d], by |-> None, reading |-> FALSE]]

Init ==
  /\ graph \in Worlds
  /\ snapshot \in Configs
  /\ click = [c \in Clicks |-> Idle]
  /\ wire = {}
  /\ runner = [c \in Clicks |-> Idle]
  /\ device = Factory
  /\ telemetry = <<>>
  /\ acted = {}

services == <<runner, device, telemetry, acted>>
world    == <<graph, snapshot>>

\* Devices push telemetry, people click.
Send(c, ask, t) ==
  /\ click[c].stage = "idle"
  /\ (ask.kind = "push") = (DeviceOf(snapshot, t.azp) # None)
  /\ click' = [click EXCEPT ![c] =
                 [stage |-> "gateway", ask |-> ask, token |-> t,
                  told |-> "nothing"]]
  /\ UNCHANGED <<world, wire, services>>

Tell(c, answer) ==
  click' = [click EXCEPT ![c].stage = "answered", ![c].told = answer]

\* Telemetry goes on to device-service, everything else to the service.
PassGateway(c) ==
  /\ click[c].stage = "gateway"
  /\ Passes(AtGateway(click[c]))
  /\ LET k == click[c] IN
       IF k.ask.kind = "push"
       THEN /\ click' = [click EXCEPT ![c].stage = "waiting"]
            /\ wire' = wire \cup {Call(c, 0, k.ask, Gateway, k.token)}
       ELSE /\ click' = [click EXCEPT ![c].stage = "service"]
            /\ UNCHANGED wire
  /\ UNCHANGED <<world, services>>

\* The handler calls the other service with the `authorization` it was given.
PassService(c) ==
  /\ click[c].stage = "service"
  /\ Passes(AtService(click[c]))
  /\ click' = [click EXCEPT ![c].stage = "waiting"]
  /\ wire' = wire \cup {Call(c, 0, click[c].ask, Service, click[c].token)}
  /\ UNCHANGED <<world, services>>

\* By ext-authz, with a reason, or by Envoy for it, without one.
TurnAway(c) ==
  /\ click[c].stage \in {"gateway", "service"}
  /\ \E answer \in {"refused", "denied"} : Tell(c, answer)
  /\ UNCHANGED <<world, wire, services>>

\* Mutant: the client of NewUpstream has no timeout.
HangOn(c) ==
  /\ click[c].stage = "waiting"
  /\ \E w \in wire : w.click = c /\ w.step = 0 /\ w.stage = "refused"
  /\ Tell(c, "error")
  /\ UNCHANGED <<world, wire, services>>

\* Ten seconds have passed, or the connection is broken: 502.  If it is the
\* callee that is gone, Envoy answers for it, and a 503 is an answer to Do:
\* the page says "Denied at the internal hop".
GiveUp(c) ==
  /\ click[c].stage = "waiting"
  /\ \E answer \in {"error", "denied"} : Tell(c, answer)
  /\ UNCHANGED <<world, wire, services>>

-----------------------------------------------------------------------------
(* The service that is called.                                             *)

\* Mutant: whom the edge has let through is not asked about again.
PassUnasked(w) ==
  /\ w.stage = "sent"
  /\ wire' = (wire \ {w}) \cup
       {[w EXCEPT !.stage = "passed", !.seen = graph,
                  !.user = FromClaims(snapshot, w.bearer).subject]}
  /\ UNCHANGED <<world, click, services>>

\* Its own sidecar lets the call through and sets x-user-id.
Pass(w) ==
  /\ w.stage = "sent"
  /\ Passes(AtCallee(w))
  /\ wire' = (wire \ {w}) \cup
       {[w EXCEPT !.stage = "passed", !.seen = graph,
                  !.user = FromClaims(snapshot, w.bearer).subject]}
  /\ UNCHANGED <<world, click, services>>

\* By ext-authz or by Envoy, as in TurnAway.
Refuse(w) ==
  /\ w.stage = "sent"
  /\ \E stage \in {"refused", "failed"} : wire' = With(w, stage)
  /\ UNCHANGED <<world, click, services>>

NewState == [unlock |-> "unlocked", lock |-> "locked", state |-> "23C"]

\* The service knows the device or the person that the path names.
OnRecord(ask) ==
  /\ ask.kind \in DOMAIN NewState => ask.target \in DOMAIN device
  /\ ask.kind = "profile" => ask.target \in Profiles

\* deviceAction; and homeDevices and handleProfile, which change nothing.
Serve(w) ==
  /\ w.stage = "passed"
  /\ w.ask.kind \notin {"push", "assistant"} /\ OnRecord(w.ask)
  /\ device' =
       IF w.ask.kind \in DOMAIN NewState
       THEN [device EXCEPT ![w.ask.target] =
               [@ EXCEPT !.state = NewState[w.ask.kind], !.by = w.user]]
       ELSE device
  /\ acted' = acted \cup {<<w.click, w.step>>}
  /\ wire' = With(w, "done")
  /\ UNCHANGED <<world, click, runner, telemetry>>

\* 404 for what the service does not know, 400 for a body it cannot read.
Reject(w) ==
  /\ w.stage = "passed"
  /\ w.ask.kind \in {"push", "state"} \/ ~OnRecord(w.ask)
  /\ wire' = With(w, "failed")
  /\ UNCHANGED <<world, click, services>>

\* Mutant: one reading more is kept.
IngestOneMore(w) ==
  /\ w.stage = "passed"
  /\ w.ask.kind = "push"
  /\ LET all == Append(telemetry,
                       [device |-> w.ask.target, principal |-> w.user])
     IN telemetry' = IF Len(all) > TelemetryCap
                     THEN SubSeq(all, Len(all) - TelemetryCap, Len(all))
                     ELSE all
  /\ device' = [device EXCEPT ![w.ask.target].reading = TRUE]
  /\ acted' = acted \cup {<<w.click, w.step>>}
  /\ wire' = With(w, "done")
  /\ UNCHANGED <<world, click, runner>>

\* ingest: the reading is kept, and the oldest beyond the cap is not.
Ingest(w) ==
  /\ w.stage = "passed"
  /\ w.ask.kind = "push"
  /\ LET all == Append(telemetry,
                       [device |-> w.ask.target, principal |-> w.user])
     IN telemetry' = IF Len(all) > TelemetryCap
                     THEN SubSeq(all, Len(all) - TelemetryCap + 1, Len(all))
                     ELSE all
  /\ device' = [device EXCEPT ![w.ask.target].reading = TRUE]
  /\ acted' = acted \cup {<<w.click, w.step>>}
  /\ wire' = With(w, "done")
  /\ UNCHANGED <<world, click, runner>>

\* device-service restarts with what it starts with; its calls are lost.
Restart ==
  /\ device' = Factory
  /\ telemetry' = <<>>
  /\ wire' = {w \in wire : w.ask.kind \in {"assistant", "profile"}}
  /\ UNCHANGED <<world, click, runner, acted>>

-----------------------------------------------------------------------------
(* agent-runner: runTask.                                                  *)

Steps == DOMAIN Task

StartTask(w) ==
  /\ w.stage = "passed"
  /\ w.ask.kind = "assistant"
  /\ runner' = [runner EXCEPT ![w.click] =
                  [stage |-> "exchanging", token |-> w.bearer, told |-> <<>>]]
  /\ wire' = With(w, "running")
  /\ UNCHANGED <<world, click, device, telemetry, acted>>

\* RFC 8693: the same person, another application.
AgentToken(t) == [t EXCEPT !.azp = AgentClient]

\* Keycloak exchanges only a token that names the agent in its audience.
Exchange(c) ==
  /\ runner[c].stage = "exchanging"
  /\ runner[c].token.azp \in Audience
  /\ runner' = [runner EXCEPT ![c].stage = "ready",
                              ![c].token = AgentToken(@)]
  /\ UNCHANGED <<world, click, wire, device, telemetry, acted>>

Running(c) == {w \in wire : w.click = c /\ w.stage = "running"}

\* Refused by Keycloak, or no answer in time: 403 and no step taken; nor for a
\* task it does not know, 404.
ExchangeFails(c) ==
  /\ runner[c].stage = "exchanging"
  /\ runner' = [runner EXCEPT ![c].stage = "ended"]
  /\ \E w \in Running(c) : wire' = With(w, "failed")
  /\ UNCHANGED <<world, click, device, telemetry, acted>>

\* The next step is tried, whatever has become of the ones before.
TryStep(c) ==
  /\ runner[c].stage = "ready"
  /\ Len(runner[c].told) < Len(Task)
  /\ runner' = [runner EXCEPT ![c].stage = "waiting"]
  /\ LET i == Len(runner[c].told) + 1 IN
       wire' = wire \cup {Call(c, i, Task[i], Runner, runner[c].token)}
  /\ UNCHANGED <<world, click, device, telemetry, acted>>

Record(c, answer) ==
  runner' = [runner EXCEPT ![c].stage = "ready", ![c].told = Append(@, answer)]

\* Mutant: a step that was not answered is entered as refused.
TakeSilenceForRefusal(c) ==
  /\ runner[c].stage = "waiting"
  /\ Record(c, "refused")
  /\ UNCHANGED <<world, click, wire, device, telemetry, acted>>

\* transport_error: ten seconds have passed, or the caller is gone and with
\* it the request's context; or Envoy answers 503 for a callee that is gone.
\* The page marks each of them "refused".
StepFails(c) ==
  /\ \/ runner[c].stage = "waiting"
     \/ /\ runner[c].stage = "ready"
        /\ Len(runner[c].told) < Len(Task)
        /\ click[c].stage = "answered"
  /\ Record(c, "denied")
  /\ UNCHANGED <<world, click, wire, device, telemetry, acted>>

\* The transcript, refusals included, is a 200.
Report(c) ==
  /\ runner[c].stage = "ready"
  /\ Len(runner[c].told) = Len(Task)
  /\ runner' = [runner EXCEPT ![c].stage = "ended"]
  /\ \E w \in Running(c) : wire' = With(w, "done")
  /\ acted' = acted \cup {<<c, 0>>}
  /\ UNCHANGED <<world, click, device, telemetry>>

-----------------------------------------------------------------------------
(* Answers on their way back.                                              *)

Awaited(w) ==
  IF w.step = 0 THEN click[w.click].stage = "waiting"
  ELSE /\ runner[w.click].stage = "waiting"
       /\ Len(runner[w.click].told) + 1 = w.step

Answered == {"done", "refused", "failed"}

\* Whatever is not a success is a denial on the page and in the transcript.
\* A refusal by ext-authz comes with its reason, x-authz-reason.
Answer(w) ==
  CASE w.stage = "done" -> "ok"
    [] w.stage = "refused" -> "refused"
    [] OTHER -> "denied"

\* Whoever still waits hears of it.
Return(w) ==
  /\ w.stage \in Answered
  /\ wire' = wire \ {w}
  /\ IF ~Awaited(w) THEN UNCHANGED <<click, runner>>
     ELSE IF w.step = 0 THEN Tell(w.click, Answer(w)) /\ UNCHANGED runner
     ELSE Record(w.click, Answer(w)) /\ UNCHANGED click
  /\ UNCHANGED <<world, device, telemetry, acted>>

-----------------------------------------------------------------------------
WorldChanges ==
  /\ \/ graph' \in Worlds /\ UNCHANGED snapshot
     \/ snapshot' \in Configs /\ UNCHANGED graph
  /\ UNCHANGED <<click, wire, services>>

FrontMoves(c) ==
  \/ \E ask \in Asks[c], t \in Sessions : Send(c, ask, t)
  \/ PassGateway(c) \/ PassService(c) \/ TurnAway(c) \/ GiveUp(c)

CalleeMoves(w) ==
  \/ Pass(w) \/ Refuse(w)
  \/ Serve(w) \/ Ingest(w) \/ Reject(w) \/ StartTask(w)
  \/ Return(w)

RunnerMoves(c) ==
  \/ Exchange(c) \/ ExchangeFails(c)
  \/ TryStep(c) \/ StepFails(c) \/ Report(c)

Next ==
  \/ \E c \in Clicks : FrontMoves(c) \/ RunnerMoves(c)
  \/ \E w \in wire : CalleeMoves(w)
  \/ WorldChanges
  \/ Restart

Spec == Init /\ [][Next]_vars

\* Envoy answers a request whose Check fails or takes two seconds, the client
\* of an Upstream gives up after ten: nothing is assumed of the services called.
FairSpec ==
  /\ Spec
  /\ \A c \in Clicks :
       WF_vars(TurnAway(c) \/ GiveUp(c) \/ PassGateway(c) \/ PassService(c))

-----------------------------------------------------------------------------
(* Properties.                                                             *)

\* "refused" is a denial that gives the authorizer's reason, "denied" one that
\* gives none, "error" is the 502 of a caller that was not answered.
Answers == {"ok", "refused", "denied", "error"}

Click ==
  {Idle} \cup
  [stage : {"gateway", "service", "waiting", "answered"},
   ask : UNION {Asks[c] : c \in Clicks}, token : Sessions,
   told : Answers \cup {"nothing"}]

Run ==
  {Idle} \cup
  [stage : {"exchanging", "ready", "waiting", "ended"}, token : Token,
   told : UNION {[1..n -> Answers] : n \in 0..Len(Task)}]

\* Telemetry never outgrows its cap, no transcript its task, and no two calls
\* on the wire are the same step of the same click.
MeshTypeOK ==
  /\ graph \in Worlds
  /\ snapshot \in Configs
  /\ \A c \in Clicks : click[c] \in Click /\ runner[c] \in Run
  /\ \A d \in DOMAIN device : device[d].by \in Users \cup Devices \cup {None}
  /\ Len(telemetry) <= TelemetryCap
  /\ acted \subseteq Clicks \X (0..Len(Task))
  /\ \A v, w \in wire : v.click = w.click /\ v.step = w.step => v = w

\* The call is that of a person who may open d, and when it passed it was so.
OpensOwn(w, d) ==
  /\ w.stage = "passed" /\ w.ask.target = d
  /\ w.bearer.azp # AgentClient /\ w.bearer.acr >= 1
  /\ Permitted(w.seen, Device(d), "operate_lock", User(w.bearer.sub))
  /\ \E cfg \in Configs :
       \/ FirstParty(cfg, w.bearer.azp)
       \/ Consented(w.seen, w.bearer.sub, w.bearer.azp,
                    RuleAt(cfg, Inner["unlock"]).capability)

\* A door is unlocked only for someone who could unlock it when its own
\* service asked: a person herself, who has authenticated for it, who may
\* operate the lock, and, through an application that is not first-party,
\* has consented to it.  That she was let through at the edge, where only a
\* view of the home is asked for, opens nothing (Scenario 3b, and the rules
\* smarthome-unlock and device-unlock).
DoorsOpenForTheirOwners ==
  [][\A d \in DOMAIN device :
       /\ device'[d].state = "unlocked"
       /\ device'[d].state # device[d].state \/ device'[d].by # device[d].by
       => \E w \in wire : OpensOwn(w, d) /\ w.bearer.sub = device'[d].by
    ]_vars

\* Whatever the agent gets done it does for the person who asked for it, with
\* her own permission, her enrolment and her delegation of just that
\* capability, each as it stood when that step was checked and not when she
\* asked (runTask, exchange, call).
AgentServesWhoeverAsked ==
  \A w \in wire :
    w.step > 0 /\ w.stage = "passed" =>
      LET person == click[w.click].token.sub IN
      /\ w.bearer.sub = person
      /\ \E a \in Agents, cfg \in Configs :
           LET rule == RuleAt(cfg, Inner[w.ask.kind]) IN
           /\ EnrolledFor(w.seen, a, person)
           /\ Delegated(w.seen, person, a, rule.capability)
           /\ Permitted(w.seen, Object(rule.type, w.ask.target),
                        rule.permission, User(person))

\* What a caller is told has happened has happened, and what it is told was
\* refused for a reason of the authorizer's has not happened and never will,
\* however late answers come and whatever restarts: for the person at her
\* browser (x-authz-reason, denialCard) and for every step of a transcript
\* (step.Reason).  No more can be read in an answer.  smarthome-service shows
\* "denied" and "refused" also for a 503, a 404, a 403 of agent-runner and a
\* step without an answer, and what those say was denied may have been done.
AnswersAreTrue ==
  \A c \in Clicks, i \in 0..Len(Task) :
    LET told == IF i = 0
                THEN IF click[c].stage = "idle" THEN "nothing"
                     ELSE click[c].told
                ELSE IF runner[c].stage # "idle" /\ i <= Len(runner[c].told)
                     THEN runner[c].told[i]
                     ELSE "nothing"
        underway == \E w \in wire :
          w.click = c /\ w.step = i /\ w.stage \in {"sent", "passed", "running"}
    IN /\ told = "ok" => <<c, i>> \in acted
       /\ told = "refused" => <<c, i>> \notin acted /\ ~underway

\* A reading of the device that sent it, which was then not decommissioned.
OwnReading(w, reading) ==
  /\ w.ask.kind = "push"
  /\ reading = [device |-> w.ask.target, principal |-> w.ask.target]
  /\ Related(w.seen, Device(w.ask.target), "self",
             SystemPrincipal(w.ask.target))

\* Every reading is of the device that sent it, and of one that was not
\* decommissioned when device-service's sidecar asked (ingest, the rule
\* telemetry-ingest).
TelemetryIsOwn ==
  [][\A i \in DOMAIN telemetry' :
       \/ \E j \in DOMAIN telemetry : telemetry'[i] = telemetry[j]
       \/ \E w \in wire : OwnReading(w, telemetry'[i])
    ]_vars

\* No hop lives on the decision of the one before: whatever the gateway or a
\* sidecar lets through, the access policy authorizes at that moment, for the
\* token, the workload and the resource of that very hop (Server.Check on
\* every ext_authz filter).
EveryHopAuthorized ==
  [][/\ \A c \in Clicks :
          /\ /\ click[c].stage = "gateway"
             /\ click'[c].stage \in {"service", "waiting"}
             => Authorized(snapshot, AtGateway(click[c]), graph)
          /\ click[c].stage = "service" /\ click'[c].stage = "waiting"
             => Authorized(snapshot, AtService(click[c]), graph)
     /\ \A w \in wire' \ wire :
          w.stage = "passed" => Authorized(snapshot, AtCallee(w), graph)
    ]_vars

\* Everyone who clicks is answered, whatever hangs behind the service.
EveryClickAnswered ==
  \A c \in Clicks :
    click[c].stage = "gateway" ~> click[c].stage = "answered"
=============================================================================
