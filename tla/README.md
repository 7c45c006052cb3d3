# A verification model of the Gerege authorization plane

The repository is an identity and authorization platform for people, the
applications they use, agents that act for them and devices that act for
nobody. Every HTTP request in the mesh stops at an Envoy sidecar that asks
`ext-authz`, and `ext-authz` answers from the request, from a configuration
document and from a relationship graph in SpiceDB. People change that graph on
the account console, operators with scripts.

This directory models that program in TLA+, checks it with TLC on small
instances and proves the properties that matter most with TLAPS. Paths below
are relative to `src/`; Go paths to `src/services/`.

## 1. Inventory

| Component | State it keeps | Operations | Hard part |
|---|---|---|---|
| Decision point, `internal/decision` | the installed snapshot (atomic pointer) | `Check`, `Swap` | calls in progress while the document is swapped and the graph written; one bulk question read in order; backend that does not answer |
| Relationship graph, `spicedb/schema.zed`, `internal/spicedb/writer.go` | relationships, some with an expiry | `Grant`, `Revoke`, `Delegate`, `Undelegate`, `Decommission`, reads | each call is one transaction, sequences of calls are not; expiry |
| Account console, `cmd/account-app` | none of its own; a handler's local variables between two calls | `grant`, `revoke`, `createDelegation`, `withdrawDelegation`, `decommission`, pages | check, then write; two deletions; crashes between them |
| Configuration, `internal/config`, `config/ext-authz.yaml` | a value | `Load`, `validate`, lookups | what validate lets through, first-match order |
| Session store and login, `internal/session`, `identity.go` | sessions in memory | `startLogin`, `handleCallback`, refresh, `handleLogout`, reap | concurrent refreshes, logout against refresh, late answers, expiry |
| Check freshness, `internal/spicedb/spicedb.go` | `lastSeen` | `observe`, `consistency` | tokens observed out of order |
| Reload, `cmd/ext-authz/main.go` | `last` fingerprint, the file | `main`, `watchConfig` | file changes between fingerprint and load, and during startup |
| Route table, `internal/routes` | the compiled table | `Compile`, `checkAmbiguity`, `Match` | overlap and specificity |
| Lifecycle scripts, `scripts/lifecycle.sh` | the ConfigMap, Keycloak clients, the graph | onboard, enrol, offboard, inventory | partial failure, retry, two commands at once |
| Mesh flow, `istio/`, `deploy/`, `internal/extauthz`, `internal/svc`, services | devices and readings in memory; a task's transcript | forwarding, device actions, telemetry, token exchange | several hops, each checked by itself; callers that give up while callees go on |

How they interact: a sidecar calls `Check`; `Check` loads the snapshot, may read
and write the session store and call Keycloak, and makes one `CheckBulk` call to
SpiceDB. The console reads and writes SpiceDB only, and is itself reached
through `Check`. Scripts write SpiceDB, Keycloak and the ConfigMap, which
`watchConfig` polls and installs with `Swap`. The graph is the only state the
console and the decision point share.

What makes each component correct:

- **decision point**: a call is let through only if the document installed when
  it began and the graph at the moment of the answer authorize whoever acts; an
  agent is not the person whose token it carries; sensitive resources need a
  person; refusals point at the grant that would help; every call is answered,
  and with a denial when SpiceDB does not answer.
- **console**: nothing is granted that its giver cannot take back, no delegation
  is unbounded or sensitive, decommissioning takes effect at its first step, and
  nothing non-human is left acting without an operator.
- **sessions**: a login completes only what the same browser began, under a new
  id; tokens are renewed before they lapse; a sign-out ends what was signed in;
  a call to Keycloak that fails costs no more than that call.
- **freshness**: the freshness floor never goes back.
- **reload**: a good document is eventually served, a bad one never.
- **routes**: the order of the file decides nothing, a rule made for some of the
  requests of another decides those, and no document is refused for nothing.
- **lifecycle**: wherever commands stop, no device acts unowned; a command that
  succeeds and checks has done what it says, and the authorizer serves it.
- **mesh**: each hop decides by the moment it is asked; an agent acts for the
  person who asked and by her leave; what a caller is told was done was done,
  and what was refused with the authorizer's reason was not.

Every hazard behind these sentences is listed with its line in `PROJECT.json`.

## 2. Modules

| Module | What it is |
|---|---|
| `Relationships` | pure operators: objects, the schema's permissions, the seed, every update and read of the `Writer` |
| `AccountConsole` | the console as a state machine over the graph, the clock and the handlers |
| `Registry` | a loaded document and its lookups, tokens and requests |
| `Authorization` | who may do what, without the order and the shortcuts of the pipeline |
| `AccessPolicy` | the abstract specification: what the decision point promises, in the words of `Authorization` |
| `Check` | what the pipeline makes of one request under one document: who asks, the gates, the questions and how their answers are read |
| `Decision` | the pipeline as a state machine over `Check`; refines `AccessPolicy` |
| `Enforcement` | console and decision point over one graph |
| `Sessions` | one browser's sessions: the store, login, callback, refresh, sign-out, and Keycloak's login behind them |
| `Routes` | the route table: compiling, ambiguity, matching |
| `Mesh` | clicks and telemetry pushes over several hops, each decided with the operators of `Check`; device-service and agent-runner |
| `Reload` | the process of ext-authz and its document, without what writes it |
| `Lifecycle` | the commands of `lifecycle.sh`; extends `Reload` |
| `AccountConsoleProofs`, `CheckProofs`, `DecisionProofs`, `EnforcementProofs`, `SessionsProofs`, `RoutesProofs`, `MeshProofs`, `LifecycleProofs` | theorems about the module of that name |
| `MC*` | model values and bounds for TLC |

### How they correspond to the code

**Relationships.** A graph is a set of records `res, rel, sub, exp`; `exp` is
`Never` for a relationship without expiry. The object ids `<user>|<agent>` and
`<user>|<application>` are pairs. `WriteRelationships` with TOUCH replaces, with
DELETE removes, `DeleteRelationships` removes by filter, and each is atomic, so
`Grant`, `Revoke`, `Delegate` and `Undelegate` are single updates.
`Decommission` is two calls, hence two operators (`WithoutResource`,
`WithoutDelegate`) for two actions. The deepest permission of the schema is
device to home, so `Permitted` needs no recursion. `Devices` are those with an
identity of their own, such as `sensor-1`.

**AccountConsole.** `handler` holds what a handler goroutine has in its local
variables between two calls to SpiceDB: "enrolled" after `EnrolledFor` in
`createDelegation`, "operated" after `Operates` and "removed" after the first
deletion in `decommission`. `GiveUp` ends a handler between any two calls: an
error or timeout answered with 502, a cancelled request, a killed pod. What is
one call has one action. `Tick` advances the clock and drops what has expired.
SpiceDB drops it within a few seconds (`docs/implementation-notes.md`, section
9): the moment of an expiry in the model is the one at which SpiceDB drops the
relationship. `OnboardAgent` and `EnrolAgent` are the script steps that write
an agent's relationships. The deployed route table has no rule for
`POST /decommission` on the console's host, so through the mesh the handler
cannot be reached as deployed, although `docs/lifecycle.md:132` describes its
use; the model takes the handler as it is written.

**Registry.** A document gives each endpoint the rule that matching finds, or
`None`. `ValidRule` is what `validate` guarantees of a rule after its defaults;
an empty `literal:` id, which `validate` accepts and SpiceDB refuses, is left
out. Agents and applications are sets; where the code takes the first entry of
a list, `CHOOSE` stands for it, so nothing that is checked or proved depends on
a particular order. `Token` keeps `sub`, `azp`, `acr` and whether it verifies.

**Check and Decision.** `Check` has no state: `Verdict` is the order of the
gates, `Plan` the list of questions, `Blocks` the classify loop. In `Decision`
`flight[c]` is where call `c` is. `Accept` reads the snapshot, the
only read there is. `Gate` is everything `check` decides without SpiceDB: it
reads no shared state except the session, so one step loses no interleaving
while the session's token is part of the request. `Permit` and `Refuse` are the
bulk check and the reading of its answers, at one revision as
`fully_consistent` promises and every deployed resource rule demands. `GiveUp`
is every error arm of `CheckBulk`, partial answers included.
`conditional_result` does not occur, since the schema has no caveats. The
callback and logout paths answer with one abstract redirect, "session_step".

**Sessions.** `store` is `memStore.data`; a pending session is one without a
token. `request` is a handler goroutine with its browser tab: `sid` the cookie
it came with, `state` the pending session whose `state` it took to Keycloak,
`token` its copy of what it read. Handlers are split where they wait: at
Keycloak's token endpoint (`BeginRefresh`, `Renew`, `ServeRenewed`; `Callback`,
`Exchange`, `Admit`), at the browser (`Redirect`, `ReceiveSession`, `SignOut`),
and between the two critical sections of `Get` (`FindLapsed`, `DeleteLapsed`).
A deletion followed by a `Put` under a new id is one step, since nobody knows
the id before the answer. `RefreshFails` is every error of `Refresh`, a lost or
late answer and a cancelled request included. A request that is `Serve`d goes on
to the gates of `Decision` with that token. `Fresh` is `NewID`: an id is used
again only when nobody remembers it. Keycloak keeps `acr` across refreshes and
answers another host from its own login with `acr` 0. The cookie's `Max-Age` is
`Forget`, at any time.

**Enforcement** adds three ledgers of what people last said (`consents`,
`delegations`, `enrolments`), written by the console's actions. No code stores
them: they exist to say that the graph means what people said.

**Routes.** A rule and a request keep a path as the sequence of what stands
between its slashes: literals, parameters, `Blank` for nothing, `Star`, and the
two kinds of segment `compileRule` rejects. `Trimmed`, `Wildcard` and `Body` are
the two suffixes it cuts and the empty parts it skips; `Score` is its weighing.
The table is not stored: `Precedes` is the order `sort.SliceStable` gives it,
and `Match` the first of the rules that match. `Bindings` are the parameters; of
two with one name the last is kept, as in the Go map. `NonBlanks` is the loop
that passes over empty parts, as a function on positions so that it can be
reasoned about. Lower and upper case and the port of a host are functions given
by the instance; `Portless` are the hosts that have none, `Parts` the paths, of
at most `MaxParts` words, that are asked for. `Load` and `Compile` let one
document follow another.

**Mesh.** `click[c]` is what a browser or a device has sent and where it is:
at the gateway, at smarthome-service, waiting for the service behind, or
answered. `wire` holds the calls `Upstream.Do` and agent-runner have made, from
"sent" over "passed" (the callee's sidecar has let it in) to "done", "refused"
(by ext-authz, with its reason in `x-authz-reason`) or "failed" (any other
answer that is not a success). A hop is `Passes`: a verdict of `Check` and, when it is "ask", all
questions of its plan answered by the graph of that moment; interleavings within
one Check are `Decision`'s. Refusals need no guard: Envoy refuses on any error of its filter.
`Reject` is a service that does not know what the path names (404, `OnRecord`)
or cannot read a body (400). What a caller is told is "ok", "refused", "denied"
or "error": `denialCard` and a transcript's step show every answer that is not a
success as a denial, and only `x-authz-reason` tells a decision from the rest;
"error" is smarthome-service's own 502. `GiveUp` and `StepFails` are the ten
seconds of the two HTTP clients, and the 503 with which a sidecar answers for a
callee that is gone, which is shown as a denial; the callee goes on. `runner` is `runTask`: exchange, then one step after the other whatever
became of the last, then the transcript. `Restart` loses device-service's memory
and its calls. `seen` on a passed call remembers the graph its sidecar asked,
and `acted` what has had an effect: no program stores these, the properties do.
Pages, the device list and Envoy's retries of connections are left out.

**Reload.** `served` is the installed snapshot, `last` and `current` the two
fingerprints of `watchConfig`; a fingerprint is taken to be the document itself.
`Tick` and `LoadChanged` are the two reads of the file, and the file may change
between them. `logged` says that the container's log has a "configuration
reloaded"; it goes with the container. "starting" is the wait for Keycloak between `config.Load` and
`watchConfig`; "blind" is the process whose first fingerprint failed.

**Lifecycle.** Each command is a list of lines (`OnboardDevice` and so on), each
line that changes or checks something an action, and `Die` ends a command at any
of them: `die`, `set -e`, a signal. A deletion may fail, and is passed over as
`|| true` does. `mark_reload_point` and the read of the ConfigMap are one step,
the apply another, of the whole document. `Sync` is the kubelet's delay.
`heard` says that the log shows a "configuration reloaded" that is dated at the
mark or later; `Stop` clears it, because `kubectl logs` shows the new container.
The mark is in whole seconds of the operator's clock (`lifecycle.sh:148`) and
`--since-time` includes it, so `heard` need not agree with what came after the
mark: `ReadRegistry` may set it when a reload is `logged` already (the same
second, or a clock that is behind), and a reload after the mark is heard by any
of the commands that wait or by none (a clock that is ahead). A repeated
edit that changes nothing applies the same document. Two commands about one
name at once are left out, as are delegations (the console's) and `inventory`
(which only reads). A document is the set of names it registers, and `Mistake`
when it does not load.

## 3. Runs

| Run | States | Shows |
|---|---|---|
| `decision` | 17 358 | the pipeline refines the policy; binding, step-up, truthful challenges; every call answered |
| `decision_stepup_page` | violation | an `authenticatedOnly` page marked `stepUp` opens to an agent |
| `account_console` | 18 480 | delegations bounded and temporary, grants revocable |
| `console_unowned` | violation | a decommissioned device reports on, unowned |
| `console_decommission` | violation | a decommissioned agent is still listed |
| `enforcement` | 248 064 | permits follow people's last words; a decommissioned agent is refused from the first deletion |
| `sessions` | 768 287 | two requests at once: tokens renewed in time, new ids for logins, sign-out within a token's lifetime |
| `routes` | 1 716 | any order of the rules decides the same; narrower rules decide; refusals justified |
| `mesh` | 232 488 | every hop authorized by the policy; doors, agents, telemetry and answers; every click answered |
| `lifecycle` | 315 952 | no device unowned; success true and live; documents served; waits end |
| `sessions_outage` | violation | a token endpoint that does not answer costs the session |
| `sessions_sign_out` | violation | another host's session outlives the sign-out |

**decision.** Three documents: as deployed; reworked (agent unbound, profile
made step-up, console for sessions only); offboarded (no agent, no device, no
consent asked). Requests cover each kind of actor on each kind of rule, from the
right workload, a wrong one and none, with expired, foreign and missing
credentials; all sixteen reasons occur, and people, agents and devices are all
let through somewhere. The graphs are: everything, nothing, everything less any
one relationship, and less the pairs that make two questions of one plan fail.
One call is enough: calls share nothing but what the environment changes
arbitrarily anyway, and the theorems hold for any set of calls.

**account_console.** One person, agent, device and application, two
capabilities of which one is sensitive, two handlers. Lifetimes 0, 1 and 3 with
a day of 2 give a default, a legal and an excessive one. `LastWrite` and
`MaxTime` bound the clock: the last write of a delegation leaves it room to
lapse, without which `DelegationsLapse` would fail for want of time and not of
expiry. One person suffices because every update names its person in the object
id; the theorems cover any number.

**enforcement.** One route that demands consent of an application and a
delegation of an agent, one handler and one call, two documents with and without
the agent. `Worlds` is empty: the graph is written by the console alone. Two
handlers or two calls are beyond a run; the theorems hold for any number.

**sessions.** One host, two requests, two ids and one login; a token of 2 ticks,
renewed 1 before its end, calls of 1, a session of 3, a clock of 4. That is
enough for a refresh that begins at the end of a session's life and ends after
it, for two logins over one cookie, and for a token to be renewed twice. A third
id (5.8 million states) and a second host (2.2 million) add no other order of
the steps on one session; what a second host does to this one is `Expire`. The
run of `sessions_sign_out` has two hosts and one request. States are explored up
to symmetry of ids and requests; no liveness is checked there.

**routes.** All documents of two rules out of a pool of 27, in both orders:
every shape of path up to three segments with and without wildcard and final
slash, and scopes of hosts and methods in either case, alone and together, on
two paths; five rules for devices in threes; and each kind of malformed segment.
Requests run over every host, method and path of up to three words (`MaxParts`),
and over doubled slashes and queries besides; one host, one method and one word
are in no rule. Two rules are enough for ambiguity, three for an order that is
not just a swap; a path longer than the rules' adds nothing, since only their
length counts.

**mesh.** One home, a lock and a sensor, an owner who has stepped up and a guest
who has not, an agent that both have enrolled and delegated to, two clicks
and an agent's task of two steps (read the profile, unlock the door), the second
of which every agent must be refused. `c1` runs the task or reports a reading,
`c2` unlocks or reports for the sensor itself or for the lock. profile-service
has no record of the guest (`Profiles`). The relationships change at any moment
among three graphs: everything; the owner made a guest, without her delegations;
sensor and agent decommissioned, which leaves the agent's delegations. The cap
of telemetry is 1, so that two readings exceed it. Setting a state and locking
are in the model and not in this instance: they differ from unlocking in the
rule only. One document is served; swaps are `decision`'s.

**lifecycle.** A device that is new and an agent that is deployed, a job for
each, two commands and one edit by hand in all. Two commands give: the same
again after a failure, off after on, on after off, and two at once; one edit
gives a document that cannot be used before, between or after them.

### Properties

`DecisionTypeOK`, `ConsoleTypeOK`, `EnforcementTypeOK`, `SessionsTypeOK`,
`RoutesTypeOK`, `MeshTypeOK` and `LifecycleTypeOK` are the type invariants; the
first also says that only "permitted" lets through and that what is asked was
left open by the gates, that of sessions that only a logged-in one is refreshed,
that of routes that no parameter is ever blank, that of the lifecycle that
nothing is served that does not load. The others are stated with the behaviour
of the code they are about above each definition. `ChallengesSuffice`,
`ConsentLastWord`, `DelegationLastWord`, `DecommissionedAgentRefused`,
`SignOutTakesHold`, `EveryHopAuthorized`, `DoorsOpenForTheirOwners`,
`TelemetryIsOwn`, `SuccessIsTrue` and `SuccessIsLive` are action properties: they say what a step may not do in
the state it is taken in.

### Fairness

`EveryCallAnswered` assumes weak fairness of `Gate` (a goroutine runs on) and of
`Conclude`, any end of the bulk check: `CheckBulk` runs under
`context.WithTimeout` (`spicedb.go:125`), so a call ends although SpiceDB never
answers. Nothing is assumed of SpiceDB or of `Permit`. `DelegationsLapse`
assumes only that time passes (`Tick`): no person and no handler has to act.

`EveryClickAnswered` assumes that a click moves on when it is somewhere on its
way: Envoy answers a request whose check fails or takes two seconds
(`istio/istio.yaml:37`, with `failOpen` off), and the clients of `svc.go:89`, of
the simulator and of browsers give up. Of the services called, of agent-runner
and of Keycloak nothing is assumed: each may hang for ever.

`UntriedIsServed` assumes weak fairness of ext-authz's own steps: it is started
again by Kubernetes when it is down, `waitForIssuer` ends, `time.Tick` ticks.
It may be stopped over and over, and the kubelet need not copy anything.
`EveryWaitEnds` assumes that a waiting command tries again (thirty times, five
seconds apart); no reload has to come.

### Deadlock

The console and the composed model stop when the clock does and every handler is
idle with nothing that would change the state; `CHECK_DEADLOCK FALSE` there is
for that bound. So does `lifecycle` when no command and no edit is left and
ext-authz cannot start from a broken document. The decision, sessions and
routes runs are checked for deadlock; in `mesh` the world can always change, so
that the check says nothing there.

## 4. What the code does otherwise than it says

1. `validate` accepts `stepUp` on a rule that is `authenticatedOnly` (or
   public) and the pipeline permits such a rule before the step-up gate,
   against "An agent can never satisfy it" (`config.go:159`).
   Run `decision_stepup_page`. No deployed rule is of that kind.
2. Decommissioning a device from the console leaves
   `device#self@system_principal`: the device may still push telemetry and has
   no operator, against `writer.go:430-435` and `docs/agent-identity.md:28`.
   Run `console_unowned`.
3. Decommissioning an agent leaves the `granted` relationships by which the
   account page lists it, against `writer.go:450-453`; `lifecycle.sh:313` does
   the same. Run `console_decommission`. The agent is nevertheless refused
   everything, which `DecommissionedAgentRefused` shows.
4. A refresh that gets no answer deletes the session like one that is refused,
   so an outage of Keycloak ends every session in use within five minutes,
   against "degrades new logins rather than all traffic" (`oidcauth.go:9`).
   Run `sessions_outage`.
5. Signing out at one host leaves the sessions of the others for up to five
   minutes, against "Sign out from either app -> both require login again"
   (`demo.sh:101`). Run `sessions_sign_out`; the bound is `SignOutTakesHold`.

Met while modelling and not the subject of a run:

- An edit of the document while ext-authz waits for Keycloak is fingerprinted as
  installed (`cmd/ext-authz/main.go:159`) and not served until the file changes
  again; so is a document that was loaded while another was fingerprinted and
  comes back before the next tick. `UntriedIsServed` has to leave both out.
- `wait_for_reload` accepts any reload since the mark, also one of a change that
  was pending before. And the mark is cut to whole seconds of the operator's
  clock (`lifecycle.sh:148`) while `--since-time` (`:155`) includes it, so that
  a reload of the same second before the mark, or of earlier seconds if that
  clock is behind, counts too. Both are against "waits for a reload that
  happened *after* the change was made" (`lifecycle.sh:141`) and against the
  lesson of `docs/implementation-notes.md`, section 14. `SuccessIsLive` has to
  leave both out (`quiet`): there success is reported and the change may not be
  live.
- A command repeated after a failure changes nothing in
  the document, so no reload comes and it dies with "the registry change is not
  live" although it is, against "idempotent in the way that matters"
  (`docs/lifecycle.md:58`); a restart of ext-authz, which also makes the change
  live, empties the log and has the same effect.
- Two `patch_registry` at once lose an entry, both reporting success
  (`lifecycle.sh:109-139`).
- `offboard_agent` reports "powerless" whatever became of its deletions
  (`lifecycle.sh:312-314`), and checks nothing, where `offboard_device` does. In
  the latter a first deletion that fails and a second that does not leave a
  device that acts unowned until the command is repeated.
- smarthome-service shows any answer that is not a success as "Denied at the
  internal hop" (`cmd/smarthome-service/main.go:181-184`), and every step of a
  transcript that is not permitted with the pill "refused" (`:243-248`), where
  two reasons do not make it a challenge. That includes a sidecar's 503, a
  timeout of the agent's call and a broken connection, after which the callee may
  have acted or still act: the door can be open behind that page. The file's own
  header says of a denial on an internal hop that it "was produced somewhere
  else, by a decision this process did not make" (`:7-8`). `AnswersAreTrue`
  therefore claims nothing of a denial that does not carry the authorizer's
  reason.
- `kc_disable_client` reports success without looking at the answer.
- A stop between `patch_registry` and the first relationship leaves an identity
  that the authorizer knows and the graph does not, which `inventory` cannot
  see.
- The rule for `POST .../state` asks `operate`, and device-service sets any
  state on any device: a resident can set a lock's state to anything
  (`cmd/device-service/main.go:119-131`), where `ext-authz.yaml` says of
  `operate_lock` that a lock is a different class of object.
- The comment at `routes.go:82-83` says that `/static/*` never beats
  `/static/logo.png`: with a method scope, 1095 against 200, it does. And ten
  literal segments weigh as much as a method. Neither breaks
  `NarrowerRuleDecides`, since then neither rule is the narrower one.
- `overlaps` (`routes.go:134`) counts `/x` and `/x/y/*` as overlapping although
  no request matches both. No document is refused for it: the wildcard's penalty
  is 5 and everything else counts in tens, so that two such rules never score
  the same (`ScoreTellsWildcards`).
- `Match` cuts the port off a request's host (`routes.go:184`), `compileRule`
  leaves it on a rule's: a rule for a host with a port matches nothing, without
  a word. No deployed rule has one.
- `observe` keeps the token of whichever bulk check ends last, so that the
  freshness floor can go back, against "monotonic freshness across the process
  lifetime" (`internal/spicedb/spicedb.go:83-84`). No deployed rule uses it.

And of the console and sessions: a failed second deletion
cannot be retried, because the operator who would retry it is no longer one; and
`createDelegation` can write a delegation to an agent that has just lost its
enrolment, although `docs/lifecycle.md:103` says the console refuses to. Both
are harmless to calls by `DecommissionedAgentRefused`. The step-up challenge
points to `/reauthenticate` (`pipeline.go:526`), which nothing serves, so that a
person who came in through another host's login (`acr` 0) cannot follow it;
`acr` 1 in turn survives hours of refreshes. Two tabs that log in at once can
end with "state mismatch" in the first, and a logout can be undone by a refresh
that was under way, for the rest of one token's life.

## 5. Proofs

Thirty-three theorems in eight modules. They hold for any number of people,
agents, devices, documents, requests, calls, handlers, hosts, clicks and
commands, and for every value of the bounds, so that they also cover what the
instances of the runs leave out.

### Assumptions

Each is named in the module that declares the constants, and TLC evaluates it
in that module's run.

- Types of constants, and `Never`, `None` outside what they stand apart from
  (`Relationships`, `Registry`, `Decision`, `Reload`, `Sessions`, `Routes`).
- `AccountConsole`, `Enforcement`: a default lifetime within a day
  (`LifetimeAssumption`).
- `Sessions`, `TimesAssumption`: a call to Keycloak takes no longer than the
  skew, the skew less than a token lasts. Ten seconds
  (`cmd/ext-authz/main.go:82`), fifteen (`identity.go:87`) and five minutes as
  deployed.
- `Lifecycle`: a document is a set of names, usable if nothing in it is a
  mistake; no device is an agent.
- `Routes`: literals and parameters do not overlap, nor do they with the other
  kinds of segment. `RequestsAssumption`: anything may be asked for, that is
  every host, method and path of up to `MaxParts` words, once written as `Match`
  compares them. `RulesAssumption`: `MaxParts` words are enough for every rule
  of a document and one more for its wildcards; a host, a method and a word are
  left that it does not mention; its hosts have no port. The first two only keep
  the constants from being too small to tell rules apart, the last is a fact
  about `config/ext-authz.yaml` (see section 4).
- `Mesh`, `RoutesAssumption`: what `config/ext-authz.yaml` demands on the routes
  that `unlock`, telemetry and the steps of a task take inside the mesh, in any
  document that has a rule there (any other rule may be anything). Without it
  nothing can be said of who is let through. `IdentitiesAssumption`: the agent's
  client is nobody else's, and a device's `self` is that device, which is all
  the lifecycle scripts write. `ErrandsAssumption`: an agent's task does not
  start another, and what is asked of a service has an endpoint at the edge.

### Arguments

**Check and Decision** (`CheckProofs`, `DecisionProofs`).

- `TypeCorrect`. Inductive as it stands, because `Flight` says that an asking
  call's verdict is "ask" and that the outcome belongs to the reason.
- `BindingHolds`, `StepUpHolds`. Neither is inductive: a permit given in
  `Conclude` says nothing of the gates. `GateInv` strengthens them: whatever is
  let through on a route that is not public has a verdict of "permitted" or
  "ask" under its own document. `PastTheGates` unfolds such a verdict into the
  gates, once, and the two theorems follow from it.
- `OnlyTheAuthorized` (`CheckProofs`): a verdict of "permitted", or of "ask"
  with a plan whose questions all hold, implies `Authorized`. `PlanHolds` turns
  the questions into the policy's conditions, one case per kind of actor. It
  speaks of one request, one document and one graph and of no state, so that
  `Decision` and `Mesh` can both use it.
- `Implements`. Each action maps to an action of `AccessPolicy` or to a stutter
  (`SeenWorking`, `AnswerSeen`). The core is `OnlyTheAuthorized`;
  `SameAuthorized` says that the instance of the policy authorizes the same.
- `ChallengesTellTheTruth`. A challenge names the first question of the plan
  that fails in the order of `Blocks`; `PlanIs` says which questions there are,
  so that the others hold. Adding the relationship that is asked for makes that
  question hold (`RemedyHolds`) and takes away no permission (`PermittedGrows`:
  the schema has no exclusion), hence `RemedySuffices`, and `OnlyTheAuthorized`
  ends it.

**AccountConsole** (`AccountConsoleProofs`).

- `ConsoleTypeCorrect`: each update yields relationships (`UpdatesTyped`), and
  handlers stay in their states.
- `DelegationsAreBounded`: not inductive, since what is written was checked
  earlier; `BoundedInv` adds `HandlersBounded`, that a handler about to write
  holds only delegatable capabilities and a bounded lifetime.
- `GrantsStayRevocable`: not inductive, since the subject could lapse before
  what it anchors; `Revocable` says that every live grant is anchored
  (`Anchored`) and that anchors have no expiry (`AnchorsLast`). Each update
  preserves it: `TouchRevocable`, `DeleteRevocable`, `UpdatesRevocable`.

**Enforcement** (`EnforcementProofs`). The console of the composition is the
console alone (`ConsoleIsTheConsole`), so `EnforcementTypeCorrect` takes the
console's part from `ConsoleTypeCorrect`. The three action properties follow
from `Ledgers`, which ties what people last said to the graph:
`ConsentLedger` (in both directions, which is why nobody is asked twice),
`EnrolmentLedger` and `DelegationLedger` (each relationship was said, and not
longer ago than its lifetime allows). `DelegationLedger` needs `Prepared`, what
a handler that has checked still holds when it writes. For every action of the
console there is what it writes and what it leaves alone (`Untouched`), so that
most actions need no argument of their own; for the decision point, that a
permit means every question of the plan holds (`Asked`).

**Sessions** (`SessionsProofs`). One invariant, `SessionsInv`, for all four
theorems. No token outlives its login by more than `TokenLife` (`Bounded`, in
the store and in the hands of requests alike, which gives `SignOutIsBounded`
although a refresh may put back what a logout deleted). A session's `expiresAt`
is at most `Timeout` later than its token's (`SessionOK`), because it counts
from the receipt: with `Timeout <= Skew` that gives `TokensRenewedInTime`.
`LoginRenewsIdentifier` needs that no request refreshes a session whose id
another's login waits under (`Apart`).

**Routes** (`RoutesProofs`). `MatchedTwice`: two rules that match one request
overlap in the sense of `checkAmbiguity`; so in a document that is served they
differ in score, and the rule in front, which exists by a least counterexample
over the naturals (`OneIsForemost`), is the same in any order:
`OrderIsIrrelevant`. `NarrowerIsHeard` says syntactically what a narrower rule
is (`Narrower`), that it matches less (`NarrowerMatchesLess`) and that it scores
at least as high (`NarrowerScoresAsHigh`), for any number of segments: no
bonus or penalty of `Score` outweighs another.

`NarrowerDecides` says the same of requests: `MatchesLessIsNarrower` is the
converse, that a rule all of whose requests another matches is `Narrower` than
it. The requests that show it take the first rule's literals where it has them
and the word nobody mentions elsewhere (`Arrives`: each of them does arrive), and
so on for hosts and methods. `RefusalsAreDeserved` builds the request that two
rules of equal score both match, a literal of either where there is one, where
`overlaps` says that they overlap (`OverlapIsMatched`, `InBothScopes`) and
neither or both have a wildcard (`ScoreTellsWildcards`). `RoutesTypeCorrect`
rests on `NonBlanksAre`: as many members as there are parts that are not blank,
each of them one of those. That every number up to theirs is the rank of one is
shown by a least counterexample, which needs no induction.

**Mesh** (`MeshProofs`). `EveryHopIsAuthorized` crosses components: only
`PassGateway` and `PassService` take a click past a hop (`ClickMoves`) and only
`Pass` puts a passed call on the wire (`PassedIs`), each of them by `Passes`,
and what passes is authorized by `OnlyTheAuthorized`. It needs the types and
that no telemetry stands before smarthome-service (`NoPushServed`). `MeshInv` holds together a click, its task and its
calls on the wire. A call exists only when its click or task has got there
(`Reached`), once per step (`Alone`), carries the token of whoever clicked
(`CallOK`), and once past a sidecar would be let through in some document and
the graph that this sidecar saw (`Checked`). What a caller was told agrees with
what has had an effect (`TruthOK`). `ToldTheTruth` is a part of it;
`AgentServesTheAsker`, `DoorsAreTheirOwners` and `ReadingsAreOwn` unfold
`Checked` under `RoutesAssumption`. A refusal with the authorizer's reason comes
only from a call that went no further than a sidecar, or from a hop before any
call was made; of a denial without one nothing is claimed, since `GiveUp` and
`StepFails` tell it of calls that go on. The attempts changed two properties:
`DoorsOpenForTheirOwners` spoke of every step that leaves a lock unlocked, and a
push about a lock that is open already is such a step; it now speaks of the step
that unlocks. `TelemetryIsOwn` now also says that the device was in service in
the world its sidecar saw.

**Lifecycle** (`LifecycleProofs`). `AuthorityInv` adds to the two invariants
what a command past a line may rely on (`PastItsLines`): which relationships
each line has written or removed, and where a failed deletion excuses it. It
gives `OperatorsAnswer`, `AuthorityGoesFirst` and `SuccessWasTrue`; the last
needs the excuse for `offboard_agent` only, the one command that says it has
deleted without having looked.
`SuccessIsServed` needs the process of ext-authz: `ReloadInv` says that it
remembers a fingerprint exactly while it watches (`WatchRemembers`) and, of a
command that nothing disturbed since its mark, how far its edit has travelled
(`QuietlyApplied`). `quiet` is what that leaves out: something pending at the
mark, a reload that the mark does not stand after, another writing since.

### Only model-checked

Every invariant and every action property of a passing run is proved. What is
left to TLC:

- Liveness: `EveryCallAnswered`, `DelegationsLapse`, `EveryClickAnswered`,
  `UntriedIsServed`, `EveryWaitEnds`. Fairness and `ENABLED` are out of the
  prover's reach.
- The five violations.

## 6. Plan

Done: all the modules and runs above, and theorems for every safety property the
runs check.

Next, most important first:

1. `Reload` alone: what is served was the file's content at some moment since
   the start, for any file.
2. Permissions over the hops: that a click whose every hop is authorized in one
   unchanging graph is answered "ok" unless something fails, which needs
   fairness of the services called.
3. `Freshness`: `observe` and `consistency` under concurrent checks, with the
   comment at `spicedb.go:81-86` as the property. No deployed rule uses
   `at_least_as_fresh`, so it comes last.

Not to be modelled: token signatures and Keycloak itself, Envoy and Istio beyond
what a hop is, the pages' rendering, the verification suite and the installation
scripts (pure input and output), the ring buffer of the decision log (one mutex
around a bounded list, read for demonstration).
