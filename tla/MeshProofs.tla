-------------------------------- MODULE MeshProofs -----------------------------
(***************************************************************************)
(* Theorems about a click on its way through the mesh, for every set of    *)
(* clicks, configurations, graphs and errands that the assumptions of Mesh *)
(* admit: its type invariant, that a success and a refusal with a reason   *)
(* are true, that the agent serves whoever asked, whose doors are opened   *)
(* and whose readings are kept, and that the policy authorizes every hop.  *)
(***************************************************************************)
EXTENDS Mesh, CheckProofs, SequenceTheorems, TLAPS

-----------------------------------------------------------------------------
(* The invariant: types.                                                   *)

Stages == {"sent", "passed", "running", "done", "refused", "failed"}

\* A call on the wire.
Carried ==
  [click : Clicks, step : 0..Len(Task), source : Workloads, bearer : Token,
   ask : Errand, stage : Stages, user : Users \cup Devices \cup {None},
   seen : SUBSET Relationship]

Clicked ==
  [stage : {"gateway", "service", "waiting", "answered"},
   ask : UNION {Asks[c] : c \in Clicks}, token : Sessions,
   told : Answers \cup {"nothing"}]

Doing ==
  [stage : {"exchanging", "ready", "waiting", "ended"}, token : Token,
   told : Seq(Answers)]

Thing ==
  [state : {InitialState[d] : d \in DOMAIN InitialState}
             \cup {"unlocked", "locked", "23C"},
   by : Users \cup Devices \cup {None}, reading : BOOLEAN]

Typed ==
  /\ graph \in Worlds /\ snapshot \in Configs
  /\ click \in [Clicks -> {Idle} \cup Clicked]
  /\ runner \in [Clicks -> {Idle} \cup Doing]
  /\ wire \subseteq Carried
  /\ device \in [DOMAIN InitialState -> Thing]
  /\ telemetry \in Seq([device : ObjectIds \cup {None},
                        principal : Users \cup Devices \cup {None}])
  /\ Len(telemetry) <= TelemetryCap
  /\ acted \subseteq Clicks \X (0..Len(Task))

-----------------------------------------------------------------------------
(* The invariant: who has come how far.                                    *)

\* The step of the click has been taken: its call has been sent, or no longer
\* will be.
Reached(c, i) ==
  IF i = 0 THEN click[c].stage \in {"waiting", "answered"}
  ELSE /\ runner[c].stage # "idle"
       /\ \/ i <= Len(runner[c].told)
          \/ runner[c].stage = "waiting" /\ i = Len(runner[c].told) + 1

ClickOK(c) ==
  click[c].stage \in {"gateway", "service", "waiting"} =>
    click[c].told = "nothing"

RunnerOK(c) ==
  runner[c].stage # "idle" =>
    /\ click[c].stage \in {"waiting", "answered"}
    /\ Len(runner[c].told) <= Len(Task)
    /\ runner[c].stage = "waiting" => Len(runner[c].told) < Len(Task)
    /\ runner[c].token.sub = click[c].token.sub
    /\ runner[c].stage \in {"ready", "waiting"} =>
         runner[c].token.azp = AgentClient

\* Who passed had been asked about, in some configuration and with the
\* relationships it has seen.
Admitted(cfg, w) ==
  LET verdict == Verdict(cfg, AtCallee(w)) IN
  \/ verdict = "permitted"
  \/ /\ verdict = "ask"
     /\ \A q \in Plan(cfg, AtCallee(w)) : Holds(q, w.seen)

Checked(w) ==
  \E cfg \in Configs :
    /\ w.user = FromClaims(cfg, w.bearer).subject
    /\ Admitted(cfg, w)

CallOK(w) ==
  /\ Reached(w.click, w.step)
  /\ w.step > 0 => /\ w.ask.kind = Task[w.step].kind
                   /\ w.bearer.azp = AgentClient
  /\ w.bearer.sub = click[w.click].token.sub
  /\ w.step = 0 /\ w.stage \in {"sent", "passed"} =>
       runner[w.click].stage = "idle"
  /\ w.stage = "running" => w.step = 0
  /\ w.stage = "done" <=> <<w.click, w.step>> \in acted
  /\ w.stage = "passed" => Checked(w) /\ w.seen \in Worlds

Alone == \A v, w \in wire : v.click = w.click /\ v.step = w.step => v = w

Told(c, i) ==
  IF i = 0 THEN IF click[c].stage = "idle" THEN "nothing" ELSE click[c].told
  ELSE IF runner[c].stage # "idle" /\ i <= Len(runner[c].told)
       THEN runner[c].told[i]
       ELSE "nothing"

TruthOK(c, i) ==
  /\ Told(c, i) = "ok" => <<c, i>> \in acted
  /\ Told(c, i) = "refused" =>
       /\ <<c, i>> \notin acted
       /\ \A w \in wire : ~(w.click = c /\ w.step = i)

MeshInv ==
  /\ Typed
  /\ \A c \in Clicks : ClickOK(c) /\ RunnerOK(c)
  /\ \A w \in wire : CallOK(w)
  /\ Alone
  /\ \A c \in Clicks, i \in 0..Len(Task) :
       TruthOK(c, i) /\ (<<c, i>> \in acted => Reached(c, i))

-----------------------------------------------------------------------------
(* What the parts of the invariant say of one click, one task, one call.   *)

\* A click that is under way has its fields.
LEMMA ClickIs ==
  ASSUME Typed, NEW c \in Clicks, click[c].stage # "idle"
  PROVE  click[c] \in Clicked
BY DEF Typed, Idle

\* A task that is under way has its fields.
LEMMA RunnerIs ==
  ASSUME Typed, NEW c \in Clicks, runner[c].stage # "idle"
  PROVE  runner[c] \in Doing
BY DEF Typed, Idle

\* The answers that are given.
LEMMA TellIs ==
  ASSUME Typed, NEW c \in Clicks, NEW answer \in Answers,
         click[c].stage # "idle", Tell(c, answer)
  PROVE  /\ click' \in [Clicks -> {Idle} \cup Clicked]
         /\ click'[c].stage = "answered" /\ click'[c].told = answer
         /\ click'[c].token = click[c].token
         /\ \A d \in Clicks : d # c => click'[d] = click[d]
<1>1. PICK k : k = click[c]
  OBVIOUS
<1>2. PICK l : l = [k EXCEPT !.stage = "answered", !.told = answer]
  OBVIOUS
<1>3. l \in Clicked /\ l.stage = "answered" /\ l.told = answer
      /\ l.token = k.token
  BY <1>1, <1>2, ClickIs DEF Clicked
<1>4. click' = [click EXCEPT ![c] = l]
  BY <1>1, <1>2 DEF Tell
<1> QED
  BY <1>1, <1>3, <1>4 DEF Typed

\* What a recorded answer does to a task.
LEMMA RecordIs ==
  ASSUME Typed, NEW c \in Clicks, NEW answer \in Answers,
         runner[c].stage # "idle", Record(c, answer)
  PROVE  /\ runner' \in [Clicks -> {Idle} \cup Doing]
         /\ runner'[c].stage = "ready"
         /\ runner'[c].told = Append(runner[c].told, answer)
         /\ runner'[c].token = runner[c].token
         /\ \A d \in Clicks : d # c => runner'[d] = runner[d]
<1>1. PICK k : k = runner[c]
  OBVIOUS
<1>2. PICK l : l = [k EXCEPT !.stage = "ready", !.told = Append(@, answer)]
  OBVIOUS
<1>3. k \in Doing
  BY <1>1, RunnerIs
<1>4. Append(k.told, answer) \in Seq(Answers)
  BY <1>3 DEF Doing
<1>5. l \in Doing /\ l.stage = "ready" /\ l.told = Append(k.told, answer)
      /\ l.token = k.token
  BY <1>2, <1>3, <1>4 DEF Doing
<1>6. runner' = [runner EXCEPT ![c] = l]
  BY <1>1, <1>2 DEF Record
<1> QED
  BY <1>1, <1>5, <1>6 DEF Typed

\* The target of a call for one's own profile is oneself.
LEMMA AskedIs ==
  ASSUME NEW ask \in Errand, NEW t \in Token
  PROVE  /\ Asked(ask, t) \in Errand
         /\ Asked(ask, t).kind = ask.kind
BY DEF Asked, Errand, Token, ObjectIds

\* A call, when it is sent.
LEMMA CallIs ==
  ASSUME NEW c \in Clicks, NEW i \in 0..Len(Task), NEW ask \in Errand,
         NEW source \in Workloads, NEW t \in Token
  PROVE  LET w == Call(c, i, ask, source, t) IN
         /\ w \in Carried /\ w.click = c /\ w.step = i /\ w.bearer = t
         /\ w.stage = "sent" /\ w.ask.kind = ask.kind
<1>1. Asked(ask, t) \in Errand /\ Asked(ask, t).kind = ask.kind
  BY AskedIs
<1>2. NoWorld \in SUBSET Relationship /\ "sent" \in Stages
  BY DEF NoWorld, Stages
<1> QED
  BY <1>1, <1>2 DEF Call, Carried

\* A call whose stage has changed is the same call.
LEMMA StagedIs ==
  ASSUME NEW w \in Carried, NEW stage \in Stages
  PROVE  LET v == [w EXCEPT !.stage = stage, !.seen = NoWorld] IN
         /\ v \in Carried /\ v.click = w.click /\ v.step = w.step
         /\ v.bearer = w.bearer /\ v.ask = w.ask /\ v.source = w.source
         /\ v.stage = stage
<1>1. NoWorld \in SUBSET Relationship
  BY DEF NoWorld
<1> QED
  BY <1>1 DEF Carried

\* Who was let through, and what was seen of the world.
LEMMA IdentityIs ==
  ASSUME NEW cfg \in Configs, NEW t \in Token
  PROVE  FromClaims(cfg, t).subject \in Users \cup Devices \cup {None}
<1>1. t.sub \in Users /\ t.azp \in Clients
  BY DEF Token
<1>2. DeviceOf(cfg, t.azp) \in Devices \cup {None}
  BY <1>1, ConfigAssumption DEF DeviceOf, Config
<1> QED
  BY <1>1, <1>2 DEF FromClaims, DeviceOf

-----------------------------------------------------------------------------
(* What a step leaves alone.                                               *)

\* The click and the task still stand at least where they stood.
Stands(c) ==
  /\ click[c].stage \in {"waiting", "answered"} =>
       /\ click'[c].stage \in {"waiting", "answered"}
  /\ click[c].stage # "idle" => click'[c].token = click[c].token
  /\ runner[c].stage # "idle" =>
       /\ runner'[c].stage # "idle"
       /\ \A i \in 1..Len(Task) :
            Reached(c, i) => Reached(c, i)'

\* What has been reached stays reached.
LEMMA ReachedStands ==
  ASSUME NEW c \in Clicks, NEW i \in 0..Len(Task), Stands(c), Reached(c, i)
  PROVE  Reached(c, i)'
BY DEF Stands, Reached

\* A call that has not changed, of a click that stands.
LEMMA CallStands ==
  ASSUME MeshInv, NEW w \in wire, Stands(w.click),
         w.step = 0 /\ w.stage \in {"sent", "passed"} =>
           runner'[w.click].stage = runner[w.click].stage,
         <<w.click, w.step>> \in acted' <=> <<w.click, w.step>> \in acted
  PROVE  CallOK(w)'
<1>1. CallOK(w) /\ w \in Carried
  BY DEF MeshInv, Typed
<1>2. w.click \in Clicks /\ w.step \in 0..Len(Task)
  BY <1>1 DEF Carried
<1>3. Reached(w.click, w.step)'
  BY <1>1, <1>2, ReachedStands DEF CallOK
<1>4. click[w.click].stage # "idle"
  BY <1>1, <1>2 DEF CallOK, Reached, MeshInv, RunnerOK
<1>5. click'[w.click].token = click[w.click].token
  BY <1>4 DEF Stands
<1> QED
  BY <1>1, <1>3, <1>5 DEF CallOK

\* What has been told stands, while nothing is done and no call is added.
LEMMA TruthStands ==
  ASSUME MeshInv, NEW c \in Clicks, NEW i \in 0..Len(Task),
         Told(c, i)' = Told(c, i),
         <<c, i>> \in acted' <=> <<c, i>> \in acted,
         \A w \in wire' : w.click = c /\ w.step = i =>
           \E v \in wire : v.click = c /\ v.step = i
  PROVE  TruthOK(c, i)'
BY DEF MeshInv, TruthOK

\* One call takes the place of another.
LEMMA AloneReplaced ==
  ASSUME MeshInv, NEW w \in wire, NEW v,
         v.click = w.click, v.step = w.step, wire' = (wire \ {w}) \cup {v}
  PROVE  Alone'
BY DEF MeshInv, Alone

\* A step that adds no call and does nothing.
LEMMA InvStands ==
  ASSUME MeshInv, Typed', wire' \subseteq wire, acted' = acted,
         \A c \in Clicks :
           /\ Stands(c) /\ ClickOK(c)' /\ RunnerOK(c)'
           /\ runner[c].stage = "idle" => runner'[c].stage = "idle",
         \A c \in Clicks, i \in 0..Len(Task) : TruthOK(c, i)'
  PROVE  MeshInv'
<1>1. ASSUME NEW w \in wire' PROVE CallOK(w)'
  <2>1. w \in wire /\ w \in Carried /\ CallOK(w)
    BY DEF MeshInv, Typed
  <2>2. w.click \in Clicks
    BY <2>1 DEF Carried
  <2> QED
    BY <2>1, <2>2, CallStands DEF CallOK
<1>2. Alone'
  BY DEF MeshInv, Alone
<1>3. ASSUME NEW c \in Clicks, NEW i \in 0..Len(Task), <<c, i>> \in acted'
      PROVE  Reached(c, i)'
  BY <1>3, ReachedStands DEF MeshInv
<1> QED
  BY <1>1, <1>2, <1>3 DEF MeshInv

\* A step that replaces a call, and may have done what it asked.
LEMMA InvReplaced ==
  ASSUME MeshInv, Typed',
         NEW w \in wire, NEW v, v.click = w.click, v.step = w.step,
         wire' = (wire \ {w}) \cup {v}, CallOK(v)',
         acted \subseteq acted',
         \A c \in Clicks, i \in 0..Len(Task) : <<c, i>> \in acted' =>
           <<c, i>> \in acted \/ (c = w.click /\ i = w.step),
         \A c \in Clicks :
           /\ Stands(c) /\ ClickOK(c)' /\ RunnerOK(c)'
           /\ c # w.click => runner'[c].stage = runner[c].stage,
         \A c \in Clicks, i \in 0..Len(Task) : Told(c, i)' = Told(c, i),
         w.step > 0 => runner'[w.click].stage = runner[w.click].stage
  PROVE  MeshInv'
<1>1. ASSUME NEW u \in wire' PROVE CallOK(u)'
  <2>1. CASE u = v
    BY <2>1
  <2>2. CASE u # v
    <3>1. u \in wire /\ u \in Carried /\ CallOK(u) /\ u # w
          /\ w \in Carried
      BY <2>2 DEF MeshInv, Typed
    <3>2. ~(u.click = w.click /\ u.step = w.step)
      BY <3>1 DEF MeshInv, Alone
    <3>3. u.click \in Clicks /\ u.step \in 0..Len(Task)
          /\ w.step \in 0..Len(Task)
      BY <3>1 DEF Carried
    <3>4. <<u.click, u.step>> \in acted' <=> <<u.click, u.step>> \in acted
      BY <3>2, <3>3
    <3>5. u.step = 0 => runner'[u.click].stage = runner[u.click].stage
      <4>1. CASE u.click = w.click
        BY <4>1, <3>2, <3>3
      <4>2. CASE u.click # w.click
        BY <4>2, <3>3
      <4> QED
        BY <4>1, <4>2
    <3> QED
      BY <3>1, <3>3, <3>4, <3>5, CallStands
  <2> QED
    BY <2>1, <2>2
<1>2. Alone'
  BY AloneReplaced
<1>3. ASSUME NEW c \in Clicks, NEW i \in 0..Len(Task)
      PROVE  TruthOK(c, i)' /\ (<<c, i>> \in acted' => Reached(c, i)')
  <2>1. CASE c = w.click /\ i = w.step
    <3>1. Told(c, i)' # "refused"
      BY <2>1, <1>3 DEF MeshInv, TruthOK
    <3>2. Told(c, i)' = "ok" => <<c, i>> \in acted'
      BY <1>3 DEF MeshInv, TruthOK
    <3>3. Reached(c, i)'
      BY <2>1, <1>3, ReachedStands DEF MeshInv, CallOK
    <3> QED
      BY <3>1, <3>2, <3>3 DEF TruthOK
  <2>2. CASE ~(c = w.click /\ i = w.step)
    <3>1. <<c, i>> \in acted' <=> <<c, i>> \in acted
      BY <2>2, <1>3
    <3>2. \A u \in wire' : u.click = c /\ u.step = i =>
            \E x \in wire : x.click = c /\ x.step = i
      BY <2>2
    <3>3. TruthOK(c, i)'
      BY <3>1, <3>2, <1>3, TruthStands
    <3> QED
      BY <3>1, <3>3, <1>3, ReachedStands DEF MeshInv
  <2> QED
    BY <2>1, <2>2
<1> QED
  BY <1>1, <1>2, <1>3 DEF MeshInv

\* A step that sends a call, of a step that had not been reached.
LEMMA InvAdded ==
  ASSUME MeshInv, Typed', NEW v, v.click \in Clicks,
         v.step \in 0..Len(Task), wire' = wire \cup {v}, CallOK(v)',
         ~Reached(v.click, v.step), Told(v.click, v.step)' = "nothing",
         acted' = acted,
         \A c \in Clicks :
           /\ Stands(c) /\ ClickOK(c)' /\ RunnerOK(c)'
           /\ runner[c].stage = "idle" => runner'[c].stage = "idle",
         \A c \in Clicks, i \in 0..Len(Task) : Told(c, i)' = Told(c, i)
  PROVE  MeshInv'
<1>1. ASSUME NEW u \in wire' PROVE CallOK(u)'
  <2>1. CASE u = v
    BY <2>1
  <2>2. CASE u # v
    <3>1. u \in wire /\ u \in Carried /\ CallOK(u)
      BY <2>2 DEF MeshInv, Typed
    <3>2. u.click \in Clicks
      BY <3>1 DEF Carried
    <3> QED
      BY <3>1, <3>2, CallStands DEF CallOK
  <2> QED
    BY <2>1, <2>2
<1>2. \A u \in wire : ~(u.click = v.click /\ u.step = v.step)
  BY DEF MeshInv, CallOK
<1>3. Alone'
  BY <1>2 DEF MeshInv, Alone
<1>4. ASSUME NEW c \in Clicks, NEW i \in 0..Len(Task)
      PROVE  TruthOK(c, i)' /\ (<<c, i>> \in acted' => Reached(c, i)')
  <2>1. <<c, i>> \in acted' => Reached(c, i)'
    BY <1>4, ReachedStands DEF MeshInv
  <2>2. CASE c = v.click /\ i = v.step
    BY <2>1, <2>2 DEF TruthOK
  <2>3. CASE ~(c = v.click /\ i = v.step)
    <3>1. \A u \in wire' : u.click = c /\ u.step = i =>
            \E x \in wire : x.click = c /\ x.step = i
      BY <2>3
    <3> QED
      BY <2>1, <3>1, <1>4, TruthStands
  <2> QED
    BY <2>2, <2>3
<1> QED
  BY <1>1, <1>3, <1>4 DEF MeshInv

-----------------------------------------------------------------------------
(* From the browser to the service.                                        *)

\* Only a click that has been passed on has a task or a call.
LEMMA NotYet ==
  ASSUME MeshInv, NEW c \in Clicks,
         click[c].stage \notin {"waiting", "answered"}
  PROVE  /\ runner[c].stage = "idle"
         /\ ~Reached(c, 0)
         /\ \A w \in wire : w.click # c
<1>1. runner[c].stage = "idle"
  BY DEF MeshInv, RunnerOK
<1>2. ~Reached(c, 0)
  BY DEF Reached
<1>3. ASSUME NEW w \in wire, w.click = c PROVE FALSE
  <2>1. Reached(c, w.step)
    BY <1>3 DEF MeshInv, CallOK
  <2> QED
    BY <1>1, <2>1 DEF Reached
<1> QED
  BY <1>1, <1>2, <1>3

\* A click that moves towards the services disturbs nothing behind them.
LEMMA FrontStands ==
  ASSUME MeshInv, NEW c \in Clicks, UNCHANGED runner,
         \A d \in Clicks : d # c => click'[d] = click[d],
         click'[c].stage # "idle",
         click[c].stage \in {"waiting", "answered"} =>
           click'[c].stage \in {"waiting", "answered"},
         click[c].stage # "idle" => click'[c].token = click[c].token,
         ClickOK(c)'
  PROVE  \A d \in Clicks :
           /\ Stands(d) /\ ClickOK(d)' /\ RunnerOK(d)'
           /\ runner'[d].stage = runner[d].stage
<1> SUFFICES ASSUME NEW d \in Clicks
             PROVE  Stands(d) /\ ClickOK(d)' /\ RunnerOK(d)'
  OBVIOUS
<1>1. Stands(d)
  BY DEF Stands, Reached
<1>2. ClickOK(d)'
  BY DEF MeshInv, ClickOK
<1>3. RunnerOK(d)'
  BY DEF MeshInv, RunnerOK
<1> QED
  BY <1>1, <1>2, <1>3

\* Being told changes what is told to the browser, and nothing else.
LEMMA FrontTruth ==
  ASSUME MeshInv, NEW c \in Clicks, UNCHANGED <<runner, acted>>,
         wire' \subseteq wire,
         \A d \in Clicks : d # c => click'[d] = click[d],
         TruthOK(c, 0)'
  PROVE  \A d \in Clicks, i \in 0..Len(Task) : TruthOK(d, i)'
<1> SUFFICES ASSUME NEW d \in Clicks, NEW i \in 0..Len(Task)
             PROVE  TruthOK(d, i)'
  OBVIOUS
<1>1. CASE d = c /\ i = 0
  BY <1>1
<1>2. CASE ~(d = c /\ i = 0)
  <2>1. Told(d, i)' = Told(d, i)
    BY <1>2 DEF Told
  <2> QED
    BY <2>1, TruthStands
<1> QED
  BY <1>1, <1>2

\* A browser or a device sends.
LEMMA SendKeeps ==
  ASSUME MeshInv, NEW c \in Clicks, NEW ask \in Asks[c], NEW t \in Sessions,
         Send(c, ask, t)
  PROVE  MeshInv'
<1>1. PICK k : k = [stage |-> "gateway", ask |-> ask, token |-> t,
                    told |-> "nothing"]
  OBVIOUS
<1>2. k \in Clicked
  BY <1>1 DEF Clicked
<1>3. click' = [click EXCEPT ![c] = k] /\ click[c].stage = "idle"
  BY <1>1 DEF Send
<1>4. /\ click' \in [Clicks -> {Idle} \cup Clicked] /\ click'[c] = k
      /\ \A d \in Clicks : d # c => click'[d] = click[d]
  BY <1>2, <1>3 DEF MeshInv, Typed
<1>5. Typed'
  BY <1>4 DEF Send, world, services, MeshInv, Typed
<1>6. ClickOK(c)'
  BY <1>1, <1>4 DEF ClickOK
<1>7. \A d \in Clicks :
        /\ Stands(d) /\ ClickOK(d)' /\ RunnerOK(d)'
        /\ runner'[d].stage = runner[d].stage
  BY <1>1, <1>3, <1>4, <1>6, FrontStands DEF Send, services
<1>8. TruthOK(c, 0)'
  BY <1>1, <1>4 DEF TruthOK, Told
<1>9. \A d \in Clicks, i \in 0..Len(Task) : TruthOK(d, i)'
  BY <1>4, <1>8, FrontTruth DEF Send, services
<1> QED
  BY <1>5, <1>7, <1>9, InvStands DEF Send, services

\* Whoever is refused before any call was made for her, or gives up waiting.
LEMMA TellKeeps ==
  ASSUME MeshInv, NEW c \in Clicks, TurnAway(c) \/ GiveUp(c)
  PROVE  MeshInv'
<1>1. PICK answer \in Answers :
        /\ Tell(c, answer)
        /\ answer # "ok"
        /\ answer = "refused" => click[c].stage \in {"gateway", "service"}
        /\ click[c].stage # "idle"
        /\ UNCHANGED <<world, wire, services>>
  BY DEF TurnAway, GiveUp, Answers
<1>2. /\ click' \in [Clicks -> {Idle} \cup Clicked]
      /\ click'[c].stage = "answered" /\ click'[c].told = answer
      /\ click'[c].token = click[c].token
      /\ \A d \in Clicks : d # c => click'[d] = click[d]
  BY <1>1, TellIs DEF MeshInv
<1>3. UNCHANGED <<graph, snapshot, wire, runner, device, telemetry, acted>>
  BY <1>1 DEF world, services
<1>4. Typed'
  BY <1>2, <1>3 DEF MeshInv, Typed
<1>5. ClickOK(c)'
  BY <1>2 DEF ClickOK
<1>6. \A d \in Clicks :
        /\ Stands(d) /\ ClickOK(d)' /\ RunnerOK(d)'
        /\ runner'[d].stage = runner[d].stage
  BY <1>2, <1>3, <1>5, FrontStands
<1>7. TruthOK(c, 0)'
  <2>1. Told(c, 0)' = answer
    BY <1>2 DEF Told
  <2>2. CASE answer = "refused"
    <3>1. \A w \in wire : w.click # c
      BY <1>1, <2>2, NotYet
    <3>2. 0 \in 0..Len(Task) /\ ~Reached(c, 0)
      BY <1>1, <2>2, NotYet DEF Reached
    <3>3. <<c, 0>> \notin acted
      BY <3>2 DEF MeshInv
    <3> QED
      BY <1>3, <2>1, <3>1, <3>3, <2>2 DEF TruthOK
  <2> QED
    BY <1>1, <2>1, <2>2 DEF TruthOK
<1>8. \A d \in Clicks, i \in 0..Len(Task) : TruthOK(d, i)'
  BY <1>2, <1>3, <1>7, FrontTruth
<1> QED
  BY <1>3, <1>4, <1>6, <1>8, InvStands

\* A click that has gone one hop further.
LEMMA OnwardIs ==
  ASSUME Typed, NEW c \in Clicks, NEW stage \in {"service", "waiting"},
         click[c].stage # "idle",
         click' = [click EXCEPT ![c].stage = stage]
  PROVE  /\ click' \in [Clicks -> {Idle} \cup Clicked]
         /\ click'[c].stage = stage /\ click'[c].told = click[c].told
         /\ click'[c].token = click[c].token
         /\ \A d \in Clicks : d # c => click'[d] = click[d]
<1>1. PICK k : k = click[c]
  OBVIOUS
<1>2. PICK l : l = [k EXCEPT !.stage = stage]
  OBVIOUS
<1>3. l \in Clicked /\ l.stage = stage /\ l.told = k.told
      /\ l.token = k.token
  BY <1>1, <1>2, ClickIs DEF Clicked
<1>4. click' = [click EXCEPT ![c] = l]
  BY <1>1, <1>2
<1> QED
  BY <1>1, <1>3, <1>4 DEF Typed

\* The gateway, or the service's sidecar, lets a click through, and the
\* call that it makes is the first of the click.
LEMMA CallOutKeeps ==
  ASSUME MeshInv, NEW c \in Clicks, NEW source \in Workloads,
         click[c].stage \in {"gateway", "service"},
         click' = [click EXCEPT ![c].stage = "waiting"],
         wire' = wire \cup {Call(c, 0, click[c].ask, source, click[c].token)},
         UNCHANGED <<world, services>>
  PROVE  MeshInv'
<1>1. PICK k : k = click[c]
  OBVIOUS
<1>2. k \in Clicked /\ k.told = "nothing"
  BY <1>1, ClickIs DEF MeshInv, ClickOK
<1>3. k.ask \in Errand /\ k.token \in Token
  BY <1>2, ErrandsAssumption DEF Clicked
<1>4. PICK v : v = Call(c, 0, k.ask, source, k.token)
  OBVIOUS
<1>5. 0 \in 0..Len(Task)
  BY ErrandsAssumption
<1>6. /\ v \in Carried /\ v.click = c /\ v.step = 0 /\ v.bearer = k.token
      /\ v.stage = "sent"
  BY <1>3, <1>4, <1>5, CallIs
<1>7. /\ click' \in [Clicks -> {Idle} \cup Clicked]
      /\ click'[c].stage = "waiting" /\ click'[c].told = k.told
      /\ click'[c].token = k.token
      /\ \A d \in Clicks : d # c => click'[d] = click[d]
  BY <1>1, OnwardIs DEF MeshInv
<1>8. UNCHANGED <<graph, snapshot, runner, device, telemetry, acted>>
  BY DEF world, services
<1>9. wire' = wire \cup {v}
  BY <1>1, <1>4
<1>10. Typed'
  BY <1>6, <1>7, <1>8, <1>9 DEF MeshInv, Typed
<1>11. ClickOK(c)'
  BY <1>2, <1>7 DEF ClickOK
<1>12. \A d \in Clicks :
         /\ Stands(d) /\ ClickOK(d)' /\ RunnerOK(d)'
         /\ runner'[d].stage = runner[d].stage
  BY <1>1, <1>7, <1>8, <1>11, FrontStands
<1>13. runner[c].stage = "idle" /\ ~Reached(c, 0)
  BY NotYet
<1>14. CallOK(v)'
  <2>1. <<c, 0>> \notin acted
    BY <1>5, <1>13 DEF MeshInv
  <2> QED
    BY <1>6, <1>7, <1>8, <1>13, <2>1 DEF CallOK, Reached
<1>15. \A d \in Clicks, i \in 0..Len(Task) : Told(d, i)' = Told(d, i)
  BY <1>1, <1>7, <1>8 DEF Told
<1>16. Told(c, 0)' = "nothing"
  BY <1>2, <1>7 DEF Told
<1> QED
  BY <1>5, <1>6, <1>8, <1>9, <1>10, <1>12, <1>13, <1>14, <1>15, <1>16, InvAdded

\* smarthome-service calls on.
LEMMA PassServiceKeeps ==
  ASSUME MeshInv, NEW c \in Clicks, PassService(c)
  PROVE  MeshInv'
BY CallOutKeeps, WorkloadsAssumption DEF PassService

\* The gateway lets a click in.
LEMMA PassGatewayKeeps ==
  ASSUME MeshInv, NEW c \in Clicks, PassGateway(c)
  PROVE  MeshInv'
<1>1. CASE click[c].ask.kind = "push"
  BY <1>1, CallOutKeeps, WorkloadsAssumption DEF PassGateway
<1>2. CASE click[c].ask.kind # "push"
  <2>1. /\ click' = [click EXCEPT ![c].stage = "service"]
        /\ click[c].stage = "gateway"
        /\ UNCHANGED <<graph, snapshot, wire, runner, device, telemetry,
                       acted>>
    BY <1>2 DEF PassGateway, world, services
  <2>2. /\ click' \in [Clicks -> {Idle} \cup Clicked]
        /\ click'[c].stage = "service" /\ click'[c].told = click[c].told
        /\ click'[c].token = click[c].token
        /\ \A d \in Clicks : d # c => click'[d] = click[d]
    BY <2>1, OnwardIs DEF MeshInv
  <2>3. Typed'
    BY <2>1, <2>2 DEF MeshInv, Typed
  <2>4. ClickOK(c)' /\ click[c].told = "nothing"
    BY <2>1, <2>2 DEF MeshInv, ClickOK
  <2>5. \A d \in Clicks :
          /\ Stands(d) /\ ClickOK(d)' /\ RunnerOK(d)'
          /\ runner'[d].stage = runner[d].stage
    BY <2>1, <2>2, <2>4, FrontStands
  <2>6. TruthOK(c, 0)'
    BY <2>2, <2>4 DEF TruthOK, Told
  <2>7. \A d \in Clicks, i \in 0..Len(Task) : TruthOK(d, i)'
    BY <2>1, <2>2, <2>6, FrontTruth
  <2> QED
    BY <2>1, <2>3, <2>5, <2>7, InvStands
<1> QED
  BY <1>1, <1>2

-----------------------------------------------------------------------------
(* The service that is called.                                             *)

\* A step of a service that is called moves no click and no task.
LEMMA CalleeStands ==
  ASSUME MeshInv, UNCHANGED <<click, runner>>
  PROVE  /\ \A c \in Clicks :
              /\ Stands(c) /\ ClickOK(c)' /\ RunnerOK(c)'
              /\ runner'[c].stage = runner[c].stage
         /\ \A c \in Clicks, i \in 0..Len(Task) : Told(c, i)' = Told(c, i)
<1>1. ASSUME NEW c \in Clicks PROVE Stands(c)
  BY DEF Stands, Reached
<1>2. ASSUME NEW c \in Clicks PROVE ClickOK(c)' /\ RunnerOK(c)'
  BY DEF MeshInv, ClickOK, RunnerOK
<1>3. ASSUME NEW c \in Clicks, NEW i \in 0..Len(Task)
      PROVE  Told(c, i)' = Told(c, i)
  BY DEF Told
<1> QED
  BY <1>1, <1>2, <1>3

\* A call that has come to nothing.
LEMMA NothingKeeps ==
  ASSUME MeshInv, NEW w \in wire, w.stage \in {"sent", "passed"},
         NEW stage \in {"refused", "failed"}, wire' = With(w, stage),
         UNCHANGED <<world, click, services>>
  PROVE  MeshInv'
<1>1. w \in Carried /\ CallOK(w) /\ stage \in Stages
  BY DEF MeshInv, Typed, Stages
<1>2. PICK v : v = [w EXCEPT !.stage = stage, !.seen = NoWorld]
  OBVIOUS
<1>3. /\ v \in Carried /\ v.click = w.click /\ v.step = w.step
      /\ v.bearer = w.bearer /\ v.ask = w.ask /\ v.stage = stage
  BY <1>1, <1>2, StagedIs
<1>4. /\ wire' = (wire \ {w}) \cup {v}
      /\ UNCHANGED <<graph, snapshot, click, runner, device, telemetry,
                     acted>>
  BY <1>2 DEF With, world, services
<1>5. Typed'
  BY <1>3, <1>4 DEF MeshInv, Typed
<1>6. CallOK(v)'
  BY <1>1, <1>3, <1>4 DEF CallOK, Reached
<1> QED
  BY <1>3, <1>4, <1>5, <1>6, CalleeStands, InvReplaced

\* A sidecar refuses a call.
LEMMA RefuseKeeps ==
  ASSUME MeshInv, NEW w \in wire, Refuse(w)
  PROVE  MeshInv'
BY NothingKeeps DEF Refuse

\* A service does not know what it is asked for, or cannot read it.
LEMMA RejectKeeps ==
  ASSUME MeshInv, NEW w \in wire, Reject(w)
  PROVE  MeshInv'
BY NothingKeeps DEF Reject

\* The sidecar has asked, with the relationships of that moment.
LEMMA PassKeeps ==
  ASSUME MeshInv, NEW w \in wire, Pass(w)
  PROVE  MeshInv'
<1>1. w \in Carried /\ CallOK(w) /\ "passed" \in Stages
      /\ graph \in Worlds /\ snapshot \in Configs /\ w.stage = "sent"
  BY DEF MeshInv, Typed, Stages, Pass
<1>2. PICK u : u = FromClaims(snapshot, w.bearer).subject
  OBVIOUS
<1>3. u \in Users \cup Devices \cup {None} /\ graph \in SUBSET Relationship
  BY <1>1, <1>2, IdentityIs, WorldsAssumption DEF Carried
<1>4. PICK v : v = [w EXCEPT !.stage = "passed", !.seen = graph, !.user = u]
  OBVIOUS
<1>5. /\ v \in Carried /\ v.click = w.click /\ v.step = w.step
      /\ v.bearer = w.bearer /\ v.ask = w.ask /\ v.source = w.source
      /\ v.stage = "passed" /\ v.seen = graph /\ v.user = u
  BY <1>1, <1>3, <1>4 DEF Carried
<1>6. /\ wire' = (wire \ {w}) \cup {v}
      /\ UNCHANGED <<graph, snapshot, click, runner, device, telemetry,
                     acted>>
  BY <1>2, <1>4 DEF Pass, world, services
<1>7. Typed'
  BY <1>5, <1>6 DEF MeshInv, Typed
<1>8. Checked(v)
  <2>1. AtCallee(v) = AtCallee(w)
    BY <1>5 DEF AtCallee
  <2>2. Passes(AtCallee(w))
    BY DEF Pass
  <2> QED
    BY <1>1, <1>2, <1>5, <2>1, <2>2 DEF Checked, Admitted, Passes
<1>9. CallOK(v)'
  BY <1>1, <1>5, <1>6, <1>8 DEF CallOK, Reached
<1> QED
  BY <1>5, <1>6, <1>7, <1>9, CalleeStands, InvReplaced

\* What is asked for has been done.
LEMMA DoneKeeps ==
  ASSUME MeshInv, NEW w \in wire, w.stage = "passed",
         wire' = With(w, "done"),
         acted' = acted \cup {<<w.click, w.step>>},
         device' \in [DOMAIN InitialState -> Thing],
         telemetry' \in Seq([device : ObjectIds \cup {None},
                             principal : Users \cup Devices \cup {None}]),
         Len(telemetry') <= TelemetryCap,
         UNCHANGED <<world, click, runner>>
  PROVE  MeshInv'
<1>1. w \in Carried /\ CallOK(w) /\ "done" \in Stages
  BY DEF MeshInv, Typed, Stages
<1>2. PICK v : v = [w EXCEPT !.stage = "done", !.seen = NoWorld]
  OBVIOUS
<1>3. /\ v \in Carried /\ v.click = w.click /\ v.step = w.step
      /\ v.bearer = w.bearer /\ v.ask = w.ask /\ v.stage = "done"
  BY <1>1, <1>2, StagedIs
<1>4. /\ wire' = (wire \ {w}) \cup {v}
      /\ UNCHANGED <<graph, snapshot, click, runner>>
  BY <1>2 DEF With, world
<1>5. w.click \in Clicks /\ w.step \in 0..Len(Task)
  BY <1>1 DEF Carried
<1>6. Typed'
  BY <1>3, <1>4, <1>5 DEF MeshInv, Typed
<1>7. CallOK(v)'
  BY <1>1, <1>3, <1>4 DEF CallOK, Reached
<1> QED
  BY <1>3, <1>4, <1>6, <1>7, CalleeStands, InvReplaced

\* A service acts.
LEMMA ServeKeeps ==
  ASSUME MeshInv, NEW w \in wire, Serve(w)
  PROVE  MeshInv'
<1>1. w \in Carried /\ device \in [DOMAIN InitialState -> Thing]
  BY DEF MeshInv, Typed
<1>2. device' \in [DOMAIN InitialState -> Thing]
  <2>1. CASE w.ask.kind \in DOMAIN NewState
    <3>1. PICK s : s = NewState[w.ask.kind]
      OBVIOUS
    <3>2. s \in {"unlocked", "locked", "23C"}
      BY <2>1, <3>1 DEF NewState
    <3>3. PICK e : e = [device EXCEPT ![w.ask.target] =
                          [@ EXCEPT !.state = s, !.by = w.user]]
      OBVIOUS
    <3>4. ASSUME NEW d \in DOMAIN InitialState PROVE e[d] \in Thing
      <4>1. PICK o : o = device[d]
        OBVIOUS
      <4>2. PICK n : n = [o EXCEPT !.state = s, !.by = w.user]
        OBVIOUS
      <4>3. o \in Thing /\ w.user \in Users \cup Devices \cup {None}
        BY <1>1, <4>1 DEF Carried
      <4>4. n \in Thing
        BY <3>2, <4>2, <4>3, Zenon DEF Thing
      <4>5. e[d] = IF d = w.ask.target THEN n ELSE o
        BY <1>1, <3>3, <4>1, <4>2
      <4> QED
        BY <4>3, <4>4, <4>5
    <3>5. e \in [DOMAIN InitialState -> Thing]
      BY <1>1, <3>3, <3>4
    <3> QED
      BY <2>1, <3>1, <3>3, <3>5 DEF Serve
  <2>2. CASE w.ask.kind \notin DOMAIN NewState
    BY <1>1, <2>2 DEF Serve
  <2> QED
    BY <2>1, <2>2
<1>3. UNCHANGED telemetry /\ UNCHANGED <<world, click, runner>>
  BY DEF Serve
<1> QED
  BY <1>2, <1>3, DoneKeeps DEF Serve, MeshInv, Typed

\* Readings are kept up to the cap, the oldest go first.
Kept(all) ==
  IF Len(all) > TelemetryCap
  THEN SubSeq(all, Len(all) - TelemetryCap + 1, Len(all))
  ELSE all

KeptFrom(kept, s, x, S) ==
  /\ kept \in Seq(S) /\ Len(kept) <= TelemetryCap
  /\ \A i \in DOMAIN kept :
       kept[i] = x \/ \E j \in DOMAIN s : kept[i] = s[j]

\* The capped buffer holds what it held before, or what came last.
LEMMA KeptIs ==
  ASSUME NEW S, NEW s \in Seq(S), Len(s) <= TelemetryCap, NEW x \in S,
         NEW t, t = Append(s, x), NEW kept, kept = Kept(t)
  PROVE  KeptFrom(kept, s, x, S)
<1> USE DEF KeptFrom
<1>1. TelemetryCap \in Nat \ {0} /\ Len(s) \in Nat
  BY TelemetryAssumption
<1>2. /\ t \in Seq(S) /\ Len(t) = Len(s) + 1
      /\ DOMAIN s = 1..Len(s) /\ DOMAIN t = 1..Len(t)
      /\ \A j \in 1..Len(s) : t[j] = s[j]
      /\ t[Len(s) + 1] = x
  OBVIOUS
<1>3. ASSUME NEW j \in 1..Len(t)
      PROVE  t[j] = x \/ \E k \in DOMAIN s : t[j] = s[k]
  BY <1>1, <1>2
<1>4. CASE Len(t) > TelemetryCap
  <2>1. PICK m : m = Len(t) - TelemetryCap + 1
    OBVIOUS
  <2>2. /\ m \in Int /\ Len(t) \in Int /\ m <= Len(t) /\ m >= 1
        /\ Len(t) - m + 1 = TelemetryCap
    BY <1>1, <1>2, <1>4, <2>1
  <2>3. ASSUME NEW i \in m..Len(t) PROVE t[i] \in S
    <3>1. i \in 1..Len(t)
      BY <2>2
    <3> QED
      BY <1>2, <3>1
  <2>4. kept = SubSeq(t, m, Len(t))
    BY <1>4, <2>1 DEF Kept
  <2>5. /\ kept \in Seq(S)
        /\ Len(kept) = IF m <= Len(t) THEN Len(t) - m + 1 ELSE 0
        /\ \A i \in 1..(Len(t) - m + 1) : kept[i] = t[m + i - 1]
    <3>1. PICK n : n = Len(t)
      OBVIOUS
    <3>2. m \in Int /\ n \in Int /\ \A i \in m..n : t[i] \in S
      BY <2>2, <2>3, <3>1
    <3>3. SubSeq(t, m, n) \in Seq(S)
      BY <3>2, SubSeqProperties
    <3>4. Len(SubSeq(t, m, n)) = IF m <= n THEN n - m + 1 ELSE 0
      BY <3>2, SubSeqProperties
    <3>5. \A i \in 1 .. n - m + 1 : SubSeq(t, m, n)[i] = t[m + i - 1]
      BY <2>2, <3>1, <3>2
    <3> QED
      BY <2>4, <3>1, <3>3, <3>4, <3>5, Zenon
  <2>6. Len(kept) = TelemetryCap /\ DOMAIN kept = 1..TelemetryCap
    BY <2>2, <2>5
  <2>7. ASSUME NEW i \in DOMAIN kept
        PROVE  kept[i] = x \/ \E j \in DOMAIN s : kept[i] = s[j]
    <3>1. i \in 1..TelemetryCap
      BY <2>6
    <3>2. m + i - 1 \in 1..Len(t)
      BY <1>1, <1>2, <2>1, <2>2, <3>1
    <3> QED
      BY <1>3, <2>2, <2>5, <3>1, <3>2
  <2> QED
    BY <1>1, <2>5, <2>6, <2>7
<1>5. CASE ~(Len(t) > TelemetryCap)
  <2>1. kept = t
    BY <1>5 DEF Kept
  <2>2. DOMAIN kept = 1..Len(t)
    BY <1>2, <2>1
  <2> QED
    BY <1>1, <1>2, <1>3, <1>5, <2>1, <2>2
<1> QED
  BY <1>4, <1>5

\* What is kept after a push.
LEMMA TelemetryIs ==
  ASSUME MeshInv, NEW w \in wire, Ingest(w)
  PROVE  /\ telemetry' \in Seq([device : ObjectIds \cup {None},
                                principal : Users \cup Devices \cup {None}])
         /\ Len(telemetry') <= TelemetryCap
         /\ \A i \in DOMAIN telemetry' :
              \/ telemetry'[i] = [device |-> w.ask.target,
                                  principal |-> w.user]
              \/ \E j \in DOMAIN telemetry : telemetry'[i] = telemetry[j]
<1>1. PICK S : S = [device : ObjectIds \cup {None},
                    principal : Users \cup Devices \cup {None}]
  OBVIOUS
<1>2. PICK x : x = [device |-> w.ask.target, principal |-> w.user]
  OBVIOUS
<1>3. PICK s : s = telemetry
  OBVIOUS
<1>4. w \in Carried /\ s \in Seq(S) /\ Len(s) <= TelemetryCap
  BY <1>1, <1>3 DEF MeshInv, Typed
<1>5. x \in S
  BY <1>1, <1>2, <1>4 DEF Carried, Errand
<1>6. PICK t : t = Append(s, x)
  OBVIOUS
<1>7. PICK kept : kept = telemetry'
  OBVIOUS
<1>8. kept = Kept(t)
  BY <1>2, <1>3, <1>6, <1>7, Zenon DEF Ingest, Kept
<1>9. KeptFrom(kept, s, x, S)
  BY <1>4, <1>5, <1>6, <1>8, KeptIs
<1> QED
  BY <1>1, <1>2, <1>3, <1>7, <1>9 DEF KeptFrom

\* device-service keeps a reading.
LEMMA IngestKeeps ==
  ASSUME MeshInv, NEW w \in wire, Ingest(w)
  PROVE  MeshInv'
<1>1. device \in [DOMAIN InitialState -> Thing]
  BY DEF MeshInv, Typed
<1>2. device' \in [DOMAIN InitialState -> Thing]
  <2>1. ASSUME NEW d \in DOMAIN InitialState PROVE device'[d] \in Thing
    <3>1. PICK o : o = device[d]
      OBVIOUS
    <3>2. PICK n : n = [o EXCEPT !.reading = TRUE]
      OBVIOUS
    <3>3. o \in Thing /\ n \in Thing
      BY <1>1, <3>1, <3>2, Zenon DEF Thing
    <3>4. device'[d] = IF d = w.ask.target THEN n ELSE o
      BY <1>1, <3>1, <3>2 DEF Ingest
    <3> QED
      BY <3>3, <3>4
  <2>2. PICK e : e = device'
    OBVIOUS
  <2>3. e = [device EXCEPT ![w.ask.target].reading = TRUE]
    BY <2>2 DEF Ingest
  <2> QED
    BY <1>1, <2>1, <2>2, <2>3
<1>3. UNCHANGED <<world, click, runner>>
  BY DEF Ingest
<1> QED
  BY <1>2, <1>3, TelemetryIs, DoneKeeps DEF Ingest

\* device-service restarts with what it starts with.
LEMMA FactoryIs == Factory \in [DOMAIN InitialState -> Thing]
BY DEF Factory, Thing

\* device-service loses its memory and its calls.
LEMMA RestartKeeps ==
  ASSUME MeshInv, Restart
  PROVE  MeshInv'
<1>1. /\ device' \in [DOMAIN InitialState -> Thing] /\ telemetry' = <<>>
      /\ wire' \subseteq wire
      /\ UNCHANGED <<graph, snapshot, click, runner, acted>>
  BY FactoryIs DEF Restart, world
<1>2. Typed'
  BY <1>1, TelemetryAssumption DEF MeshInv, Typed
<1>3. ASSUME NEW c \in Clicks, NEW i \in 0..Len(Task)
      PROVE  TruthOK(c, i)'
  BY <1>1, CalleeStands, TruthStands
<1> QED
  BY <1>1, <1>2, <1>3, CalleeStands, InvStands

-----------------------------------------------------------------------------
(* agent-runner.                                                           *)

\* A task that moves, of a click that does not.
LEMMA RunnerStands ==
  ASSUME MeshInv, NEW c \in Clicks, UNCHANGED click,
         \A d \in Clicks : d # c => runner'[d] = runner[d],
         runner'[c].stage # "idle",
         runner[c].stage # "idle" =>
           \A i \in 1..Len(Task) : Reached(c, i) => Reached(c, i)',
         RunnerOK(c)'
  PROVE  /\ \A d \in Clicks :
              /\ Stands(d) /\ ClickOK(d)' /\ RunnerOK(d)'
              /\ d # c => runner'[d].stage = runner[d].stage
         /\ \A d \in Clicks, i \in 0..Len(Task) :
              d # c \/ i = 0 => Told(d, i)' = Told(d, i)
<1>1. ASSUME NEW d \in Clicks
      PROVE  Stands(d) /\ ClickOK(d)' /\ RunnerOK(d)'
  <2>1. Stands(d)
    BY DEF Stands, Reached
  <2>2. ClickOK(d)'
    BY DEF MeshInv, ClickOK
  <2>3. RunnerOK(d)'
    BY DEF MeshInv, RunnerOK
  <2> QED
    BY <2>1, <2>2, <2>3
<1>2. ASSUME NEW d \in Clicks, NEW i \in 0..Len(Task), d # c \/ i = 0
      PROVE  Told(d, i)' = Told(d, i)
  BY <1>2 DEF Told
<1> QED
  BY <1>1, <1>2

\* A task that moves without an answer.
LEMMA RunnerTold ==
  ASSUME MeshInv, NEW c \in Clicks, UNCHANGED click,
         \A d \in Clicks : d # c => runner'[d] = runner[d],
         runner[c].stage # "idle", runner'[c].stage # "idle",
         runner'[c].told = runner[c].told,
         runner[c].stage = "waiting" => runner'[c].stage = "waiting",
         RunnerOK(c)'
  PROVE  /\ \A d \in Clicks :
              /\ Stands(d) /\ ClickOK(d)' /\ RunnerOK(d)'
              /\ runner[d].stage = "idle" => runner'[d].stage = "idle"
              /\ d # c => runner'[d].stage = runner[d].stage
         /\ \A d \in Clicks, i \in 0..Len(Task) : Told(d, i)' = Told(d, i)
<1>1. \A i \in 1..Len(Task) : Reached(c, i) => Reached(c, i)'
  BY DEF Reached
<1>2. /\ \A d \in Clicks :
           /\ Stands(d) /\ ClickOK(d)' /\ RunnerOK(d)'
           /\ d # c => runner'[d].stage = runner[d].stage
      /\ \A d \in Clicks, i \in 0..Len(Task) :
           d # c \/ i = 0 => Told(d, i)' = Told(d, i)
  BY <1>1, RunnerStands
<1>3. ASSUME NEW i \in 0..Len(Task), i # 0 PROVE Told(c, i)' = Told(c, i)
  BY <1>3 DEF Told
<1> QED
  BY <1>2, <1>3

\* agent-runner begins a task.
LEMMA StartTaskKeeps ==
  ASSUME MeshInv, NEW w \in wire, StartTask(w)
  PROVE  MeshInv'
<1>1. w \in Carried /\ CallOK(w) /\ "running" \in Stages
      /\ w.stage = "passed" /\ w.ask.kind = "assistant"
  BY DEF MeshInv, Typed, Stages, StartTask
<1>2. PICK c \in Clicks : c = w.click
  BY <1>1 DEF Carried
<1>3. w.step = 0
  <2>1. w.step \in 0..Len(Task) /\ Len(Task) \in Nat
        /\ DOMAIN Task = 1..Len(Task)
    BY <1>1, ErrandsAssumption DEF Carried
  <2>2. CASE w.step > 0
    <3>1. w.step \in DOMAIN Task /\ w.ask.kind = Task[w.step].kind
      BY <1>1, <2>1, <2>2 DEF CallOK
    <3> QED
      BY <1>1, <3>1, ErrandsAssumption
  <2> QED
    BY <2>1, <2>2
<1>4. PICK v : v = [w EXCEPT !.stage = "running", !.seen = NoWorld]
  OBVIOUS
<1>5. /\ v \in Carried /\ v.click = w.click /\ v.step = w.step
      /\ v.bearer = w.bearer /\ v.ask = w.ask /\ v.stage = "running"
  BY <1>1, <1>4, StagedIs
<1>6. PICK k : k = [stage |-> "exchanging", token |-> w.bearer,
                    told |-> <<>>]
  OBVIOUS
<1>7. k \in Doing /\ Len(k.told) = 0 /\ k.stage = "exchanging"
      /\ k.token = w.bearer
  BY <1>1, <1>6 DEF Doing, Carried
<1>8. /\ runner' = [runner EXCEPT ![c] = k]
      /\ wire' = (wire \ {w}) \cup {v}
      /\ UNCHANGED <<graph, snapshot, click, device, telemetry, acted>>
  BY <1>2, <1>4, <1>6 DEF StartTask, With, world
<1>9. /\ runner' \in [Clicks -> {Idle} \cup Doing] /\ runner'[c] = k
      /\ \A d \in Clicks : d # c => runner'[d] = runner[d]
  BY <1>7, <1>8 DEF MeshInv, Typed
<1>10. Typed'
  BY <1>5, <1>8, <1>9 DEF MeshInv, Typed
<1>11. runner[c].stage = "idle" /\ click[c].stage \in {"waiting", "answered"}
  BY <1>1, <1>2, <1>3 DEF CallOK, Reached
<1>12. RunnerOK(c)'
  <2>1. k.token.sub = click[c].token.sub /\ Len(Task) \in Nat
    BY <1>1, <1>2, <1>7, ErrandsAssumption DEF CallOK
  <2> QED
    BY <1>7, <1>8, <1>9, <1>11, <2>1 DEF RunnerOK
<1>13. /\ \A d \in Clicks :
            /\ Stands(d) /\ ClickOK(d)' /\ RunnerOK(d)'
            /\ d # c => runner'[d].stage = runner[d].stage
       /\ \A d \in Clicks, i \in 0..Len(Task) :
            d # c \/ i = 0 => Told(d, i)' = Told(d, i)
  BY <1>7, <1>8, <1>9, <1>11, <1>12, RunnerStands
<1>14. ASSUME NEW i \in 0..Len(Task), i # 0 PROVE Told(c, i)' = Told(c, i)
  <2>1. ~(i <= Len(k.told))
    BY <1>7, <1>14
  <2> QED
    BY <1>9, <1>11, <1>14, <2>1 DEF Told
<1>15. CallOK(v)'
  BY <1>1, <1>2, <1>3, <1>5, <1>8, <1>11 DEF CallOK, Reached
<1> QED
  BY <1>2, <1>3, <1>5, <1>8, <1>10, <1>13, <1>14, <1>15, InvReplaced

\* agent-runner gets its own token for the person who asked.
LEMMA ExchangeKeeps ==
  ASSUME MeshInv, NEW c \in Clicks, Exchange(c)
  PROVE  MeshInv'
<1>1. PICK k : k = runner[c]
  OBVIOUS
<1>2. k \in Doing /\ k.stage = "exchanging"
  BY <1>1, RunnerIs DEF Exchange, MeshInv
<1>3. PICK t : t = AgentToken(k.token)
  OBVIOUS
<1>4. t \in Token /\ t.sub = k.token.sub /\ t.azp = AgentClient
  BY <1>2, <1>3, ErrandsAssumption, Zenon DEF AgentToken, Token, Doing
<1>5. PICK l : l = [k EXCEPT !.stage = "ready", !.token = t]
  OBVIOUS
<1>6. l \in Doing /\ l.stage = "ready" /\ l.token = t /\ l.told = k.told
  BY <1>2, <1>4, <1>5 DEF Doing
<1>7. runner' = [runner EXCEPT ![c] = l]
  BY <1>1, <1>3, <1>5 DEF Exchange
<1>8. UNCHANGED <<graph, snapshot, click, wire, device, telemetry, acted>>
  BY DEF Exchange, world
<1>9. /\ runner' \in [Clicks -> {Idle} \cup Doing] /\ runner'[c] = l
      /\ \A d \in Clicks : d # c => runner'[d] = runner[d]
  BY <1>6, <1>7 DEF MeshInv, Typed
<1>10. Typed'
  BY <1>8, <1>9 DEF MeshInv, Typed
<1>11. RunnerOK(c)'
  <2>1. RunnerOK(c)
    BY DEF MeshInv
  <2> QED
    BY <1>1, <1>2, <1>4, <1>6, <1>8, <1>9, <2>1 DEF RunnerOK
<1>12. /\ \A d \in Clicks :
            /\ Stands(d) /\ ClickOK(d)' /\ RunnerOK(d)'
            /\ runner[d].stage = "idle" => runner'[d].stage = "idle"
       /\ \A d \in Clicks, i \in 0..Len(Task) : Told(d, i)' = Told(d, i)
  BY <1>1, <1>2, <1>6, <1>8, <1>9, <1>11, RunnerTold
<1>13. \A d \in Clicks, i \in 0..Len(Task) : TruthOK(d, i)'
  BY <1>8, <1>12, TruthStands
<1> QED
  BY <1>8, <1>10, <1>12, <1>13, InvStands

\* A task that has ended, with the call that started it.
LEMMA EndedKeeps ==
  ASSUME MeshInv, NEW c \in Clicks, NEW w \in Running(c),
         NEW stage \in {"done", "failed"},
         runner[c].stage \in {"exchanging", "ready"},
         runner' = [runner EXCEPT ![c].stage = "ended"],
         wire' = With(w, stage),
         acted' = IF stage = "done" THEN acted \cup {<<c, 0>>} ELSE acted,
         UNCHANGED <<world, click, device, telemetry>>
  PROVE  MeshInv'
<1>1. /\ w \in wire /\ w \in Carried /\ CallOK(w) /\ stage \in Stages
      /\ w.click = c /\ w.stage = "running" /\ w.step = 0
  BY DEF MeshInv, Typed, Stages, Running, CallOK
<1>2. PICK v : v = [w EXCEPT !.stage = stage, !.seen = NoWorld]
  OBVIOUS
<1>3. /\ v \in Carried /\ v.click = w.click /\ v.step = w.step
      /\ v.bearer = w.bearer /\ v.ask = w.ask /\ v.stage = stage
  BY <1>1, <1>2, StagedIs
<1>4. PICK k : k = runner[c]
  OBVIOUS
<1>5. PICK l : l = [k EXCEPT !.stage = "ended"]
  OBVIOUS
<1>6. /\ k \in Doing /\ l \in Doing /\ l.stage = "ended"
      /\ l.told = k.told /\ l.token = k.token
  BY <1>4, <1>5, RunnerIs DEF Doing, MeshInv
<1>7. /\ runner' = [runner EXCEPT ![c] = l]
      /\ wire' = (wire \ {w}) \cup {v}
      /\ UNCHANGED <<graph, snapshot, click, device, telemetry>>
  BY <1>2, <1>4, <1>5 DEF With, world
<1>8. /\ runner' \in [Clicks -> {Idle} \cup Doing] /\ runner'[c] = l
      /\ \A d \in Clicks : d # c => runner'[d] = runner[d]
  BY <1>6, <1>7 DEF MeshInv, Typed
<1>9. 0 \in 0..Len(Task)
  BY ErrandsAssumption
<1>10. Typed'
  BY <1>3, <1>7, <1>8, <1>9 DEF MeshInv, Typed
<1>11. RunnerOK(c)'
  <2>1. RunnerOK(c)
    BY DEF MeshInv
  <2> QED
    BY <1>4, <1>6, <1>7, <1>8, <2>1 DEF RunnerOK
<1>12. /\ \A d \in Clicks :
            /\ Stands(d) /\ ClickOK(d)' /\ RunnerOK(d)'
            /\ d # c => runner'[d].stage = runner[d].stage
       /\ \A d \in Clicks, i \in 0..Len(Task) : Told(d, i)' = Told(d, i)
  BY <1>4, <1>6, <1>7, <1>8, <1>11, RunnerTold
<1>13. CallOK(v)'
  <2>1. <<c, 0>> \in acted' <=> stage = "done"
    BY <1>1 DEF CallOK
  <2> QED
    BY <1>1, <1>3, <1>7, <2>1 DEF CallOK, Reached
<1> QED
  BY <1>1, <1>3, <1>7, <1>10, <1>12, <1>13, InvReplaced

\* Keycloak refuses or does not answer.
LEMMA ExchangeFailsKeeps ==
  ASSUME MeshInv, NEW c \in Clicks, ExchangeFails(c)
  PROVE  MeshInv'
BY EndedKeeps DEF ExchangeFails

\* agent-runner answers with its transcript.
LEMMA ReportKeeps ==
  ASSUME MeshInv, NEW c \in Clicks, Report(c)
  PROVE  MeshInv'
BY EndedKeeps DEF Report

\* agent-runner makes the next call.
LEMMA TryStepKeeps ==
  ASSUME MeshInv, NEW c \in Clicks, TryStep(c)
  PROVE  MeshInv'
<1>1. PICK k : k = runner[c]
  OBVIOUS
<1>2. /\ k \in Doing /\ k.stage = "ready" /\ Len(k.told) < Len(Task)
      /\ RunnerOK(c)
  BY <1>1, RunnerIs DEF TryStep, MeshInv
<1>3. PICK i : i = Len(k.told) + 1
  OBVIOUS
<1>4. /\ i \in 1..Len(Task) /\ i \in 0..Len(Task) /\ i \in DOMAIN Task
      /\ i > 0 /\ ~(i <= Len(k.told))
  <2>1. Len(k.told) \in Nat /\ Len(Task) \in Nat /\ DOMAIN Task = 1..Len(Task)
    BY <1>2, ErrandsAssumption DEF Doing
  <2> QED
    BY <1>2, <1>3, <2>1
<1>5. Task[i] \in Errand /\ k.token \in Token /\ Runner \in Workloads
  BY <1>2, <1>4, ErrandsAssumption, WorkloadsAssumption DEF Doing
<1>6. PICK v : v = Call(c, i, Task[i], Runner, k.token)
  OBVIOUS
<1>7. /\ v \in Carried /\ v.click = c /\ v.step = i /\ v.bearer = k.token
      /\ v.stage = "sent" /\ v.ask.kind = Task[i].kind
  BY <1>4, <1>5, <1>6, CallIs
<1>8. PICK l : l = [k EXCEPT !.stage = "waiting"]
  OBVIOUS
<1>9. /\ l \in Doing /\ l.stage = "waiting" /\ l.told = k.told
      /\ l.token = k.token
  BY <1>2, <1>8 DEF Doing
<1>10. /\ runner' = [runner EXCEPT ![c] = l]
       /\ wire' = wire \cup {v}
       /\ UNCHANGED <<graph, snapshot, click, device, telemetry, acted>>
  BY <1>1, <1>3, <1>6, <1>8 DEF TryStep, world
<1>11. /\ runner' \in [Clicks -> {Idle} \cup Doing] /\ runner'[c] = l
       /\ \A d \in Clicks : d # c => runner'[d] = runner[d]
  BY <1>9, <1>10 DEF MeshInv, Typed
<1>12. Typed'
  BY <1>7, <1>10, <1>11 DEF MeshInv, Typed
<1>13. RunnerOK(c)'
  BY <1>1, <1>2, <1>9, <1>10, <1>11 DEF RunnerOK
<1>14. /\ \A d \in Clicks :
            /\ Stands(d) /\ ClickOK(d)' /\ RunnerOK(d)'
            /\ runner[d].stage = "idle" => runner'[d].stage = "idle"
       /\ \A d \in Clicks, j \in 0..Len(Task) : Told(d, j)' = Told(d, j)
  BY <1>1, <1>2, <1>9, <1>10, <1>11, <1>13, RunnerTold
<1>15. ~Reached(c, i)
  BY <1>1, <1>2, <1>4 DEF Reached
<1>16. Told(c, i) = "nothing"
  BY <1>1, <1>4 DEF Told
<1>17. CallOK(v)'
  <2>1. <<c, i>> \notin acted
    BY <1>4, <1>15 DEF MeshInv
  <2>2. Reached(c, i)'
    BY <1>3, <1>4, <1>9, <1>11 DEF Reached
  <2>3. v.bearer.azp = AgentClient /\ v.bearer.sub = click[c].token.sub
    BY <1>1, <1>2, <1>7 DEF RunnerOK
  <2> QED
    BY <1>4, <1>7, <1>10, <2>1, <2>2, <2>3 DEF CallOK
<1> QED
  BY <1>4, <1>7, <1>10, <1>12, <1>14, <1>15, <1>16, <1>17, InvAdded

\* An answer is entered in the transcript.
LEMMA RecordKeeps ==
  ASSUME MeshInv, NEW c \in Clicks, NEW answer \in Answers, NEW n,
         runner[c].stage \in {"ready", "waiting"},
         n = Len(runner[c].told) + 1, Len(runner[c].told) < Len(Task),
         Record(c, answer), wire' \subseteq wire,
         UNCHANGED <<graph, snapshot, click, device, telemetry, acted>>,
         answer = "ok" => <<c, n>> \in acted,
         answer = "refused" =>
           /\ <<c, n>> \notin acted
           /\ \A w \in wire' : ~(w.click = c /\ w.step = n)
  PROVE  MeshInv'
<1>1. PICK k : k = runner[c]
  OBVIOUS
<1>2. PICK l : l = runner'[c]
  OBVIOUS
<1>3. k \in Doing /\ RunnerOK(c)
  BY <1>1, RunnerIs DEF MeshInv
<1>4. /\ runner' \in [Clicks -> {Idle} \cup Doing]
      /\ l.stage = "ready" /\ l.told = Append(k.told, answer)
      /\ l.token = k.token
      /\ \A d \in Clicks : d # c => runner'[d] = runner[d]
  BY <1>1, <1>2, RecordIs DEF MeshInv
<1>5. /\ k.told \in Seq(Answers) /\ Len(k.told) \in Nat /\ Len(Task) \in Nat
      /\ n = Len(k.told) + 1 /\ n \in 1..Len(Task)
  BY <1>1, <1>3, ErrandsAssumption DEF Doing
<1>6. /\ Len(l.told) = n /\ l.told[n] = answer
      /\ \A i \in 1..Len(k.told) : l.told[i] = k.told[i]
  BY <1>4, <1>5
<1>7. Typed'
  BY <1>4 DEF MeshInv, Typed
<1>8. RunnerOK(c)'
  BY <1>1, <1>2, <1>3, <1>4, <1>5, <1>6 DEF RunnerOK
<1>9. ASSUME NEW i \in 1..Len(Task), Reached(c, i)
      PROVE  Reached(c, i)'
  <2>1. i <= Len(k.told) \/ i = Len(k.told) + 1
    BY <1>1, <1>9 DEF Reached
  <2>2. i <= n
    BY <1>5, <2>1
  <2> QED
    BY <1>2, <1>4, <1>6, <2>2 DEF Reached
<1>10. /\ \A d \in Clicks :
            /\ Stands(d) /\ ClickOK(d)' /\ RunnerOK(d)'
            /\ d # c => runner'[d].stage = runner[d].stage
       /\ \A d \in Clicks, i \in 0..Len(Task) :
            d # c \/ i = 0 => Told(d, i)' = Told(d, i)
  BY <1>2, <1>4, <1>8, <1>9, RunnerStands
<1>11. ASSUME NEW d \in Clicks, NEW i \in 0..Len(Task)
       PROVE  TruthOK(d, i)'
  <2>1. CASE d = c /\ i = n
    <3>1. Told(d, i)' = answer
      BY <1>2, <1>4, <1>5, <1>6, <2>1 DEF Told
    <3> QED
      BY <2>1, <3>1 DEF TruthOK
  <2>2. CASE ~(d = c /\ i = n)
    <3>1. Told(d, i)' = Told(d, i)
      <4>1. CASE d # c \/ i = 0
        BY <4>1, <1>10
      <4>2. CASE d = c /\ i # 0 /\ i <= Len(k.told)
        <5>1. i \in 1..Len(k.told) /\ i <= Len(l.told)
          BY <1>5, <1>6, <4>2
        <5> QED
          BY <1>1, <1>2, <1>4, <1>6, <4>2, <5>1 DEF Told
      <4>3. CASE d = c /\ i # 0 /\ ~(i <= Len(k.told))
        <5>1. ~(i <= Len(l.told))
          BY <1>5, <1>6, <4>3, <2>2
        <5> QED
          BY <1>1, <1>2, <4>3, <5>1 DEF Told
      <4> QED
        BY <4>1, <4>2, <4>3
    <3> QED
      BY <3>1, TruthStands
  <2> QED
    BY <2>1, <2>2
<1> QED
  BY <1>7, <1>10, <1>11, InvStands

\* agent-runner gives a call up; the callee goes on.
LEMMA StepFailsKeeps ==
  ASSUME MeshInv, NEW c \in Clicks, StepFails(c)
  PROVE  MeshInv'
<1>1. "denied" \in Answers
  BY DEF Answers
<1>2. RunnerOK(c)
  BY DEF MeshInv
<1>3. /\ runner[c].stage \in {"ready", "waiting"}
      /\ Len(runner[c].told) < Len(Task)
      /\ Record(c, "denied")
      /\ UNCHANGED <<graph, snapshot, click, wire, device, telemetry, acted>>
  BY <1>2 DEF StepFails, RunnerOK, world
<1>4. PICK n : n = Len(runner[c].told) + 1
  OBVIOUS
<1>5. PICK answer \in Answers : answer = "denied"
  BY <1>1
<1>6. /\ answer = "ok" => <<c, n>> \in acted
      /\ answer = "refused" =>
           /\ <<c, n>> \notin acted
           /\ \A w \in wire' : ~(w.click = c /\ w.step = n)
  BY <1>5
<1>7. /\ Record(c, answer) /\ wire' \subseteq wire
      /\ UNCHANGED <<graph, snapshot, click, device, telemetry, acted>>
  BY <1>3, <1>5
<1> QED
  BY <1>3, <1>4, <1>6, <1>7, RecordKeeps

\* Whoever still waits hears of it, and what he hears is so.
LEMMA ReturnKeeps ==
  ASSUME MeshInv, NEW w \in wire, Return(w)
  PROVE  MeshInv'
<1>1. /\ w \in Carried /\ CallOK(w) /\ w.stage \in Answered
      /\ wire' = wire \ {w} /\ wire' \subseteq wire
      /\ UNCHANGED <<graph, snapshot, device, telemetry, acted>>
  BY DEF MeshInv, Typed, Return, world
<1>2. PICK c \in Clicks : c = w.click
  BY <1>1 DEF Carried
<1>3. PICK n \in 0..Len(Task) : n = w.step
  BY <1>1 DEF Carried
<1>4. PICK answer \in Answers : answer = Answer(w)
  BY DEF Answer, Answers
<1>5. /\ answer = "ok" => <<c, n>> \in acted
      /\ answer = "refused" =>
           /\ <<c, n>> \notin acted
           /\ \A v \in wire' : ~(v.click = c /\ v.step = n)
  <2>1. \A v \in wire' : ~(v.click = c /\ v.step = n)
    BY <1>1, <1>2, <1>3 DEF MeshInv, Alone
  <2>2. /\ answer = "ok" => w.stage = "done"
        /\ answer = "refused" => w.stage = "refused"
    BY <1>4 DEF Answer
  <2> QED
    BY <1>1, <1>2, <1>3, <2>1, <2>2 DEF CallOK
<1>6. CASE ~Awaited(w)
  <2>1. UNCHANGED <<click, runner>>
    BY <1>6 DEF Return
  <2>2. Typed'
    BY <1>1, <2>1 DEF MeshInv, Typed
  <2>3. ASSUME NEW d \in Clicks, NEW i \in 0..Len(Task)
        PROVE  TruthOK(d, i)'
    BY <1>1, <2>1, CalleeStands, TruthStands
  <2> QED
    BY <1>1, <2>1, <2>2, <2>3, CalleeStands, InvStands
<1>7. CASE Awaited(w) /\ n = 0
  <2>1. /\ Tell(c, answer) /\ UNCHANGED runner
        /\ click[c].stage = "waiting"
    BY <1>2, <1>3, <1>4, <1>7 DEF Return, Awaited
  <2>2. /\ click' \in [Clicks -> {Idle} \cup Clicked]
        /\ click'[c].stage = "answered" /\ click'[c].told = answer
        /\ click'[c].token = click[c].token
        /\ \A d \in Clicks : d # c => click'[d] = click[d]
    BY <2>1, TellIs DEF MeshInv
  <2>3. Typed'
    BY <1>1, <2>1, <2>2 DEF MeshInv, Typed
  <2>4. ClickOK(c)'
    BY <2>2 DEF ClickOK
  <2>5. \A d \in Clicks :
          /\ Stands(d) /\ ClickOK(d)' /\ RunnerOK(d)'
          /\ runner'[d].stage = runner[d].stage
    BY <2>1, <2>2, <2>4, FrontStands
  <2>6. TruthOK(c, 0)'
    <3>1. Told(c, 0)' = answer
      BY <2>2 DEF Told
    <3> QED
      BY <1>1, <1>5, <1>7, <3>1 DEF TruthOK
  <2>7. \A d \in Clicks, i \in 0..Len(Task) : TruthOK(d, i)'
    BY <1>1, <2>1, <2>2, <2>6, FrontTruth
  <2> QED
    BY <1>1, <2>1, <2>3, <2>5, <2>7, InvStands
<1>8. CASE Awaited(w) /\ n # 0
  <2>1. /\ Record(c, answer) /\ UNCHANGED click
        /\ runner[c].stage = "waiting"
        /\ Len(runner[c].told) + 1 = n
    BY <1>2, <1>3, <1>4, <1>8 DEF Return, Awaited
  <2>2. Len(runner[c].told) < Len(Task)
    BY <2>1 DEF MeshInv, RunnerOK
  <2> QED
    BY <1>1, <1>5, <2>1, <2>2, RecordKeeps
<1> QED
  BY <1>6, <1>7, <1>8

\* Relationships and documents change under what is under way.
LEMMA WorldKeeps ==
  ASSUME MeshInv, WorldChanges \/ UNCHANGED vars
  PROVE  MeshInv'
<1>1. /\ graph' \in Worlds /\ snapshot' \in Configs
      /\ UNCHANGED <<click, wire, runner, device, telemetry, acted>>
  BY DEF WorldChanges, vars, services, MeshInv, Typed
<1>2. Typed'
  BY <1>1 DEF MeshInv, Typed
<1>3. ASSUME NEW c \in Clicks, NEW i \in 0..Len(Task)
      PROVE  TruthOK(c, i)'
  BY <1>1, CalleeStands, TruthStands
<1> QED
  BY <1>1, <1>2, <1>3, CalleeStands, InvStands

-----------------------------------------------------------------------------
(* The invariant holds.                                                    *)

\* Nothing is under way at the beginning.
LEMMA InitInv == Init => MeshInv
<1> SUFFICES ASSUME Init PROVE MeshInv
  OBVIOUS
<1>1. Typed
  BY FactoryIs, TelemetryAssumption DEF Init, Typed
<1>2. ASSUME NEW c \in Clicks
      PROVE  click[c].stage = "idle" /\ runner[c].stage = "idle"
  BY DEF Init, Idle
<1>3. ASSUME NEW c \in Clicks PROVE ClickOK(c) /\ RunnerOK(c)
  BY <1>2 DEF ClickOK, RunnerOK
<1>4. ASSUME NEW c \in Clicks, NEW i \in 0..Len(Task)
      PROVE  TruthOK(c, i) /\ <<c, i>> \notin acted
  <2>1. Told(c, i) = "nothing"
    BY <1>2 DEF Told
  <2> QED
    BY <2>1 DEF TruthOK, Init
<1> QED
  BY <1>1, <1>3, <1>4 DEF Init, MeshInv, Alone

\* Every step keeps the invariant.
LEMMA NextInv == MeshInv /\ [Next]_vars => MeshInv'
<1> SUFFICES ASSUME MeshInv, [Next]_vars PROVE MeshInv'
  OBVIOUS
<1>1. ASSUME NEW c \in Clicks, FrontMoves(c) PROVE MeshInv'
  <2>1. CASE \E ask \in Asks[c], t \in Sessions : Send(c, ask, t)
    BY <2>1, SendKeeps
  <2>2. CASE PassGateway(c)
    BY <2>2, PassGatewayKeeps
  <2>3. CASE PassService(c)
    BY <2>3, PassServiceKeeps
  <2>4. CASE TurnAway(c) \/ GiveUp(c)
    BY <2>4, TellKeeps
  <2> QED
    BY <1>1, <2>1, <2>2, <2>3, <2>4 DEF FrontMoves
<1>2. ASSUME NEW c \in Clicks, RunnerMoves(c) PROVE MeshInv'
  <2>1. CASE Exchange(c)
    BY <2>1, ExchangeKeeps
  <2>2. CASE ExchangeFails(c)
    BY <2>2, ExchangeFailsKeeps
  <2>3. CASE TryStep(c)
    BY <2>3, TryStepKeeps
  <2>4. CASE StepFails(c)
    BY <2>4, StepFailsKeeps
  <2>5. CASE Report(c)
    BY <2>5, ReportKeeps
  <2> QED
    BY <1>2, <2>1, <2>2, <2>3, <2>4, <2>5 DEF RunnerMoves
<1>3. ASSUME NEW w \in wire, CalleeMoves(w) PROVE MeshInv'
  <2>1. CASE Pass(w)
    BY <2>1, PassKeeps
  <2>2. CASE Refuse(w)
    BY <2>2, RefuseKeeps
  <2>3. CASE Serve(w)
    BY <2>3, ServeKeeps
  <2>4. CASE Ingest(w)
    BY <2>4, IngestKeeps
  <2>5. CASE StartTask(w)
    BY <2>5, StartTaskKeeps
  <2>6. CASE Reject(w)
    BY <2>6, RejectKeeps
  <2>7. CASE Return(w)
    BY <2>7, ReturnKeeps
  <2> QED
    BY <1>3, <2>1, <2>2, <2>3, <2>4, <2>5, <2>6, <2>7 DEF CalleeMoves
<1>4. CASE WorldChanges \/ UNCHANGED vars
  BY <1>4, WorldKeeps
<1>5. CASE Restart
  BY <1>5, RestartKeeps
<1> QED
  BY <1>1, <1>2, <1>3, <1>4, <1>5 DEF Next

\* Clicks, tasks and calls agree with one another, always.
LEMMA InvHolds == Spec => []MeshInv
BY InitInv, NextInv, PTL DEF Spec

-----------------------------------------------------------------------------
(* What follows from it.                                                   *)

\* Every click, task, call and reading is of the kind the services have: no
\* transcript outgrows its task, no more readings are kept than the cap, and
\* no step of a click is on the wire twice (Upstream.Do, runTask, ingest).
THEOREM MeshTypeCorrect == Spec => []MeshTypeOK
<1>1. ASSUME MeshInv PROVE MeshTypeOK
  <2>1. ASSUME NEW c \in Clicks PROVE click[c] \in Click
    BY <1>1 DEF MeshInv, Typed, Click, Clicked
  <2>2. ASSUME NEW c \in Clicks PROVE runner[c] \in Run
    <3>1. CASE runner[c].stage = "idle"
      <4>1. runner[c] \notin Doing
        BY <3>1 DEF Doing
      <4> QED
        BY <1>1, <4>1 DEF MeshInv, Typed, Run
    <3>2. CASE runner[c].stage # "idle"
      <4>1. PICK k : k = runner[c]
        OBVIOUS
      <4>2. k \in Doing /\ Len(k.told) <= Len(Task)
        BY <1>1, <3>2, <4>1, RunnerIs DEF MeshInv, RunnerOK
      <4>3. PICK n \in 0..Len(Task) : n = Len(k.told)
        BY <4>2, ErrandsAssumption DEF Doing
      <4>4. k.told \in [1..n -> Answers]
        BY <4>2, <4>3 DEF Doing
      <4>5. k.told \in UNION {[1..m -> Answers] : m \in 0..Len(Task)}
        BY <4>4
      <4> QED
        BY <4>1, <4>2, <4>5 DEF Doing, Run
    <3> QED
      BY <3>1, <3>2
  <2>3. ASSUME NEW d \in DOMAIN device
        PROVE  device[d].by \in Users \cup Devices \cup {None}
    BY <1>1 DEF MeshInv, Typed, Thing
  <2> QED
    BY <1>1, <2>1, <2>2, <2>3 DEF MeshTypeOK, MeshInv, Typed, Alone
<1> QED
  BY <1>1, InvHolds, PTL

\* Whoever is told "ok" has been served, and whoever is refused with a reason
\* of the authorizer's has not been and will not be, for the click and for
\* every step of its transcript, however late answers come and whatever
\* restarts.  Of a denial that gives no such reason nothing is claimed: the
\* page shows one for a 503 too, which may be of something that was done
\* (handleAction, handleAssistantRun, runTask, call).
THEOREM ToldTheTruth == Spec => []AnswersAreTrue
<1>1. ASSUME MeshInv PROVE AnswersAreTrue
  <2>1. ASSUME NEW c \in Clicks, NEW i \in 0..Len(Task)
        PROVE  TruthOK(c, i)
    BY <1>1 DEF MeshInv
  <2> QED
    BY <2>1 DEF AnswersAreTrue, TruthOK, Told
<1> QED
  BY <1>1, InvHolds, PTL

-----------------------------------------------------------------------------
(* What it means to have been asked about.                                 *)

\* Whom a bearer token makes its bearer.
Bearer(cfg, w) == FromClaims(cfg, w.bearer)

\* No route, no admission.
LEMMA AdmittedOnRoute ==
  ASSUME NEW w \in Carried, NEW cfg \in Configs, Admitted(cfg, w)
  PROVE  RuleAt(cfg, Inner[w.ask.kind]) # None
<1> SUFFICES ASSUME RuleAt(cfg, Inner[w.ask.kind]) = None
             PROVE  FALSE
  OBVIOUS
<1>1. RuleAt(cfg, AtCallee(w).endpoint) = None
  BY DEF AtCallee, Hop, RuleAt
<1> QED
  BY <1>1 DEF Admitted, Verdict, Unidentified, Gated

\* On a route between services nobody passes whom SpiceDB has not been asked
\* about, and whoever passes is known, has the permission and, where the
\* route demands it, has authenticated for it.
LEMMA GuardedAsks ==
  ASSUME NEW w \in Carried, NEW cfg \in Configs, NEW rule, rule # None,
         rule = RuleAt(cfg, Inner[w.ask.kind]),
         Guarded(rule, rule.type, rule.permission),
         Admitted(cfg, w)
  PROVE  /\ Known(cfg, w.bearer)
         /\ rule.stepUp => /\ Bearer(cfg, w).kind = "user"
                           /\ Bearer(cfg, w).acr >= rule.minACR
         /\ \A q \in Plan(cfg, AtCallee(w)) : Holds(q, w.seen)
<1>1. PICK r : r = AtCallee(w)
  OBVIOUS
<1>2. /\ r.endpoint = Inner[w.ask.kind] /\ r.bearer = w.bearer
      /\ r.source = w.source /\ r.param = w.ask.target
      /\ RuleAt(cfg, r.endpoint) = rule
  BY <1>1 DEF AtCallee, Hop, RuleAt
<1>3. w.bearer # None
  BY RequestAssumption DEF Carried
<1>4. Credential(r, rule) = w.bearer
  BY <1>2, <1>3 DEF Credential, UsesBearer, AuthMode, Guarded
<1>5. Verdict(cfg, r) = "permitted" \/ Verdict(cfg, r) = "ask"
  BY <1>1 DEF Admitted
<1>6. /\ Known(cfg, w.bearer)
      /\ \/ Gated(cfg, r, rule, Bearer(cfg, w)) = "permitted"
         \/ Gated(cfg, r, rule, Bearer(cfg, w)) = "ask"
      /\ Verdict(cfg, r) = Gated(cfg, r, rule, Bearer(cfg, w))
  BY <1>2, <1>3, <1>4, <1>5
     DEF Verdict, Unidentified, Guarded, Bearer
<1>7. /\ Gated(cfg, r, rule, Bearer(cfg, w)) = "ask"
      /\ StepUpMet(rule, Bearer(cfg, w))
  BY <1>6 DEF Gated, Guarded
<1> QED
  BY <1>1, <1>6, <1>7 DEF StepUpMet, Admitted

\* What SpiceDB has then said of her.
LEMMA GuardedHolds ==
  ASSUME NEW w \in Carried, NEW cfg \in Configs, NEW rule, rule # None,
         rule = RuleAt(cfg, Inner[w.ask.kind]),
         Guarded(rule, rule.type, rule.permission),
         \A q \in Plan(cfg, AtCallee(w)) : Holds(q, w.seen)
  PROVE  /\ Permitted(w.seen, Object(rule.type, w.ask.target),
                      rule.permission, Subject(Bearer(cfg, w)))
         /\ Bearer(cfg, w).kind = "user" /\ rule.consentRequired =>
              \/ FirstParty(cfg, Bearer(cfg, w).application)
              \/ Consented(w.seen, Bearer(cfg, w).subject,
                           Bearer(cfg, w).application, rule.capability)
         /\ Bearer(cfg, w).kind = "agent" =>
              /\ EnrolledFor(w.seen, Bearer(cfg, w).agent,
                             Bearer(cfg, w).subject)
              /\ rule.capability # None =>
                   Delegated(w.seen, Bearer(cfg, w).subject,
                             Bearer(cfg, w).agent, rule.capability)
<1>1. PICK r : r = AtCallee(w)
  OBVIOUS
<1>2. PICK id : id = Bearer(cfg, w)
  OBVIOUS
<1>3. /\ r.endpoint = Inner[w.ask.kind] /\ r.bearer = w.bearer
      /\ r.param = w.ask.target
      /\ RuleAt(cfg, r.endpoint) = rule
  BY <1>1 DEF AtCallee, Hop, RuleAt
<1>4. w.bearer # None
  BY RequestAssumption DEF Carried
<1>5. FromClaims(cfg, Credential(r, rule)) = id
  BY <1>2, <1>3, <1>4 DEF Credential, UsesBearer, AuthMode, Guarded, Bearer
<1>6. ResourceId(rule, r, id) = w.ask.target
  BY <1>3 DEF ResourceId, TargetId, Guarded
<1>7. /\ Permitted(w.seen, Object(rule.type, ResourceId(rule, r, id)),
                   rule.permission, Subject(id))
      /\ ConsentApplies(cfg, rule, id) =>
           Permitted(w.seen, ConsentGrant(id.subject, id.application),
                     "includes", Capability(rule.capability))
      /\ id.kind = "agent" =>
           Permitted(w.seen, Agent(id.agent), "act_for", User(id.subject))
      /\ id.kind = "agent" /\ rule.capability # None =>
           Permitted(w.seen, Delegation(id.subject, id.agent),
                     "includes", Capability(rule.capability))
  BY <1>1, <1>3, <1>5, PlanHolds
<1> QED
  BY <1>2, <1>6, <1>7
     DEF ConsentApplies, Consented, EnrolledFor, Delegated

\* A person is known by her own token.
LEMMA UserBearer ==
  ASSUME NEW w, NEW cfg, Bearer(cfg, w).kind = "user"
  PROVE  /\ Bearer(cfg, w).subject = w.bearer.sub
         /\ Bearer(cfg, w).application = w.bearer.azp
         /\ Bearer(cfg, w).acr = w.bearer.acr
         /\ Subject(Bearer(cfg, w)) = User(w.bearer.sub)
         /\ AgentsByClient(cfg, w.bearer.azp) = {}
BY DEF Bearer, FromClaims, Subject, User, Object, AgentsByClient

\* A token of the agent's client is an agent's in every configuration that
\* knows it, and it acts for the person the token is about.
LEMMA AgentBearer ==
  ASSUME NEW w, NEW cfg \in Configs, w.bearer.azp = AgentClient,
         Known(cfg, w.bearer)
  PROVE  /\ Bearer(cfg, w).kind = "agent"
         /\ Bearer(cfg, w).subject = w.bearer.sub
         /\ Bearer(cfg, w).agent \in Agents
         /\ Subject(Bearer(cfg, w)) = User(w.bearer.sub)
<1>1. AgentsByClient(cfg, AgentClient) # {}
  BY IdentitiesAssumption
     DEF Known, AgentsByClient, DeviceOf, AppByName
<1>2. PICK e : e = AgentByClient(cfg, AgentClient)
  OBVIOUS
<1>3. e \in AgentsByClient(cfg, AgentClient)
  BY <1>1, <1>2 DEF AgentByClient, AgentsByClient
<1>4. e.object \in Agents
  BY <1>3, ConfigAssumption DEF AgentsByClient, Config, AgentEntry
<1> QED
  BY <1>1, <1>2, <1>4
     DEF Bearer, FromClaims, Subject, User, Object, AgentsByClient

\* Whatever the agent's steps do, they do for the person who clicked, with
\* her permission, her enrolment and her delegation at that moment (runTask,
\* exchange, call).
THEOREM AgentServesTheAsker == Spec => []AgentServesWhoeverAsked
<1>1. ASSUME MeshInv PROVE AgentServesWhoeverAsked
  <2> SUFFICES ASSUME NEW w \in wire, w.step > 0, w.stage = "passed"
               PROVE  LET person == click[w.click].token.sub IN
                      /\ w.bearer.sub = person
                      /\ \E a \in Agents, cfg \in Configs :
                           LET rule == RuleAt(cfg, Inner[w.ask.kind]) IN
                           /\ EnrolledFor(w.seen, a, person)
                           /\ Delegated(w.seen, person, a, rule.capability)
                           /\ Permitted(w.seen,
                                        Object(rule.type, w.ask.target),
                                        rule.permission, User(person))
    BY DEF AgentServesWhoeverAsked
  <2>1. w \in Carried /\ CallOK(w)
    BY <1>1 DEF MeshInv, Typed
  <2>2. PICK person : person = click[w.click].token.sub
    OBVIOUS
  <2>3. w.bearer.sub = person /\ w.bearer.azp = AgentClient
        /\ w.ask.kind = Task[w.step].kind
    BY <2>1, <2>2 DEF CallOK
  <2>4. w.step \in DOMAIN Task
    BY <2>1, ErrandsAssumption DEF Carried
  <2>5. PICK cfg \in Configs : Admitted(cfg, w)
    BY <2>1 DEF CallOK, Checked
  <2>6. PICK rule : rule = RuleAt(cfg, Inner[w.ask.kind])
    OBVIOUS
  <2>7. rule # None
    BY <2>1, <2>5, <2>6, AdmittedOnRoute
  <2>8. Guarded(rule, rule.type, rule.permission) /\ rule.capability # None
    BY <2>3, <2>4, <2>6, <2>7, RoutesAssumption
  <2>9. /\ Known(cfg, w.bearer)
        /\ \A q \in Plan(cfg, AtCallee(w)) : Holds(q, w.seen)
    BY <2>1, <2>5, <2>6, <2>7, <2>8, GuardedAsks
  <2>10. PICK a \in Agents : a = Bearer(cfg, w).agent
    BY <2>3, <2>9, AgentBearer
  <2>11. /\ Bearer(cfg, w).kind = "agent" /\ Bearer(cfg, w).subject = person
         /\ Subject(Bearer(cfg, w)) = User(person)
    BY <2>3, <2>9, AgentBearer
  <2>12. /\ Permitted(w.seen, Object(rule.type, w.ask.target),
                      rule.permission, User(person))
         /\ EnrolledFor(w.seen, a, person)
         /\ Delegated(w.seen, person, a, rule.capability)
    BY <2>1, <2>6, <2>7, <2>8, <2>9, <2>10, <2>11, GuardedHolds
  <2> QED
    BY <2>2, <2>3, <2>6, <2>10, <2>12
<1> QED
  BY <1>1, InvHolds, PTL

-----------------------------------------------------------------------------
(* What has an effect on device-service.                                   *)

\* Devices and readings change only where device-service acts.
LEMMA DeviceMoves ==
  ASSUME [Next]_vars
  PROVE  \/ UNCHANGED <<device, telemetry>>
         \/ Restart
         \/ \E w \in wire : Serve(w) \/ Ingest(w)
BY DEF Next, FrontMoves, RunnerMoves, CalleeMoves, WorldChanges, vars,
       services, Send, PassGateway, PassService, TurnAway, GiveUp, Pass,
       Refuse, Reject, StartTask, Return, Exchange, ExchangeFails, TryStep,
       StepFails, Report

\* A call to unlock that has passed is that of a person who may.
LEMMA UnlockIsOwners ==
  ASSUME MeshInv, NEW w \in wire, w.stage = "passed", w.ask.kind = "unlock"
  PROVE  OpensOwn(w, w.ask.target) /\ w.user = w.bearer.sub
<1>1. w \in Carried /\ CallOK(w)
  BY DEF MeshInv, Typed
<1>2. PICK cfg \in Configs :
        Admitted(cfg, w) /\ w.user = Bearer(cfg, w).subject
  BY <1>1 DEF CallOK, Checked, Bearer
<1>3. PICK rule : rule = RuleAt(cfg, Inner[w.ask.kind])
  OBVIOUS
<1>4. rule # None
  BY <1>1, <1>2, <1>3, AdmittedOnRoute
<1>5. /\ Guarded(rule, "device", "operate_lock")
      /\ rule.stepUp /\ rule.minACR >= 1 /\ rule.consentRequired
  BY <1>3, <1>4, RoutesAssumption
<1>6. /\ Guarded(rule, rule.type, rule.permission)
      /\ rule.type = "device" /\ rule.permission = "operate_lock"
  BY <1>5 DEF Guarded
<1>7. /\ Known(cfg, w.bearer)
      /\ Bearer(cfg, w).kind = "user"
      /\ Bearer(cfg, w).acr >= rule.minACR
      /\ \A q \in Plan(cfg, AtCallee(w)) : Holds(q, w.seen)
  BY <1>1, <1>2, <1>3, <1>4, <1>5, <1>6, GuardedAsks
<1>8. /\ Bearer(cfg, w).subject = w.bearer.sub
      /\ Bearer(cfg, w).application = w.bearer.azp
      /\ Bearer(cfg, w).acr = w.bearer.acr
      /\ Subject(Bearer(cfg, w)) = User(w.bearer.sub)
  BY <1>7, UserBearer
<1>9. w.bearer.azp # AgentClient
  <2>1. CASE w.bearer.azp = AgentClient
    BY <1>7, <2>1, AgentBearer
  <2> QED
    BY <2>1
<1>10. /\ Permitted(w.seen, Object(rule.type, w.ask.target),
                    rule.permission, Subject(Bearer(cfg, w)))
       /\ \/ FirstParty(cfg, Bearer(cfg, w).application)
          \/ Consented(w.seen, Bearer(cfg, w).subject,
                       Bearer(cfg, w).application, rule.capability)
  BY <1>1, <1>3, <1>4, <1>5, <1>6, <1>7, GuardedHolds
<1>11. w.bearer.acr >= 1
  <2>1. rule \in Rule
    BY <1>1, <1>3, <1>4, ErrandsAssumption, ConfigAssumption
       DEF RuleAt, Config, Carried, Errand
  <2>2. rule.minACR \in Int /\ w.bearer.acr \in Int
    BY <1>1, <2>1 DEF Rule, Carried, Token
  <2> QED
    BY <1>5, <1>7, <1>8, <2>2
<1> QED
  BY <1>2, <1>3, <1>6, <1>8, <1>9, <1>10, <1>11 DEF Device, OpensOwn

\* A door is unlocked only by a person herself, authenticated for it, who may
\* operate the lock and has consented to the application she uses, unless it
\* is first-party (device-unlock).
THEOREM DoorsAreTheirOwners == Spec => DoorsOpenForTheirOwners
<1>1. ASSUME MeshInv, [Next]_vars, NEW d \in DOMAIN device,
             device'[d].state = "unlocked",
             device'[d].state # device[d].state \/ device'[d].by # device[d].by
      PROVE  \E w \in wire : OpensOwn(w, d) /\ w.bearer.sub = device'[d].by
  <2>1. device \in [DOMAIN InitialState -> Thing]
    BY <1>1 DEF MeshInv, Typed
  <2>2. PICK o : o = device[d]
    OBVIOUS
  <2>3. o \in Thing /\ d \in DOMAIN InitialState
    BY <1>1, <2>1, <2>2
  <2>4. ~UNCHANGED <<device, telemetry>>
    BY <1>1
  <2>5. ASSUME Restart PROVE FALSE
    <3>1. device'[d].state = InitialState[d]
      BY <2>3, <2>5 DEF Restart, Factory
    <3> QED
      BY <1>1, <2>3, <3>1, LockedAssumption
  <2>6. ASSUME NEW w \in wire, Ingest(w) PROVE FALSE
    <3>1. device'[d] = IF d = w.ask.target THEN [o EXCEPT !.reading = TRUE]
                       ELSE o
      BY <2>1, <2>2, <2>3, <2>6 DEF Ingest
    <3>2. PICK n : n = [o EXCEPT !.reading = TRUE]
      OBVIOUS
    <3>3. n.state = o.state /\ n.by = o.by
      BY <2>3, <3>2 DEF Thing
    <3> QED
      BY <1>1, <2>2, <3>1, <3>2, <3>3
  <2>7. ASSUME NEW w \in wire, Serve(w)
        PROVE  /\ w.stage = "passed" /\ w.ask.kind = "unlock"
               /\ w.ask.target = d /\ device'[d].by = w.user
    <3>1. w.ask.kind \in DOMAIN NewState
      BY <1>1, <2>7 DEF Serve
    <3>2. PICK s : s = NewState[w.ask.kind]
      OBVIOUS
    <3>3. PICK n : n = [o EXCEPT !.state = s, !.by = w.user]
      OBVIOUS
    <3>4. n.state = s /\ n.by = w.user
      BY <2>3, <3>3 DEF Thing
    <3>5. device'[d] = IF d = w.ask.target THEN n ELSE o
      BY <2>1, <2>2, <2>3, <2>7, <3>1, <3>2, <3>3 DEF Serve
    <3>6. d = w.ask.target /\ s = "unlocked"
      BY <1>1, <2>2, <3>4, <3>5
    <3>7. w.ask.kind = "unlock"
      BY <3>1, <3>2, <3>6 DEF NewState
    <3> QED
      BY <2>7, <3>4, <3>5, <3>6, <3>7 DEF Serve
  <2>8. PICK w \in wire : Serve(w)
    BY <1>1, <2>4, <2>5, <2>6, DeviceMoves
  <2> QED
    BY <1>1, <2>7, <2>8, UnlockIsOwners
<1>2. MeshInv /\ [Next]_vars =>
        [\A d \in DOMAIN device :
           /\ device'[d].state = "unlocked"
           /\ device'[d].state # device[d].state \/ device'[d].by # device[d].by
           => \E w \in wire : OpensOwn(w, d) /\ w.bearer.sub = device'[d].by
        ]_vars
  BY <1>1
<1> QED
  BY <1>2, InvHolds, PTL DEF Spec, DoorsOpenForTheirOwners

\* A push that has passed is that of a device which was then its own.
LEMMA PushIsOwn ==
  ASSUME MeshInv, NEW w \in wire, w.stage = "passed", w.ask.kind = "push"
  PROVE  OwnReading(w, [device |-> w.ask.target, principal |-> w.user])
<1>1. w \in Carried /\ CallOK(w) /\ w.seen \in Worlds
  BY DEF MeshInv, Typed, CallOK
<1>2. PICK cfg \in Configs :
        Admitted(cfg, w) /\ w.user = Bearer(cfg, w).subject
  BY <1>1 DEF CallOK, Checked, Bearer
<1>3. PICK rule : rule = RuleAt(cfg, Inner[w.ask.kind])
  OBVIOUS
<1>4. rule # None
  BY <1>1, <1>2, <1>3, AdmittedOnRoute
<1>5. Guarded(rule, "device", "push_telemetry")
  BY <1>3, <1>4, RoutesAssumption
<1>6. /\ Guarded(rule, rule.type, rule.permission)
      /\ rule.type = "device" /\ rule.permission = "push_telemetry"
  BY <1>5 DEF Guarded
<1>7. \A q \in Plan(cfg, AtCallee(w)) : Holds(q, w.seen)
  BY <1>1, <1>2, <1>3, <1>4, <1>6, GuardedAsks
<1>8. PICK sub : sub = Subject(Bearer(cfg, w))
  OBVIOUS
<1>9. Permitted(w.seen, Device(w.ask.target), "push_telemetry", sub)
  BY <1>1, <1>3, <1>4, <1>6, <1>7, <1>8, GuardedHolds DEF Device
<1>10. Related(w.seen, Device(w.ask.target), "self", sub)
  <2>1. DirectlyPermitted(w.seen, Device(w.ask.target), "push_telemetry", sub)
    BY <1>9 DEF Permitted, InheritedPermissions
  <2> QED
    BY <2>1 DEF DirectlyPermitted, DirectPermissions
<1>11. PICK d \in Devices :
         /\ Device(w.ask.target) = Device(d)
         /\ sub = SystemPrincipal(d)
  BY <1>1, <1>10, IdentitiesAssumption DEF Related
<1>12. w.ask.target = d
  BY <1>11 DEF Device, Object
<1>13. Bearer(cfg, w).subject = d
  <2>1. PICK id : id = Bearer(cfg, w)
    OBVIOUS
  <2>2. sub = IF id.kind = "system" THEN Object("system_principal", id.subject)
              ELSE Object("user", id.subject)
    BY <1>8, <2>1 DEF Subject, SystemPrincipal, User, Object
  <2> QED
    BY <1>11, <2>1, <2>2 DEF SystemPrincipal, Object
<1> QED
  BY <1>2, <1>10, <1>11, <1>12, <1>13 DEF OwnReading

\* A reading that is kept is the sending device's own, and it was then still
\* in service (ingest, telemetry-ingest).
THEOREM ReadingsAreOwn == Spec => TelemetryIsOwn
<1>1. ASSUME MeshInv, [Next]_vars, NEW i \in DOMAIN telemetry'
      PROVE  \/ \E j \in DOMAIN telemetry : telemetry'[i] = telemetry[j]
             \/ \E w \in wire : OwnReading(w, telemetry'[i])
  <2>1. CASE telemetry' = telemetry
    BY <1>1, <2>1
  <2>2. CASE Restart
    BY <1>1, <2>2 DEF Restart
  <2>3. ASSUME NEW w \in wire, Serve(w) PROVE telemetry' = telemetry
    BY <2>3 DEF Serve
  <2>4. ASSUME NEW w \in wire, Ingest(w)
        PROVE  \/ \E j \in DOMAIN telemetry : telemetry'[i] = telemetry[j]
               \/ OwnReading(w, telemetry'[i])
    <3>1. w.stage = "passed" /\ w.ask.kind = "push"
      BY <2>4 DEF Ingest
    <3> QED
      BY <1>1, <2>4, <3>1, PushIsOwn, TelemetryIs
  <2> QED
    BY <1>1, <2>1, <2>2, <2>3, <2>4, DeviceMoves
<1>2. MeshInv /\ [Next]_vars =>
        [\A i \in DOMAIN telemetry' :
           \/ \E j \in DOMAIN telemetry : telemetry'[i] = telemetry[j]
           \/ \E w \in wire : OwnReading(w, telemetry'[i])]_vars
  BY <1>1
<1> QED
  BY <1>2, InvHolds, PTL DEF Spec, TelemetryIsOwn

-----------------------------------------------------------------------------
(* No hop lives on the decision of the one before.                         *)

\* Whatever passes a hop is authorized there and then.
LEMMA PassesAuthorized ==
  ASSUME Typed, NEW r, r.endpoint \in Endpoints, Passes(r)
  PROVE  Authorized(snapshot, r, graph)
BY OnlyTheAuthorized DEF Typed, Passes

\* A click moves on by being sent, let through at a hop, or answered.
LEMMA ClickMoves ==
  ASSUME Typed, [Next]_vars, NEW c \in Clicks
  PROVE  \/ click'[c] = click[c]
         \/ PassGateway(c)
         \/ PassService(c)
         \/ click'[c].stage \in {"gateway", "answered"}
<1>1. ASSUME NEW d \in Clicks, d # c, FrontMoves(d)
      PROVE  click'[c] = click[c]
  BY <1>1 DEF Typed, FrontMoves, Send, PassGateway, PassService, TurnAway,
              GiveUp, Tell
<1>2. ASSUME NEW ask \in Asks[c], NEW t \in Sessions, Send(c, ask, t)
      PROVE  click'[c].stage = "gateway"
  BY <1>2 DEF Send, Typed
<1>3. ASSUME TurnAway(c) \/ GiveUp(c)
      PROVE  click'[c].stage = "answered"
  <2>1. PICK answer \in Answers :
          Tell(c, answer) /\ click[c].stage # "idle"
    BY <1>3 DEF TurnAway, GiveUp, Answers
  <2> QED
    BY <2>1, TellIs
<1>4. ASSUME NEW w \in wire, Return(w)
      PROVE  click'[c] = click[c] \/ click'[c].stage = "answered"
  <2>1. CASE UNCHANGED click
    BY <2>1
  <2>2. CASE ~UNCHANGED click
    <3>1. Tell(w.click, Answer(w)) /\ Awaited(w) /\ w.step = 0
      BY <1>4, <2>2 DEF Return
    <3>2. w.click \in Clicks /\ click[w.click].stage # "idle"
      BY <3>1 DEF Typed, Carried, Awaited
    <3>3. Answer(w) \in Answers
      BY DEF Answer, Answers
    <3> QED
      BY <3>1, <3>2, <3>3, TellIs
  <2> QED
    BY <2>1, <2>2
<1>5. ASSUME \/ \E d \in Clicks : RunnerMoves(d)
             \/ \E w \in wire : CalleeMoves(w) /\ ~Return(w)
             \/ WorldChanges \/ Restart \/ UNCHANGED vars
      PROVE  UNCHANGED click
  BY <1>5 DEF RunnerMoves, CalleeMoves, WorldChanges, Restart, vars, Pass,
              Refuse, Serve, Ingest, Reject, StartTask, Exchange,
              ExchangeFails, TryStep, StepFails, Report
<1> QED
  BY <1>1, <1>2, <1>3, <1>4, <1>5 DEF Next, FrontMoves

\* A call that is new on the wire, and has passed, is one that was sent and
\* has been let through by its callee's sidecar.
LEMMA PassedIs ==
  ASSUME Typed, [Next]_vars, NEW w \in wire', w \notin wire,
         w.stage = "passed"
  PROVE  \E v \in wire : Passes(AtCallee(v)) /\ AtCallee(w) = AtCallee(v)
<1>1. ASSUME NEW v \in wire, NEW stage \in Stages, stage # "passed",
             wire' = With(v, stage)
      PROVE  FALSE
  <2>1. PICK u : u = [v EXCEPT !.stage = stage, !.seen = NoWorld]
    OBVIOUS
  <2>2. w = u
    BY <1>1, <2>1 DEF With
  <2>3. u.stage = stage
    BY <2>1 DEF Typed, Carried
  <2> QED
    BY <1>1, <2>2, <2>3
<1>2. ASSUME NEW c, NEW i, NEW ask, NEW source, NEW token,
             wire' = wire \cup {Call(c, i, ask, source, token)}
      PROVE  FALSE
  BY <1>2 DEF Call
<1>3. ASSUME wire' \subseteq wire
      PROVE  FALSE
  BY <1>3
<1>4. ASSUME NEW v \in wire, Pass(v)
      PROVE  Passes(AtCallee(v)) /\ AtCallee(w) = AtCallee(v)
  <2>1. PICK user : user = FromClaims(snapshot, v.bearer).subject
    OBVIOUS
  <2>2. PICK u : u = [v EXCEPT !.stage = "passed", !.seen = graph,
                               !.user = user]
    OBVIOUS
  <2>3. w = u
    BY <1>4, <2>1, <2>2 DEF Pass
  <2>4. u.ask = v.ask /\ u.source = v.source /\ u.bearer = v.bearer
    BY <2>2 DEF Typed, Carried
  <2> QED
    BY <1>4, <2>3, <2>4 DEF Pass, AtCallee
<1>5. ASSUME NEW c \in Clicks, FrontMoves(c)
      PROVE  FALSE
  BY <1>2, <1>3, <1>5 DEF FrontMoves, Send, PassGateway, PassService,
                          TurnAway, GiveUp
<1>6. ASSUME NEW c \in Clicks, RunnerMoves(c)
      PROVE  FALSE
  <2>1. CASE Exchange(c) \/ StepFails(c)
    BY <1>3, <2>1 DEF Exchange, StepFails
  <2>2. CASE TryStep(c)
    BY <1>2, <2>2 DEF TryStep
  <2>3. CASE ExchangeFails(c) \/ Report(c)
    <3>1. \E v \in wire, stage \in {"failed", "done"} : wire' = With(v, stage)
      BY <2>3 DEF ExchangeFails, Report, Running
    <3> QED
      BY <1>1, <3>1 DEF Stages
  <2> QED
    BY <1>6, <2>1, <2>2, <2>3 DEF RunnerMoves
<1>7. ASSUME NEW v \in wire, CalleeMoves(v), ~Pass(v)
      PROVE  FALSE
  <2>1. CASE Return(v)
    BY <1>3, <2>1 DEF Return
  <2>2. CASE ~Return(v)
    <3>1. \E stage \in {"refused", "failed", "done", "running"} :
            wire' = With(v, stage)
      BY <1>7, <2>2 DEF CalleeMoves, Refuse, Serve, Ingest, Reject, StartTask
    <3> QED
      BY <1>1, <3>1 DEF Stages
  <2> QED
    BY <2>1, <2>2
<1>8. ASSUME WorldChanges \/ Restart \/ UNCHANGED vars
      PROVE  FALSE
  BY <1>3, <1>8 DEF WorldChanges, Restart, vars
<1> QED
  BY <1>4, <1>5, <1>6, <1>7, <1>8 DEF Next

\* Telemetry does not reach the service.
NoPushServed ==
  \A c \in Clicks : click[c].stage = "service" => click[c].ask.kind # "push"

HopInv == MeshInv /\ NoPushServed

LEMMA NoPushIsServed == Spec => []HopInv
<1>1. Init => NoPushServed
  BY DEF Init, NoPushServed, Idle
<1>2. MeshInv /\ NoPushServed /\ [Next]_vars => NoPushServed'
  <2> SUFFICES ASSUME MeshInv, NoPushServed, [Next]_vars, NEW c \in Clicks,
                      click'[c].stage = "service"
               PROVE  click'[c].ask.kind # "push"
    BY DEF NoPushServed
  <2>1. click \in [Clicks -> {Idle} \cup Clicked]
    BY DEF MeshInv, Typed
  <2>2. CASE click'[c] = click[c]
    BY <2>2 DEF NoPushServed
  <2>3. ASSUME NEW d \in Clicks, PassGateway(d), d = c
        PROVE  click'[c].ask.kind # "push"
    <3>1. PICK k : k = click[c]
      OBVIOUS
    <3>2. k \in Clicked
      BY <2>1, <2>3, <3>1 DEF PassGateway, Idle
    <3>3. k.ask.kind # "push"
      <4>1. CASE k.ask.kind = "push"
        <5>1. click'[c] = [k EXCEPT !.stage = "waiting"]
          BY <2>1, <2>3, <3>1, <4>1 DEF PassGateway
        <5>2. click'[c].stage = "waiting"
          BY <3>2, <5>1 DEF Clicked
        <5> QED
          BY <5>2
      <4> QED
        BY <4>1
    <3>4. click'[c] = [k EXCEPT !.stage = "service"]
      BY <2>1, <2>3, <3>1, <3>3 DEF PassGateway
    <3> QED
      BY <3>2, <3>3, <3>4 DEF Clicked
  <2>4. \/ click'[c] = click[c]
        \/ \E d \in Clicks : PassGateway(d) /\ d = c
        \/ click'[c].stage \in {"gateway", "waiting", "answered"}
    <3>1. PassService(c) => click'[c].stage = "waiting"
      BY OnwardIs DEF PassService, MeshInv
    <3> QED
      BY <3>1, ClickMoves DEF MeshInv
  <2> QED
    BY <2>2, <2>3, <2>4
<1> QED
  BY <1>1, <1>2, InvHolds, PTL DEF Spec, HopInv

\* Where a click is checked there is an endpoint.
LEMMA HopsAtEndpoints ==
  ASSUME Typed, NEW c \in Clicks, click[c].stage # "idle"
  PROVE  /\ AtGateway(click[c]).endpoint \in Endpoints
         /\ click[c].ask.kind # "push" =>
              AtService(click[c]).endpoint \in Endpoints
<1>1. PICK k : k = click[c]
  OBVIOUS
<1>2. PICK d \in Clicks : k.ask \in Asks[d]
  BY <1>1, ClickIs DEF Clicked
<1>3. k.ask.kind \in DOMAIN Inner
  BY <1>2, ErrandsAssumption DEF Errand
<1>4. k.ask.kind # "push" => k.ask.kind \in DOMAIN Edge
  BY <1>2, ErrandsAssumption
<1>5. k.ask.kind = "push" => AtGateway(k).endpoint = Inner["push"]
  BY DEF AtGateway, Hop
<1>6. k.ask.kind # "push" => AtGateway(k).endpoint = Edge[k.ask.kind]
  BY DEF AtGateway, Hop
<1>7. AtService(k).endpoint = Edge[k.ask.kind]
  BY DEF AtService, Hop
<1> QED
  BY <1>1, <1>3, <1>4, <1>5, <1>6, <1>7, ErrandsAssumption

\* Whatever the gateway or a sidecar lets through, the access policy
\* authorizes at that moment, for the token, the workload and the resource of
\* that very hop (Server.Check on every ext_authz filter).
THEOREM EveryHopIsAuthorized == Spec => EveryHopAuthorized
<1>1. ASSUME HopInv, [Next]_vars, NEW c \in Clicks,
             click[c].stage = "gateway",
             click'[c].stage \in {"service", "waiting"}
      PROVE  Authorized(snapshot, AtGateway(click[c]), graph)
  <2>1. PassGateway(c)
    BY <1>1, ClickMoves DEF HopInv, MeshInv, PassService
  <2> QED
    BY <1>1, <2>1, HopsAtEndpoints, PassesAuthorized
       DEF HopInv, MeshInv, PassGateway
<1>2. ASSUME HopInv, [Next]_vars, NEW c \in Clicks,
             click[c].stage = "service", click'[c].stage = "waiting"
      PROVE  Authorized(snapshot, AtService(click[c]), graph)
  <2>1. PassService(c)
    BY <1>2, ClickMoves DEF HopInv, MeshInv, PassGateway
  <2>2. click[c].ask.kind # "push"
    BY <1>2 DEF HopInv, NoPushServed
  <2> QED
    BY <1>2, <2>1, <2>2, HopsAtEndpoints, PassesAuthorized
       DEF HopInv, MeshInv, PassService
<1>3. ASSUME HopInv, [Next]_vars, NEW w \in wire' \ wire,
             w.stage = "passed"
      PROVE  Authorized(snapshot, AtCallee(w), graph)
  <2>1. PICK v \in wire : Passes(AtCallee(v)) /\ AtCallee(w) = AtCallee(v)
    BY <1>3, PassedIs DEF HopInv, MeshInv
  <2>2. v.ask.kind \in DOMAIN Inner
    BY <1>3 DEF HopInv, MeshInv, Typed, Carried, Errand
  <2>3. AtCallee(v).endpoint \in Endpoints
    BY <2>2, ErrandsAssumption DEF AtCallee, Hop
  <2> QED
    BY <1>3, <2>1, <2>3, PassesAuthorized DEF HopInv, MeshInv
<1>4. HopInv /\ [Next]_vars =>
        [/\ \A c \in Clicks :
              /\ /\ click[c].stage = "gateway"
                 /\ click'[c].stage \in {"service", "waiting"}
                 => Authorized(snapshot, AtGateway(click[c]), graph)
              /\ click[c].stage = "service" /\ click'[c].stage = "waiting"
                 => Authorized(snapshot, AtService(click[c]), graph)
         /\ \A w \in wire' \ wire :
              w.stage = "passed" => Authorized(snapshot, AtCallee(w), graph)
        ]_vars
  BY <1>1, <1>2, <1>3
<1> QED
  BY <1>4, NoPushIsServed, PTL DEF Spec, EveryHopAuthorized
=============================================================================
