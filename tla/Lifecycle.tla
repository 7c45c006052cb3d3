------------------------------- MODULE Lifecycle --------------------------------
(***************************************************************************)
(* scripts/lifecycle.sh: commands that bring devices and agents in and put *)
(* them out, over Keycloak, the document of ext-authz and the graph.  Each *)
(* line that changes something is a step; a command may stop at any of     *)
(* them and be given again, several run at once, people edit the document  *)
(* by hand, and ext-authz (Reload) reads it when it gets to it.            *)
(*                                                                         *)
(* No two commands are about the same name at once.                        *)
(***************************************************************************)
EXTENDS Reload, Naturals, Sequences

CONSTANTS
  Devices, Agents,
  Deployed,  \* those the cluster comes up with
  Mistake,   \* what makes a document unusable
  MaxRuns,   \* bound on the commands given
  MaxEdits   \* bound on edits by hand

Names == Devices \cup Agents

\* A document is what it registers, and whether there is a mistake in it.
ASSUME LifecycleAssumption ==
  /\ Documents = SUBSET (Names \cup {Mistake})
  /\ Usable = SUBSET Names
  /\ Deployed \subseteq Names
  /\ Devices \cap Agents = {} /\ Mistake \notin Names

ASSUME BoundsAssumption == MaxRuns \in Nat /\ MaxEdits \in Nat

VARIABLES
  configmap,  \* ext-authz-config, which the kubelet copies to `file`
  client,     \* each name's client at Keycloak
  rel,        \* the relationships of each name, <<relation, name>>
  job,        \* the command about each name
  failed,     \* names of which a deletion has failed; no program stores this
  runs, edits

others == <<configmap, client, rel>>
counts == <<failed, runs, edits>>
vars   == <<reloadVars, others, job, counts>>

-----------------------------------------------------------------------------
(* The commands.                                                           *)

\* Mutant: the device may report before it is known who operates it.
SelfFirst ==
  <<"enable", "read", "apply", "self", "home", "operator", "verify", "wait">>

OnboardDevice ==
  <<"enable", "read", "apply", "operator", "home", "self", "verify", "wait">>

\* Mutant: offboarding begins at Keycloak.
ClientFirst ==
  <<"disable", "cut", "cutOperator", "verify", "read", "apply", "wait">>

\* Mutant: offboarding a device is as trusting as offboarding an agent.
Unverified ==
  <<"cut", "cutOperator", "disable", "read", "apply", "wait">>

OffboardDevice ==
  <<"cut", "cutOperator", "verify", "disable", "read", "apply", "wait">>

OnboardAgent ==
  <<"enable", "read", "apply", "operator", "verify", "wait">>

EnrolAgent == <<"enrolled", "verify">>

OffboardAgent ==
  <<"cut", "cutDelegations", "disable", "read", "apply", "wait">>

Script ==
  [onboardDevice |-> OnboardDevice, offboardDevice |-> OffboardDevice,
   onboardAgent  |-> OnboardAgent,  offboardAgent  |-> OffboardAgent,
   enrolAgent    |-> EnrolAgent]

Kinds(name) ==
  IF name \in Devices THEN {"onboardDevice", "offboardDevice"}
  ELSE {"onboardAgent", "enrolAgent", "offboardAgent"}

Onboarding == {"onboardDevice", "onboardAgent"}

NoJob == [stage |-> "idle"]

Underway(n) == job[n].stage = "running"

Doing(n, op) == Underway(n) /\ Script[job[n].kind][job[n].at] = op

\* The document, the realm and the seed as they are installed.
Init ==
  /\ ReloadInit(Deployed)
  /\ configmap = Deployed
  /\ client = [n \in Names |-> IF n \in Deployed THEN "enabled" ELSE "missing"]
  /\ rel = ({"operator", "home", "self"} \X (Devices \cap Deployed))
             \cup ({"operator", "enrolled"} \X (Agents \cap Deployed))
  /\ job = [n \in Names |-> NoJob]
  /\ failed = {}
  /\ runs = 0 /\ edits = 0

Begin(n, kind) ==
  /\ ~Underway(n)
  /\ runs < MaxRuns
  /\ job' = [job EXCEPT ![n] =
               [stage |-> "running", kind |-> kind, at |-> 1,
                copy |-> {}, heard |-> FALSE, quiet |-> FALSE]]
  /\ runs' = runs + 1
  /\ UNCHANGED <<reloadVars, others, failed, edits>>

Done == [stage |-> "done"]

\* On to the next line, or out.
After(n) ==
  IF job[n].at = Len(Script[job[n].kind]) THEN Done
  ELSE [job[n] EXCEPT !.at = @ + 1]

Goes(n) == job' = [job EXCEPT ![n] = After(n)]

Fails(n) == job' = [job EXCEPT ![n] = NoJob]

\* `set -e`, die, a signal: the command ends where it is.
Die(n) ==
  /\ Underway(n)
  /\ Fails(n)
  /\ UNCHANGED <<reloadVars, others, counts>>

-----------------------------------------------------------------------------
(* Keycloak and SpiceDB.                                                   *)

\* kc_upsert_client and kc_assert_enabled.
Enable(n) ==
  /\ Doing(n, "enable")
  /\ client' = [client EXCEPT ![n] = "enabled"]
  /\ Goes(n)
  /\ UNCHANGED <<reloadVars, configmap, rel, counts>>

\* kc_disable_client does not look at the answer.
Disable(n) ==
  /\ Doing(n, "disable")
  /\ \/ client[n] # "missing" /\ client' = [client EXCEPT ![n] = "disabled"]
     \/ UNCHANGED client
  /\ Goes(n)
  /\ UNCHANGED <<reloadVars, configmap, rel, counts>>

Touch(n) ==
  /\ \E relation \in {"operator", "home", "self", "enrolled"} :
       /\ Doing(n, relation)
       /\ rel' = rel \cup {<<relation, n>>}
  /\ Goes(n)
  /\ UNCHANGED <<reloadVars, configmap, client, counts>>

\* What each bulk-delete names.  Delegations are the account console's, and
\* not kept here.
Cuts(n) ==
  [cut |-> IF n \in Devices THEN {"home", "self"} ELSE {"operator", "enrolled"},
   cutOperator |-> {"operator"},
   cutDelegations |-> {}]

\* A bulk-delete that fails is passed over: || true.
Cut(n) ==
  /\ \E op \in {"cut", "cutOperator", "cutDelegations"} :
       /\ Doing(n, op)
       /\ \/ /\ rel' = rel \ (Cuts(n)[op] \X {n})
             /\ UNCHANGED failed
          \/ /\ failed' = failed \cup {n}
             /\ UNCHANGED rel
  /\ Goes(n)
  /\ UNCHANGED <<reloadVars, configmap, client, runs, edits>>

\* The checks at full consistency, between writing and waiting.
Verified(kind, n) ==
  CASE kind = "onboardDevice"  -> {<<"self", n>>, <<"operator", n>>} \subseteq rel
    [] kind = "offboardDevice" -> <<"self", n>> \notin rel
    [] kind = "onboardAgent"   -> /\ <<"operator", n>> \in rel
                                  /\ <<"enrolled", n>> \notin rel
    [] kind = "enrolAgent"     -> <<"enrolled", n>> \in rel

Verify(n) ==
  /\ Doing(n, "verify")
  /\ IF Verified(job[n].kind, n) THEN Goes(n) ELSE Fails(n)
  /\ UNCHANGED <<reloadVars, others, counts>>

-----------------------------------------------------------------------------
(* The document.                                                           *)

Settled ==
  point = "watching" /\ configmap = file /\ file = served /\ served = last

\* Mutant: RELOAD_MARK stays that of an earlier command.
ReadUnmarked(n) ==
  /\ Doing(n, "read")
  /\ job' = [job EXCEPT
               ![n] = [After(n) EXCEPT !.copy = configmap, !.heard = TRUE,
                                       !.quiet = Settled]]
  /\ UNCHANGED <<reloadVars, others, counts>>

\* patch_registry: mark_reload_point, and the document as it is.  The mark is
\* in whole seconds, of the operator's clock: it may stand before a reload
\* that is already in the log, and then that one is heard.
ReadRegistry(n) ==
  /\ Doing(n, "read")
  /\ \E early \in BOOLEAN :
       /\ early => logged
       /\ job' = [job EXCEPT
                    ![n] = [After(n) EXCEPT !.copy = configmap,
                                            !.heard = early,
                                            !.quiet = Settled /\ ~early]]
  /\ UNCHANGED <<reloadVars, others, counts>>

Patched(n) ==
  IF job[n].kind \in Onboarding THEN job[n].copy \cup {n}
  ELSE job[n].copy \ {n}

\* No other command and nobody's edit has come between the mark and now.
Disturbed(i) == IF Underway(i) THEN [job[i] EXCEPT !.quiet = FALSE] ELSE job[i]

\* The whole document is written, whoever has changed it since it was read.
ApplyRegistry(n) ==
  /\ Doing(n, "apply")
  /\ configmap' = Patched(n)
  /\ job' = [i \in Names |-> IF i = n THEN [After(n) EXCEPT !.copy = {}]
                             ELSE Disturbed(i)]
  /\ UNCHANGED <<reloadVars, client, rel, counts>>

\* Somebody breaks the document, or mends it.
EditByHand ==
  /\ edits < MaxEdits
  /\ edits' = edits + 1
  /\ configmap' = IF Mistake \in configmap THEN configmap \ {Mistake}
                  ELSE configmap \cup {Mistake}
  /\ job' = [i \in Names |-> Disturbed(i)]
  /\ UNCHANGED <<reloadVars, client, rel, failed, runs>>

\* The kubelet gets to it.
Sync ==
  /\ file # configmap
  /\ file' = configmap
  /\ UNCHANGED <<process, others, job, counts>>

-----------------------------------------------------------------------------
(* wait_for_reload.                                                        *)

Marked(n) ==
  Underway(n) /\ \E k \in 1..(job[n].at - 1) : Script[job[n].kind][k] = "read"

Hears(who, heard) ==
  job' = [n \in Names |->
            IF n \in who /\ Marked(n) THEN [job[n] EXCEPT !.heard = heard]
            ELSE job[n]]

\* Any reload the log dates at the mark or later is the one that is waited for.
WaitForReload(n) ==
  /\ Doing(n, "wait")
  /\ job[n].heard
  /\ Goes(n)
  /\ UNCHANGED <<reloadVars, others, counts>>

\* Mutant: the loop has no end.
WaitOn(n) ==
  /\ Doing(n, "wait")
  /\ UNCHANGED vars

\* Thirty tries, five seconds apart.
WaitEnds(n) ==
  /\ Doing(n, "wait")
  /\ ~job[n].heard
  /\ Fails(n)
  /\ UNCHANGED <<reloadVars, others, counts>>

\* ext-authz moves.  Whose clock is ahead does not hear of a reload.
AuthorizerRuns ==
  /\ \/ (Start \/ BeginWatch \/ BeginWatchFails \/ Tick \/ Keeps)
        /\ UNCHANGED job
     \/ Reloads /\ \E who \in SUBSET Names : Hears(who, TRUE)
  /\ UNCHANGED <<others, counts>>

\* A container that is gone has no log.
AuthorizerStops ==
  /\ Stop /\ Hears(Names, FALSE)
  /\ UNCHANGED <<others, counts>>

-----------------------------------------------------------------------------
Line(n) ==
  \/ Enable(n) \/ Disable(n) \/ Touch(n) \/ Cut(n) \/ Verify(n)
  \/ ReadRegistry(n) \/ ApplyRegistry(n)
  \/ WaitForReload(n) \/ WaitEnds(n)

Next ==
  \/ \E n \in Names :
       \/ \E kind \in Kinds(n) : Begin(n, kind)
       \/ Line(n)
       \/ Die(n)
  \/ EditByHand
  \/ Sync
  \/ AuthorizerRuns
  \/ AuthorizerStops

Spec == Init /\ [][Next]_vars

\* Nothing is in ext-authz's way for ever: it is restarted when it is down, the
\* wait for Keycloak ends, the ticker ticks.  A command that waits looks at the
\* log again.  Nothing is assumed of its other lines, nor that stops end.
FairSpec ==
  /\ Spec
  /\ WF_vars(AuthorizerRuns)
  /\ \A n \in Names : WF_vars(WaitForReload(n) \/ WaitEnds(n))

-----------------------------------------------------------------------------
(* Properties.                                                             *)

Job ==
  {NoJob, Done} \cup
  [stage : {"running"}, kind : DOMAIN Script, at : 1..8,
   copy : Documents, heard : BOOLEAN, quiet : BOOLEAN]

\* Whatever is written into the document, by whom and when, nothing is ever
\* served that does not load (watchConfig).
LifecycleTypeOK ==
  /\ ReloadTypeOK
  /\ configmap \in Documents
  /\ client \in [Names -> {"missing", "enabled", "disabled"}]
  /\ rel \subseteq {"operator", "home", "self", "enrolled"} \X Names
  /\ \A n \in Names : job[n] \in Job
  /\ failed \subseteq Names /\ runs \in 0..MaxRuns /\ edits \in 0..MaxEdits

\* A device that may report has someone who answers for it, wherever the
\* commands about it have stopped and in whatever order they were given ("in
\* the same breath as the identity": onboard_device, offboard_device).
\* Unless SpiceDB has failed to delete: that is passed over, and the operator
\* is deleted next.
DevicesHaveOperators ==
  \A d \in Devices \ failed :
    <<"self", d>> \in rel => <<"operator", d>> \in rel

\* Authority goes first: a device whose client is disabled may do nothing,
\* although tokens that were issued before are still good (offboard_device).
DisabledMayNothing ==
  \A d \in Devices \ failed :
    client[d] = "disabled" => <<"self", d>> \notin rel

Finishes(n, kinds) ==
  Underway(n) /\ job[n].kind \in kinds /\ job'[n].stage = "done"

\* A command that ends well has done what it says.  What is onboarded works and
\* is owned, an agent can act for nobody yet or is enrolled, and an offboarded
\* device has no authority even if a deletion failed and was passed over: each
\* of these commands checks.  offboard_agent checks nothing, and what it says
\* ("the agent is powerless") is so only where no deletion has failed.
SuccessIsTrue ==
  [][\A n \in Names :
       /\ Finishes(n, {"onboardDevice"}) =>
            /\ {<<"self", n>>, <<"operator", n>>} \subseteq rel
            /\ client[n] = "enabled"
       /\ Finishes(n, {"onboardAgent"}) =>
            /\ <<"operator", n>> \in rel /\ <<"enrolled", n>> \notin rel
            /\ client[n] = "enabled"
       /\ Finishes(n, {"enrolAgent"}) => <<"enrolled", n>> \in rel
       /\ Finishes(n, {"offboardDevice"}) => <<"self", n>> \notin rel
       /\ Finishes(n, {"offboardAgent"}) /\ n \notin failed =>
            <<"operator", n>> \notin rel /\ <<"enrolled", n>> \notin rel
    ]_vars

\* A command that ends well is live: the document that is served has, or no
\* longer has, its name, when at the mark the authorizer had nothing pending
\* and no reload in its log that the mark does not stand after, and nobody
\* else has written since.  ext-authz may have been restarted in the meantime
\* (mark_reload_point, wait_for_reload, watchConfig).  Without the condition on
\* the log it is not so, whatever wait_for_reload says of "a reload that
\* happened *after* the change was made": the second of the mark may have had
\* a reload before it.
SuccessIsLive ==
  [][\A n \in Names :
       Finishes(n, DOMAIN Script \ {"enrolAgent"}) /\ job[n].quiet =>
         (n \in served <=> job[n].kind \in Onboarding)
    ]_vars

\* A usable document other than the last one watchConfig tried, after however
\* many that were not usable and through restarts, is served or gives way to
\* another.  Only what is written while ext-authz starts, or goes back to what
\* was tried, may be missed, and a process whose first fingerprint has failed
\* sees nothing more (watchConfig).
UntriedIsServed ==
  \A d \in Usable :
    file = d /\ last \notin {None, d} ~> served = d \/ file # d

\* No command waits for ever for a reload that does not come: the document
\* may not have changed, not be usable, or not be watched (wait_for_reload).
EveryWaitEnds ==
  \A n \in Names : Doing(n, "wait") ~> ~Underway(n)
=============================================================================
