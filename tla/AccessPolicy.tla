----------------------------- MODULE AccessPolicy -----------------------------
(***************************************************************************)
(* What the decision point promises, as a policy and not as a pipeline.    *)
(* A request is judged against one configuration, the one installed when   *)
(* it arrived, and is let through only if, at the moment it is let         *)
(* through, the live relationships authorize whoever is acting.  It may be *)
(* refused for any reason and at any time.                                 *)
(***************************************************************************)
EXTENDS Authorization

VARIABLES
  graph,      \* the live relationships
  installed,  \* the configuration new requests are judged against
  judged      \* [Calls -> the state of each request]

policyVars == <<graph, installed, judged>>

Free == [step |-> "free"]
Pending(r, cfg) == [step |-> "pending", request |-> r, cfg |-> cfg]
Judged(r, cfg, outcome) ==
  [step |-> "judged", request |-> r, cfg |-> cfg, outcome |-> outcome]

-----------------------------------------------------------------------------
Init ==
  /\ graph \in Worlds
  /\ installed \in Configs
  /\ judged = [c \in Calls |-> Free]

Arrive(c, r) ==
  /\ judged[c].step # "pending"
  /\ judged' = [judged EXCEPT ![c] = Pending(r, installed)]
  /\ UNCHANGED <<graph, installed>>

LetThrough(c) ==
  /\ judged[c].step = "pending"
  /\ Authorized(judged[c].cfg, judged[c].request, graph)
  /\ judged' = [judged EXCEPT ![c] =
                  Judged(judged[c].request, judged[c].cfg, "permit")]
  /\ UNCHANGED <<graph, installed>>

TurnAway(c) ==
  /\ judged[c].step = "pending"
  /\ judged' = [judged EXCEPT ![c] =
                  Judged(judged[c].request, judged[c].cfg, "refuse")]
  /\ UNCHANGED <<graph, installed>>

\* Relationships are written and configurations installed independently.
WorldChanges ==
  \/ /\ graph' \in Worlds
     /\ UNCHANGED <<installed, judged>>
  \/ /\ installed' \in Configs
     /\ UNCHANGED <<graph, judged>>

Next ==
  \/ WorldChanges
  \/ \E c \in Calls : LetThrough(c) \/ TurnAway(c)
  \/ \E c \in Calls, r \in Requests : Arrive(c, r)

Spec == Init /\ [][Next]_policyVars
=============================================================================
