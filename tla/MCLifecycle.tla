------------------------------- MODULE MCLifecycle ------------------------------
(* One device and one agent, the commands about them, and edits by hand.     *)
EXTENDS Lifecycle

CONSTANTS sensor, assistant

\* One by one, so that TLC can compare them with None.
MCDocuments == {d : d \in SUBSET {sensor, assistant, Mistake}}
MCUsable    == {d : d \in SUBSET {sensor, assistant}}
=============================================================================
