--------------------------------- MODULE Reload ---------------------------------
(***************************************************************************)
(* The process of ext-authz, as far as its configuration goes: it starts   *)
(* from the file, waits for Keycloak, serves, and polls the file for       *)
(* changes.  What writes the file is left to the module that extends this. *)
(***************************************************************************)
CONSTANTS
  Documents,  \* what the file may say
  Usable,     \* the documents that load and compile
  None        \* no document

ASSUME ReloadAssumption == Usable \subseteq Documents /\ None \notin Documents

VARIABLES
  file,    \* the file as the process sees it
  point,   \* how far the process is
  served,  \* Pipeline.snapshot
  last,    \* the file watchConfig tried last, by its fingerprint
  current, \* the fingerprint just taken
  logged   \* the container's log has a "configuration reloaded"

process    == <<point, served, last, current, logged>>
reloadVars == <<file, process>>

ReloadInit(document) ==
  /\ file = document
  /\ point = "watching"
  /\ served = document
  /\ last = document
  /\ current = None
  /\ logged = FALSE

-----------------------------------------------------------------------------
(* main.                                                                   *)

\* It will not start from a document that is not usable.  waitForIssuer comes
\* next, for up to ten minutes.
Start ==
  /\ point = "down"
  /\ file \in Usable
  /\ served' = file
  /\ point' = "starting"
  /\ UNCHANGED <<file, last, current, logged>>

\* Keycloak has not come, or the process is stopped, at any time.
Stop ==
  /\ point # "down"
  /\ point' = "down"
  /\ served' = None
  /\ last' = None
  /\ current' = None
  /\ logged' = FALSE
  /\ UNCHANGED file

-----------------------------------------------------------------------------
(* watchConfig.                                                            *)

\* What the file says now is taken for what was loaded at the start.
BeginWatch ==
  /\ point = "starting"
  /\ point' = "watching"
  /\ last' = file
  /\ UNCHANGED <<file, served, current, logged>>

\* The file could not be read just then: reload disabled.
BeginWatchFails ==
  /\ point = "starting"
  /\ point' = "blind"
  /\ UNCHANGED <<file, served, last, current, logged>>

\* A tick that sees a change; the others do nothing.
Tick ==
  /\ point = "watching"
  /\ file # last
  /\ current' = file
  /\ point' = "changed"
  /\ UNCHANGED <<file, served, last, logged>>

\* Mutant: the file has changed, so it is installed.
LoadUnseen ==
  /\ point = "changed"
  /\ served' = file
  /\ logged' = TRUE
  /\ point' = "watching"
  /\ last' = current
  /\ current' = None
  /\ UNCHANGED file

\* Mutant: a document that is not usable ends the loop.
LoadOnce ==
  /\ point = "changed"
  /\ served' = IF file \in Usable THEN file ELSE served
  /\ logged' = (logged \/ file \in Usable)
  /\ point' = IF file \in Usable THEN "watching" ELSE "blind"
  /\ last' = current
  /\ current' = None
  /\ UNCHANGED file

\* config.Load reads the file again.  A document that is not usable leaves the
\* one before it in service, and is not tried again.
LoadChanged ==
  /\ point = "changed"
  /\ served' = IF file \in Usable THEN file ELSE served
  /\ logged' = (logged \/ file \in Usable)
  /\ point' = "watching"
  /\ last' = current
  /\ current' = None
  /\ UNCHANGED file

\* "configuration reloaded" is logged.
Reloads == LoadChanged /\ file \in Usable
Keeps   == LoadChanged /\ file \notin Usable

-----------------------------------------------------------------------------
ReloadTypeOK ==
  /\ file \in Documents
  /\ point \in {"down", "starting", "watching", "changed", "blind"}
  /\ served \in Usable \cup {None}
  /\ served = None <=> point = "down"
  /\ last \in Documents \cup {None}
  /\ current \in Documents \cup {None}
  /\ logged \in BOOLEAN
=============================================================================
