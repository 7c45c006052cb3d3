--------------------------- MODULE MCAccountConsole ---------------------------
(* Model values and bounds for the account console.                        *)
EXTENDS AccountConsole, TLC

CONSTANTS alice, smarthome, assistant, sensor, aliceHome, view, unlock,
          h1, h2

MCOperator  == assistant :> alice @@ sensor :> alice
MCHomeOwner == aliceHome :> alice
MCHomeOf    == sensor :> aliceHome
MCAsks      == assistant :> {view, unlock}
=============================================================================
