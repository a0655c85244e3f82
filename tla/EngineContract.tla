--------------------------- MODULE EngineContract ---------------------------
(***************************************************************************)
(* What the rest of the system relies on about the strategy engine: it     *)
(* waits, is ready for one candle after its signal, and ends in one        *)
(* position or in none.  BuyCoordinator takes these steps as its input;    *)
(* module Engine implements them.                                          *)
(***************************************************************************)
VARIABLE engine

EngineStates == {"WAIT", "LONG_READY", "POSITION_OPEN", "DONE"}

TypeOK == engine \in EngineStates

Init == engine = "WAIT"

Signal  == engine = "WAIT" /\ engine' = "LONG_READY"
GiveUp  == engine \in {"WAIT", "LONG_READY"} /\ engine' = "DONE"
Confirm == engine = "LONG_READY" /\ engine' = "POSITION_OPEN"

Next == Signal \/ GiveUp \/ Confirm

Spec == Init /\ [][Next]_engine
=============================================================================
