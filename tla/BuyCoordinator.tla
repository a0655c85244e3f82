--------------------------- MODULE BuyCoordinator ---------------------------
(***************************************************************************)
(* BuyCoordinator (live.py): completed candles arm a durable BUY intent,   *)
(* ticks expire, cancel or submit it, a receipt commits it.  The strategy  *)
(* engine is the contract of EngineContract: what it decides on a candle   *)
(* is an input here, and module Engine models how it decides.              *)
(***************************************************************************)
EXTENDS LiveProcess

CONSTANTS
  Minute,          \* length of an M1 candle, and of a BUY's window
  MaxTrades,       \* RiskLimits.max_trades_per_day
  FeedMaxAge,      \* FeedHealth.max_age
  PortRaises       \* a call of the port may raise, before or after acting

ASSUME CoordinatorAssumption ==
  /\ Minute \in Nat /\ MaxTrades \in Nat \ {0} /\ FeedMaxAge \in Nat
  /\ PortRaises \in BOOLEAN

VARIABLES
  halted, armed, receipt,
  engine,          \* "WAIT" stands for both WAIT_FOR states
  trades,          \* risk_state.trades_today
  lastCandle,      \* end of the last candle handed over
  lastTick         \* feed_health.last_tick

coordVars == <<halted, armed, receipt, engine, trades, lastCandle, lastTick>>

EngineStates == {"WAIT", "LONG_READY", "POSITION_OPEN", "DONE"}

CoordinatorTypeOK ==
  /\ halted \in BOOLEAN
  /\ armed \in Setups \cup {None} /\ receipt \in Setups \cup {None}
  /\ engine \in EngineStates
  /\ trades \in Nat
  /\ lastCandle \in Times
  /\ lastTick \in Times \cup {None}

(* A process that is not running remembers nothing.                        *)
NoCoordinator ==
  /\ halted = FALSE /\ armed = None /\ receipt = None
  /\ engine = "WAIT" /\ trades = 0 /\ lastCandle = 0 /\ lastTick = None

ForgetCoordinator ==
  /\ halted' = FALSE /\ armed' = None /\ receipt' = None
  /\ engine' = "WAIT" /\ trades' = 0 /\ lastCandle' = 0 /\ lastTick' = None

(* LiveRuntime.__init__ and BuyCoordinator.__init__.  A feed that starts   *)
(* now delivers no candle that ended before.                               *)
NewCoordinator ==
  /\ halted' = ledger.halted
  /\ armed' = None /\ receipt' = None /\ engine' = "WAIT"
  /\ trades' = TradesToday(ledger)
  /\ lastCandle' = now /\ lastTick' = None

HaltCoordinator_Forgets == engine' = "DONE" /\ UNCHANGED halted
HaltCoordinator == halted' = TRUE /\ engine' = "DONE"

ReconcileStartup ==
  /\ pc = "reconcile"
  /\ IF Reconciles(ledger.position)
       THEN /\ pc' = "recoverBuy" /\ halted' = (halted \/ ledger.halted)
            /\ UNCHANGED engine
       ELSE pc' = "idle" /\ HaltCoordinator
  /\ UNCHANGED <<now, ledger, armed, receipt, trades, lastCandle, lastTick>>
  /\ UNCHANGED portVars

AcceptReceipt(s) ==
  /\ receipt' = s /\ armed' = None
  /\ trades' = trades + 1
  /\ engine' = "POSITION_OPEN"
  /\ ledger' = BuyFilled(ledger, s, accepted[s])

FoundAtBroker_Never(s) == FALSE
FoundAtBroker(s) == accepted[s] # None

Rearm_Lost(s) == UNCHANGED <<armed, receipt, trades, engine, ledger>>
Rearm(s) == armed' = s /\ UNCHANGED <<receipt, trades, engine, ledger>>

RecoverPendingBuy ==
  /\ pc = "recoverBuy"
  /\ LET s == ledger.pendingBuy IN
       \/ /\ halted \/ s = None
          /\ UNCHANGED <<armed, receipt, trades, engine, ledger>>
       \/ ~halted /\ s # None /\ ~FoundAtBroker(s) /\ Rearm(s)
       \/ ~halted /\ s # None /\ FoundAtBroker(s) /\ AcceptReceipt(s)
  /\ pc' = IF ledger'.position = None THEN "idle" ELSE "monitor"
  /\ UNCHANGED <<now, halted, lastCandle, lastTick>> /\ UNCHANGED portVars

-----------------------------------------------------------------------------
(* on_completed_candle *)

IgnoresCandles_Recovered == halted \/ receipt # None
IgnoresCandles == halted \/ armed # None \/ receipt # None

Arm(e) ==
  /\ armed' = e /\ engine' = "LONG_READY"
  /\ ledger' = BuyIntent(ledger, e, e)

CompletedCandle(e) ==
  /\ pc = "idle"
  /\ lastCandle < e /\ e <= now
  /\ lastTick # now       \* the tick that completes a candle comes after it
  /\ lastCandle' = e
  /\ \/ /\ IgnoresCandles \/ engine \in {"DONE", "POSITION_OPEN"}
        /\ UNCHANGED <<engine, armed, ledger>>
     \/ /\ ~IgnoresCandles /\ engine = "WAIT"   \* no signal, given up, or
        /\ engine' \in {"WAIT", "DONE"}          \* levels out of order
        /\ UNCHANGED <<armed, ledger>>
     \/ /\ ~IgnoresCandles /\ engine = "WAIT"
        /\ Arm(e)
  /\ UNCHANGED <<now, pc, halted, receipt, trades, lastTick>>
  /\ UNCHANGED portVars

-----------------------------------------------------------------------------
(* on_tick *)

Zones == {"below", "entry", "target"}   \* price against trigger and target

TakesTicks == armed # None /\ receipt = None /\ ~halted
Expired    == now >= armed + Minute
InWindow   == armed < now /\ ~Expired
RiskAllows(wideSpread) == trades < MaxTrades /\ ~wideSpread

DropArmed_KeepsArmed ==
  /\ engine' = "DONE" /\ ledger' = BuyDropped(ledger, now)
  /\ UNCHANGED <<pc, armed>>

DropArmed ==
  /\ armed' = None /\ engine' = "DONE"
  /\ ledger' = BuyDropped(ledger, now)
  /\ UNCHANGED pc

Tick(zone, wideSpread) ==
  /\ pc = "idle"
  /\ lastTick # None => lastTick < now
  /\ lastTick' = now
  /\ \/ /\ ~TakesTicks
        /\ UNCHANGED <<pc, armed, engine, ledger>>
     \/ /\ TakesTicks /\ ~Expired
        /\ now <= armed \/ zone = "below"
        /\ UNCHANGED <<pc, armed, engine, ledger>>
     \/ /\ TakesTicks /\ Expired
        /\ DropArmed
     \/ /\ TakesTicks /\ InWindow
        /\ zone = "target" \/ (zone = "entry" /\ ~RiskAllows(wideSpread))
        /\ DropArmed
     \/ /\ TakesTicks /\ InWindow /\ zone = "entry" /\ RiskAllows(wideSpread)
        /\ pc' = "submit"
        /\ UNCHANGED <<armed, engine, ledger>>
  /\ UNCHANGED <<now, halted, receipt, trades, lastCandle>>
  /\ UNCHANGED portVars

Submit ==
  /\ pc = "submit"
  /\ SubmitBuy(armed, now)
  /\ pc' = "accept"
  /\ UNCHANGED <<now, ledger>> /\ UNCHANGED coordVars

SubmitRaises ==
  /\ PortRaises
  /\ pc = "submit" /\ pc' = "idle"
  /\ SubmitBuy(armed, now) \/ UNCHANGED portVars
  /\ UNCHANGED <<now, ledger>> /\ UNCHANGED coordVars

AcceptSubmitted ==
  /\ pc = "accept" /\ pc' = "idle"
  /\ AcceptReceipt(armed)
  /\ UNCHANGED <<now, halted, lastCandle, lastTick>> /\ UNCHANGED portVars

-----------------------------------------------------------------------------
(* on_heartbeat with a feed_health that is not healthy; a healthy one      *)
(* changes nothing.                                                        *)

Stale == lastTick # None => lastTick + FeedMaxAge < now

Heartbeat ==
  /\ pc = "idle" /\ Stale
  /\ HaltCoordinator
  /\ ledger' = IF ledger.halted THEN ledger ELSE KillSwitchOn(ledger, now)
  /\ UNCHANGED <<now, pc, armed, receipt, trades, lastCandle, lastTick>>
  /\ UNCHANGED portVars
=============================================================================
