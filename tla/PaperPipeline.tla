--------------------------- MODULE PaperPipeline ---------------------------
(***************************************************************************)
(* FyersPaperPipeline with PaperBroker (fyers_paper.py, paper.py) as       *)
(* scripts/fyers_paper.py runs them: the market-data thread turns a tick   *)
(* into candles and handles both, the main thread checks the feed every    *)
(* second, the ledger is shared, and the process can die between any two   *)
(* appends.  A step of the market-data thread appends at most one event.   *)
(***************************************************************************)
EXTENDS CandleBuilder, FiniteSets

CONSTANTS
  Signals,         \* ends of the candles that can be signal candles
  MaxTrades,       \* RiskLimits.max_trades_per_day
  FeedMaxAge,      \* FeedHealth.max_age
  FeedDelay,       \* a tick arrives at most this late
  MaxTime,         \* bound: the horizon of the clock
  MaxCrashes,      \* bound: how often the process stops
  OperatorHalts    \* the operator may engage the kill switch by hand

Times == 0 .. MaxTime

INSTANCE Ledger WITH DayOf <- [t \in Times |-> Date(t)]

ASSUME PaperAssumption ==
  /\ Signals \subseteq Times /\ MaxTime \in Nat
  /\ MaxTrades \in Nat \ {0} /\ FeedMaxAge \in Nat /\ FeedDelay \in Nat
  /\ MaxCrashes \in Nat /\ OperatorHalts \in BOOLEAN
  /\ FeedDelay < Minute /\ FeedDelay <= Open
  /\ Close + Minute + FeedDelay <= DayLength

VARIABLES
  now, ledger, crashes,
  pc,              \* the market-data thread
  tick, candle,    \* the tick it handles, the candle it completed or None
  position,        \* broker.position: the setup it was bought for, or None
  entryTime,       \* position.entry_time
  trades,          \* broker.risk_state.trades_today
  armed,           \* the setup of ArmedPaperBuy, or None
  engine,          \* as in EngineContract
  sessionDate,
  lastTick,        \* last_tick_time and feed_health.last_tick
  feedHalted,      \* feed_health.halted
  heartbeat        \* the main thread: step and time of a failed check, or None

clockVars  == <<now, crashes>>
brokerVars == <<position, entryTime, trades>>
feedVars   == <<lastTick, feedHalted>>
vars == <<clockVars, ledger, pc, tick, candle, brokerVars, armed, engine,
          sessionDate, feedVars, heartbeat, builderVars>>

Controls == {"down", "idle", "candle", "end", "tick",
             "submit", "rejected", "fill", "ack"}

TypeOK ==
  /\ now \in Times /\ crashes \in 0 .. MaxCrashes
  /\ ledger \in Ledgers(Signals, Times)
  /\ pc \in Controls
  /\ tick \in Times /\ candle \in Times \cup {None}
  /\ position \in Signals \cup {None} /\ entryTime \in Times \cup {None}
  /\ trades \in Nat
  /\ armed \in Signals \cup {None}
  /\ engine \in {"WAIT", "LONG_READY", "POSITION_OPEN", "DONE"}
  /\ sessionDate \in {Date(t) : t \in Times} \cup {None}
  /\ lastTick \in Times \cup {None} /\ feedHalted \in BOOLEAN
  /\ heartbeat \in ({"stale", "engage"} \X Times) \cup {None}
  /\ minute \in Times \cup {None} /\ builderLast \in Times \cup {None}

Init ==
  /\ now = 0 /\ crashes = 0 /\ ledger = EmptyLedger
  /\ pc = "down" /\ tick = 0 /\ candle = None
  /\ position = None /\ entryTime = None /\ trades = 0
  /\ armed = None /\ engine = "WAIT" /\ sessionDate = None
  /\ lastTick = None /\ feedHalted = FALSE /\ heartbeat = None
  /\ minute = None /\ builderLast = None

-----------------------------------------------------------------------------
(* main() and recover() *)

(* recover_risk_state as of now, then recover(): both refuse a ledger they *)
(* cannot continue.                                                        *)
Recoverable ==
  ledger.latest <= now /\ ~(ledger.position # None /\ ledger.pendingBuy # None)

FilledAt(s) == (CHOOSE f \in ledger.fills : f.buy = s).time

Start ==
  /\ pc = "down" /\ Recoverable
  /\ pc' = "idle"
  /\ position' = ledger.position /\ armed' = ledger.pendingBuy
  /\ entryTime' = IF ledger.position = None THEN None
                                            ELSE FilledAt(ledger.position)
  /\ engine' = IF ledger.position # None THEN "POSITION_OPEN"
               ELSE IF ledger.pendingBuy # None THEN "LONG_READY" ELSE "WAIT"
  /\ trades' = Cardinality({f \in ledger.fills : Date(f.time) = Date(now)})
  /\ NewBuilder
  /\ UNCHANGED <<clockVars, ledger, tick, candle, sessionDate, feedVars, heartbeat>>

(* The process dies, and forgets all but the ledger.                       *)
Crash ==
  /\ pc # "down" /\ crashes < MaxCrashes
  /\ crashes' = crashes + 1 /\ pc' = "down"
  /\ candle' = None /\ position' = None /\ entryTime' = None /\ trades' = 0
  /\ armed' = None /\ engine' = "WAIT" /\ sessionDate' = None
  /\ lastTick' = None /\ feedHalted' = FALSE /\ heartbeat' = None
  /\ NewBuilder
  /\ UNCHANGED <<now, ledger, tick>>

-----------------------------------------------------------------------------
(* The market-data thread: _on_tick of FyersM1Stream *)

TickArrives(t) ==
  /\ pc = "idle" /\ t <= now /\ now <= t + FeedDelay
  /\ tick' = t /\ candle' = CompletedBy(t)
  /\ Add(t)
  /\ pc' = IF candle' = None THEN "tick" ELSE "candle"
  /\ UNCHANGED <<clockVars, ledger, brokerVars, armed, engine, sessionDate,
                 feedVars, heartbeat>>

CancelArmed_KeepsArmed(t) ==
  /\ ledger' = BuyDropped(ledger, t)
  /\ armed' = armed /\ engine' = "DONE"
CancelArmed(t) ==
  /\ ledger' = BuyDropped(ledger, t)
  /\ armed' = None /\ engine' = "DONE"

CloseBroker(result, t) ==
  /\ ledger' = PositionClosed(ledger, <<position, result>>, t)
  /\ position' = None /\ entryTime' = None /\ UNCHANGED trades

(* _start_session: an earlier session is cleared away, one append at a     *)
(* time, before the new one starts.                                        *)
Rollover == pc = "candle" /\ sessionDate # Date(candle)
Stays == UNCHANGED <<clockVars, tick, candle, feedVars, heartbeat, builderVars>>

RollArmed ==
  /\ Rollover /\ sessionDate # None /\ armed # None
  /\ CancelArmed(candle)
  /\ UNCHANGED <<pc, brokerVars, sessionDate>> /\ Stays

RollPosition ==
  /\ Rollover /\ sessionDate # None /\ armed = None /\ position # None
  /\ CloseBroker("SESSION_END", candle)
  /\ UNCHANGED <<pc, armed, engine, sessionDate>> /\ Stays

ResetDay_EveryStart == trades' = 0
ResetDay == trades' = IF sessionDate = None THEN trades ELSE 0

StartSession ==
  /\ Rollover
  /\ sessionDate = None \/ (armed = None /\ position = None)
  /\ ResetDay /\ UNCHANGED <<position, entryTime>>
  /\ sessionDate' = Date(candle)
  /\ engine' = IF position = None THEN "WAIT" ELSE "POSITION_OPEN"
  /\ UNCHANGED <<pc, ledger, armed>> /\ Stays

(* The rest of on_candle up to the session end.                            *)
ConfirmationOver == armed # None /\ candle >= armed
Strategy == position = None /\ armed = None /\ engine = "WAIT"

OnCandle ==
  /\ pc = "candle" /\ sessionDate = Date(candle)
  /\ pc' = IF IsFinal(candle) THEN "end" ELSE "tick"
  /\ \/ /\ ledger.halted \/ (~ConfirmationOver /\ ~Strategy)
        /\ UNCHANGED <<armed, engine, ledger>>
     \/ /\ ~ledger.halted /\ ConfirmationOver
        /\ CancelArmed(candle)
     \/ /\ ~ledger.halted /\ Strategy            \* no signal, given up, or
        /\ engine' \in {"WAIT", "DONE"}          \* geometry refused
        /\ UNCHANGED <<armed, ledger>>
     \/ /\ ~ledger.halted /\ Strategy
        /\ candle + Minute \in Signals \ ledger.intents
        /\ armed' = candle + Minute /\ engine' = "LONG_READY"
        /\ ledger' = BuyIntent(ledger, candle + Minute, candle + Minute)
  /\ UNCHANGED <<brokerVars, sessionDate>> /\ Stays

EndArmed ==
  /\ pc = "end" /\ armed # None
  /\ CancelArmed(candle + Minute)
  /\ UNCHANGED <<pc, brokerVars, sessionDate>> /\ Stays

EndPosition ==
  /\ pc = "end" /\ armed = None /\ position # None
  /\ CloseBroker("SESSION_END", candle + Minute) /\ engine' = "DONE"
  /\ UNCHANGED <<pc, armed, sessionDate>> /\ Stays

EndDone ==
  /\ pc = "end" /\ armed = None /\ position = None
  /\ pc' = "tick"
  /\ UNCHANGED <<ledger, brokerVars, armed, engine, sessionDate>> /\ Stays

-----------------------------------------------------------------------------
(* on_tick; zone is the price against the levels of the position, or of    *)
(* the armed BUY *)

Zones == {"stop", "between", "entry", "target"}

Older    == lastTick # None /\ tick < lastTick
Observe  == /\ lastTick' = tick
            /\ feedHalted' = (feedHalted /\ lastTick = tick)
Held     == UNCHANGED <<clockVars, tick, sessionDate, heartbeat, builderVars>>
Finished == pc' = "idle" /\ candle' = None

IgnoreOlder ==
  /\ pc = "tick" /\ Older
  /\ Finished
  /\ UNCHANGED <<ledger, brokerVars, armed, engine, feedVars>> /\ Held

PositionTick(zone) ==
  /\ pc = "tick" /\ ~Older /\ position # None
  /\ Observe /\ Finished
  /\ \/ /\ tick <= entryTime \/ zone \in {"between", "entry"}
        /\ UNCHANGED <<ledger, brokerVars, armed, engine>>
     \/ /\ tick > entryTime /\ zone \in {"stop", "target"}
        /\ CloseBroker(IF zone = "stop" THEN "LOSS" ELSE "WIN", tick)
        /\ engine' = "DONE" /\ armed' = None
  /\ Held

Expired_Never == FALSE
Expired == tick >= armed + Minute

Considers ==
  /\ pc = "tick" /\ ~Older /\ position = None
  /\ Observe /\ UNCHANGED brokerVars /\ Held

(* Nothing to do: no BUY is armed, the switch is engaged, or the price has *)
(* not reached the trigger yet.                                            *)
NoEntry(zone) ==
  /\ Considers
  /\ IF armed = None \/ ledger.halted THEN TRUE
     ELSE ~feedHalted' /\ ~Expired /\ (tick < armed \/ zone \in {"stop", "between"})
  /\ Finished /\ UNCHANGED <<ledger, armed, engine>>

Live == armed # None /\ ~ledger.halted

(* FeedHealth still carries the halt of the main thread.                   *)
FeedHalts ==
  /\ Considers /\ Live /\ feedHalted'
  /\ ledger' = KillSwitchOn(ledger, tick)
  /\ Finished /\ UNCHANGED <<armed, engine>>

DropArmed(zone) ==
  /\ Considers /\ Live /\ ~feedHalted' /\ tick >= armed
  /\ Expired \/ zone = "target"
  /\ CancelArmed(tick) /\ Finished

Enter ==
  /\ Considers /\ Live /\ ~feedHalted' /\ tick >= armed /\ ~Expired
  /\ pc' = "submit" /\ UNCHANGED <<candle, ledger, armed, engine>>

(* PaperBroker.submit_buy: it decides, then appends.  The decision also    *)
(* depends on spread, slippage and losses, which a tick may show.          *)
BrokerAllows == ledger.position = None /\ ~ledger.halted /\ trades < MaxTrades

SubmitAllowed_ForgetsArmed ==
  /\ pc = "submit" /\ BrokerAllows
  /\ pc' = "fill"
  /\ position' = armed /\ entryTime' = tick /\ trades' = trades + 1
  /\ armed' = None
  /\ UNCHANGED <<ledger, engine, candle, feedVars>> /\ Held

SubmitAllowed ==
  /\ pc = "submit" /\ BrokerAllows
  /\ pc' = "fill"
  /\ position' = armed /\ entryTime' = tick /\ trades' = trades + 1
  /\ UNCHANGED <<ledger, armed, engine, candle, feedVars>> /\ Held

SubmitRejected ==
  /\ pc = "submit"
  /\ pc' = "rejected"
  /\ ledger' = Stamp(ledger, tick)
  /\ UNCHANGED <<brokerVars, armed, engine, candle, feedVars>> /\ Held

AfterRejection ==
  /\ pc = "rejected"
  /\ CancelArmed(tick) /\ Finished
  /\ UNCHANGED <<brokerVars, feedVars>> /\ Held

AppendFill ==
  /\ pc = "fill"
  /\ pc' = "ack"
  /\ ledger' = BuyFilled(ledger, armed, tick)
  /\ UNCHANGED <<brokerVars, armed, engine, candle, feedVars>> /\ Held

AfterFill_KeepsArmed ==
  /\ pc = "ack"
  /\ ledger' = Stamp(ledger, tick)
  /\ engine' = "POSITION_OPEN" /\ Finished
  /\ UNCHANGED <<armed, brokerVars, feedVars>> /\ Held

AfterFill ==
  /\ pc = "ack"
  /\ ledger' = Stamp(ledger, tick)
  /\ armed' = None /\ engine' = "POSITION_OPEN" /\ Finished
  /\ UNCHANGED <<brokerVars, feedVars>> /\ Held

-----------------------------------------------------------------------------
(* The main thread, the operator and the clock *)

Main == UNCHANGED <<clockVars, pc, tick, candle, brokerVars, armed, engine,
                    sessionDate, lastTick, builderVars>>

(* heartbeat(): the age is read, then the halt is written to feed_health,  *)
(* then the switch is engaged; ticks may be handled in between.            *)
HeartbeatStale ==
  /\ pc # "down" /\ heartbeat = None
  /\ lastTick # None /\ now > lastTick + FeedMaxAge
  /\ heartbeat' = <<"stale", now>>
  /\ UNCHANGED <<ledger, feedHalted>> /\ Main

(* A fresh age after a halt that no tick has cleared yet: allow_buy still  *)
(* refuses, and a switch released meanwhile is engaged again.              *)
HeartbeatRefuses ==
  /\ pc # "down" /\ heartbeat = None
  /\ lastTick # None /\ now <= lastTick + FeedMaxAge
  /\ feedHalted /\ ~ledger.halted
  /\ heartbeat' = <<"engage", now>>
  /\ UNCHANGED <<ledger, feedHalted>> /\ Main

HeartbeatHalts ==
  /\ heartbeat # None /\ heartbeat[1] = "stale"
  /\ feedHalted' = TRUE
  /\ heartbeat' = IF ledger.halted THEN None ELSE <<"engage", heartbeat[2]>>
  /\ UNCHANGED ledger /\ Main

HeartbeatEngages ==
  /\ heartbeat # None /\ heartbeat[1] = "engage"
  /\ ledger' = KillSwitchOn(ledger, heartbeat[2]) /\ heartbeat' = None
  /\ UNCHANGED feedHalted /\ Main

Operator ==
  /\ \/ OperatorHalts /\ ~ledger.halted /\ ledger' = KillSwitchOn(ledger, now)
     \/ ledger.halted /\ ledger' = KillSwitchOff(ledger, now)
  /\ UNCHANGED <<feedHalted, heartbeat>> /\ Main

Advance ==
  /\ now < MaxTime /\ now' = now + 1
  /\ UNCHANGED <<crashes, ledger, pc, tick, candle, brokerVars, armed, engine,
                 sessionDate, feedVars, heartbeat, builderVars>>

CandleStep ==
  \/ RollArmed \/ RollPosition \/ StartSession \/ OnCandle
  \/ EndArmed \/ EndPosition \/ EndDone

TickStep ==
  \/ IgnoreOlder
  \/ \E zone \in Zones : PositionTick(zone) \/ NoEntry(zone) \/ DropArmed(zone)
  \/ FeedHalts \/ Enter
  \/ SubmitAllowed \/ SubmitRejected \/ AfterRejection
  \/ AppendFill \/ AfterFill

Next ==
  \/ Start \/ Crash
  \/ \E t \in Times : TickArrives(t)
  \/ CandleStep \/ TickStep
  \/ HeartbeatStale \/ HeartbeatRefuses \/ HeartbeatHalts \/ HeartbeatEngages
  \/ Operator \/ Advance

Spec == Init /\ [][Next]_vars

-----------------------------------------------------------------------------
(* Safety *)

(* Between two callbacks the memory of the pipeline and of its broker is   *)
(* what a restart would recover: a crash loses nothing and revives nothing *)
(* (fyers_paper.py:92-111, 191-210; paper.py:91-97, 131-137).              *)
MemoryIsDurable ==
  pc = "idle" => position = ledger.position /\ armed = ledger.pendingBuy

(* The ledger never holds an open position beside a pending BUY, which     *)
(* recover() refuses, nor a stamp later than the clock, which              *)
(* recover_risk_state refuses (fyers_paper.py:103, safety.py:59): the      *)
(* process can be started again after any crash.                           *)
AlwaysRecoverable == Recoverable

(* Restarts and session rollovers included, at most max_trades_per_day     *)
(* BUYs are filled on one date (risk.py:88, fyers_paper.py:249).           *)
DailyLimit ==
  \A d \in {Date(t) : t \in Times} :
    Cardinality({f \in ledger.fills : Date(f.time) = d}) <= MaxTrades

(* README.md:174: a BUY only fills from a tick of the minute right after   *)
(* its signal candle, however late the tick, halted the switch or long the *)
(* outage before it (fyers_paper.py:179-183).                              *)
FillsInItsMinute ==
  \A f \in ledger.fills : f.buy <= f.time /\ f.time < f.buy + Minute

(* The paper pipeline keeps the promise of the lifecycle, read from the    *)
(* ledger alone.                                                           *)
Phase(s) ==
  IF \E r \in Results : <<s, r>> \in ledger.closed THEN "closed"
  ELSE IF s \in Filled(ledger)                     THEN "bought"
  ELSE IF ledger.pendingBuy = s                    THEN "intended"
  ELSE IF s \in ledger.intents                     THEN "dropped"
  ELSE "new"

Lifecycle ==
  INSTANCE BuyLifecycle WITH Setups <- Signals, MayOrphan <- FALSE,
                             phase <- [s \in Signals |-> Phase(s)]

KeepsLifecycle == Lifecycle!Spec

-----------------------------------------------------------------------------
(* Statements of the documents that the code does not keep *)

(* docs/paper-trading.md:30, "An engaged kill switch blocks new BUY        *)
(* entries until explicitly released": the broker asks the kill switch     *)
(* before it appends BUY_FILLED, and the main thread can engage it in      *)
(* between (paper.py:81-97, fyers_paper.py:114-119).                       *)
HaltBlocksFill == [][ledger'.fills # ledger.fills => ~ledger.halted]_vars

(* README.md:174, "liquidates at the final completed NSE session candle":  *)
(* only a candle of 15:29 liquidates, and when nobody trades in that       *)
(* minute the final completed candle is an earlier one                     *)
(* (fyers_paper.py:147-152).                                               *)
FinalCandleLiquidates ==
  pc = "tick" /\ candle # None /\ ~InSession(tick) => position = None
=============================================================================
