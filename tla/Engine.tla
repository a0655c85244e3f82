------------------------------- MODULE Engine -------------------------------
(***************************************************************************)
(* WickHunterEngine (engine.py) over completed M1 candles, with the signal *)
(* and geometry rules (rules.py).  Prices are integers: every test of the  *)
(* rules is a comparison or a ratio, written without division.             *)
(***************************************************************************)
EXTENDS Integers

CONSTANTS
  Prices,          \* the prices a candle can show
  PDL, PDH,        \* previous day's low and high
  StopBuffer,      \* config.stop_buffer
  RRNum, RRDen,    \* config.minimum_reward_risk = RRNum / RRDen
  MaxTrades,       \* config.max_trades_per_day
  Sustained,       \* config.sustained_below_pdl_closes
  MaxMinutes,      \* bound: minutes of the session
  None

ASSUME EngineAssumption ==
  /\ Prices \subseteq Int /\ PDL \in Int /\ PDH \in Int /\ PDL < PDH
  /\ StopBuffer \in Nat /\ RRNum \in Nat /\ RRDen \in Nat \ {0}
  /\ MaxTrades \in Nat /\ Sustained \in Nat \ {0}
  /\ MaxMinutes \in Nat
  /\ None \notin Int

(* models.Candle: the checks of its constructor.                           *)
Candles ==
  {c \in [open : Prices, high : Prices, low : Prices, close : Prices] :
     /\ c.low <= c.open /\ c.low <= c.close
     /\ c.open <= c.high /\ c.close <= c.high}

VARIABLES
  state,
  sweepLow,        \* sweep.sweep_low, or None
  signal,          \* its high and sweep low, or None
  belowCloses,     \* _below_pdl_closes
  trades,
  event,           \* the BUY that on_candle returned, or None
  minute,          \* minute of the last candle
  signalMinute,    \* minute of the signal candle
  last             \* low and close of the last candle

vars == <<state, sweepLow, signal, belowCloses, trades, event, minute,
          signalMinute, last>>

States == {"WAIT_FOR_LOW_SWEEP", "WAIT_FOR_BULLISH_SIGNAL", "LONG_READY",
           "POSITION_OPEN", "DONE"}

Init ==
  /\ state = "WAIT_FOR_LOW_SWEEP"
  /\ sweepLow = None /\ signal = None /\ belowCloses = 0
  /\ trades = 0 /\ event = None
  /\ minute = 0 /\ signalMinute = 0 /\ last = [low |-> PDL, close |-> PDL]

-----------------------------------------------------------------------------
(* rules.py *)

IsBullishSignal(c, previousSwept) ==
  LET body  == c.close - c.open
      range == c.high - c.low
  IN /\ body > 0                             \* implies a positive range
     /\ 5 * body >= range                    \* body / range >= 0.20
     /\ 2 * (c.close - c.low) >= range       \* close_location >= 0.50
     /\ c.close > PDL
     /\ c.low <= PDL \/ previousSwept

ValidLongGeometry_AnyReward(entry, stop, target) ==
  stop < entry /\ entry < target
ValidLongGeometry(entry, stop, target) ==
  /\ stop < entry /\ entry < target
  /\ RRDen * (target - entry) >= RRNum * (entry - stop)

-----------------------------------------------------------------------------
(* on_candle, one action for each thing a completed candle can do *)

SweepBegins(c) ==
  /\ state = "WAIT_FOR_LOW_SWEEP"
  /\ c.low < PDL
  /\ state' = "WAIT_FOR_BULLISH_SIGNAL"
  /\ sweepLow' = c.low
  /\ belowCloses' = IF c.close < PDL THEN 1 ELSE 0
  /\ UNCHANGED <<signal, trades, event, signalMinute>>

NoSweep(c) ==
  /\ state = "WAIT_FOR_LOW_SWEEP"
  /\ c.low >= PDL
  /\ UNCHANGED <<state, sweepLow, belowCloses, signal, trades, event,
                 signalMinute>>

Lower_Keeps(c) == sweepLow
Lower(c) == IF c.low < sweepLow THEN c.low ELSE sweepLow

ClosesBelow_NoReset(c) == belowCloses + (IF c.close < PDL THEN 1 ELSE 0)
ClosesBelow(c) == IF c.close < PDL THEN belowCloses + 1 ELSE 0

SignalCandle_AtItsEnd(c) ==
  /\ state = "WAIT_FOR_BULLISH_SIGNAL"
  /\ IsBullishSignal(c, TRUE)
  /\ state' = "LONG_READY"
  /\ sweepLow' = Lower(c) /\ belowCloses' = ClosesBelow(c)
  /\ signal' = [high |-> c.high, sweepLow |-> Lower(c)]
  /\ signalMinute' = minute' + 1
  /\ UNCHANGED <<trades, event>>

SignalCandle(c) ==
  /\ state = "WAIT_FOR_BULLISH_SIGNAL"
  /\ IsBullishSignal(c, TRUE)
  /\ state' = "LONG_READY"
  /\ sweepLow' = Lower(c) /\ belowCloses' = ClosesBelow(c)
  /\ signal' = [high |-> c.high, sweepLow |-> Lower(c)]
  /\ signalMinute' = minute'
  /\ UNCHANGED <<trades, event>>

GivesUp_Late(n) == n > Sustained
GivesUp(n) == n >= Sustained

NoSignal(c) ==
  /\ state = "WAIT_FOR_BULLISH_SIGNAL"
  /\ ~IsBullishSignal(c, TRUE)
  /\ state' = IF GivesUp(ClosesBelow(c)) THEN "DONE" ELSE state
  /\ sweepLow' = Lower(c) /\ belowCloses' = ClosesBelow(c)
  /\ UNCHANGED <<signal, trades, event, signalMinute>>

Entry == signal.high
Stop  == signal.sweepLow - StopBuffer

Confirms(c) ==
  /\ c.high >= Entry
  /\ trades < MaxTrades
  /\ ValidLongGeometry(Entry, Stop, PDH)

Buy(c) ==
  /\ state = "LONG_READY" /\ Confirms(c)
  /\ state' = "POSITION_OPEN" /\ trades' = trades + 1
  /\ event' = [entry |-> Entry, stop |-> Stop, target |-> PDH]
  /\ UNCHANGED <<sweepLow, signal, belowCloses, signalMinute>>

NoConfirmation_WaitsAgain(c) ==
  /\ state = "LONG_READY" /\ ~Confirms(c)
  /\ state' = "WAIT_FOR_BULLISH_SIGNAL"
  /\ UNCHANGED <<sweepLow, signal, belowCloses, trades, event, signalMinute>>

NoConfirmation(c) ==
  /\ state = "LONG_READY" /\ ~Confirms(c)
  /\ state' = "DONE"
  /\ UNCHANGED <<sweepLow, signal, belowCloses, trades, event, signalMinute>>

AfterTheEnd(c) ==
  /\ state \in {"DONE", "POSITION_OPEN"}
  /\ UNCHANGED <<state, sweepLow, signal, belowCloses, trades, event,
                 signalMinute>>

(* A feed may have no candle for some minutes: nobody traded.              *)
OnCandle(c) ==
  /\ minute' \in minute + 1 .. MaxMinutes
  /\ last' = [low |-> c.low, close |-> c.close]
  /\ \/ SweepBegins(c) \/ NoSweep(c)
     \/ SignalCandle(c) \/ NoSignal(c)
     \/ Buy(c) \/ NoConfirmation(c)
     \/ AfterTheEnd(c)

Next == \E c \in Candles : OnCandle(c)

Spec == Init /\ [][Next]_vars

-----------------------------------------------------------------------------
TypeOK ==
  /\ state \in States
  /\ sweepLow \in Int \cup {None}
  /\ signal \in [high : Int, sweepLow : Int] \cup {None}
  /\ belowCloses \in Nat /\ trades \in 0 .. MaxTrades
  /\ event \in [entry : Int, stop : Int, target : Int] \cup {None}
  /\ minute \in Nat /\ signalMinute \in 0 .. minute
  /\ last \in [low : Int, close : Int]

(* Whatever candles led to it, a BUY enters above the reclaimed low, with  *)
(* the stop below that low, the target above the entry and at least the    *)
(* configured reward for its risk (engine.py:83-91, rules.py:35-41).       *)
BuyGeometry ==
  event # None =>
    /\ event.stop < PDL /\ PDL < event.entry /\ event.entry < event.target
    /\ RRDen * (event.target - event.entry) >= RRNum * (event.entry - event.stop)

(* The stop of a BUY lies at or below the low of every candle from the     *)
(* sweep to the signal: the sweep low covers each candle as it comes and   *)
(* never rises (engine.py:57-58, 66, 84).                                  *)
SweepLowCovers ==
  [][/\ state' \in {"WAIT_FOR_BULLISH_SIGNAL", "LONG_READY"} =>
          /\ sweepLow' <= last'.low
          /\ sweepLow # None => sweepLow' <= sweepLow
     /\ event' # event => event'.stop <= sweepLow]_vars

(* A sweep with Sustained consecutive closes below the low is over: the    *)
(* engine never waits on for a signal (engine.py:60-63, 70-71).  The sweep *)
(* candle itself ends nothing, so a limit of one counts from the second.   *)
SustainedDownsideEnds ==
  state = "WAIT_FOR_BULLISH_SIGNAL" /\ Sustained >= 2 =>
    belowCloses < Sustained

(* A sweep is given up only on consecutive closes below the low: a close   *)
(* that reclaims it in between starts the count again (engine.py:60-63).   *)
GivesUpOnSustained ==
  [][state = "WAIT_FOR_BULLISH_SIGNAL" /\ state' = "DONE" =>
       last'.close < PDL /\ (Sustained >= 2 => last.close < PDL)]_vars

(* The engine keeps the contract the coordinator relies on.                *)
Contract ==
  INSTANCE EngineContract WITH
    engine <- IF state \in {"WAIT_FOR_LOW_SWEEP", "WAIT_FOR_BULLISH_SIGNAL"}
                THEN "WAIT" ELSE state

KeepsContract == Contract!Spec

-----------------------------------------------------------------------------
(* Statements of the documents that the code does not keep *)

(* rulebook section 8, "The immediate next M1 candle is the only           *)
(* confirmation candle": the engine takes the next candle it is given,     *)
(* however many minutes later (engine.py:74-82).                           *)
ConfirmedInNextMinute ==
  [][event' # event => minute' = signalMinute + 1]_vars

(* rulebook section 6, "The candle's Low is at or below PDL OR the candle  *)
(* directly follows a candle whose Low was below PDL": the engine passes   *)
(* previous_swept=True for every candle after the sweep (engine.py:65).    *)
SignalTouchesLow ==
  [][signal' # signal => last'.low <= PDL \/ last.low < PDL]_vars

(* rulebook section 11, "(PDH - Entry) / (Entry - SL) >= 1.5": what the    *)
(* live coordinator arms when the engine is ready (live.py:128-134) is a   *)
(* BUY the engine itself would allow.                                      *)
LiveArms == state = "LONG_READY" /\ PDH > Entry /\ Stop < Entry

LiveMeetsRewardRisk == LiveArms => ValidLongGeometry(Entry, Stop, PDH)
=============================================================================
