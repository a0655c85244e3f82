--------------------------- MODULE Engine_proofs ---------------------------
(***************************************************************************)
(* Proofs about Engine for all prices, levels and limits: types, the       *)
(* geometry of a BUY, the end of a sustained downside, and the contract    *)
(* that BuyCoordinator relies on.                                          *)
(***************************************************************************)
EXTENDS Engine, TLAPS

(* A sweep lies below PDL; a signal reclaims PDL and remembers the sweep's *)
(* lowest low.                                                             *)
SweepInv ==
  /\ state = "WAIT_FOR_LOW_SWEEP" => sweepLow = None
  /\ state \in {"WAIT_FOR_BULLISH_SIGNAL", "LONG_READY"} =>
       sweepLow \in Int /\ sweepLow < PDL
  /\ state = "LONG_READY" =>
       /\ signal \in [high : Int, sweepLow : Int]
       /\ signal.sweepLow = sweepLow /\ PDL < signal.high

EngineInv == TypeOK /\ SweepInv /\ BuyGeometry /\ SustainedDownsideEnds

(* A candle's prices are ordered integers.                                 *)
LEMMA CandleOrder ==
  ASSUME NEW c \in Candles
  PROVE  /\ c.low \in Int /\ c.high \in Int /\ c.close \in Int
         /\ c.low <= c.close /\ c.close <= c.high
  BY EngineAssumption DEF Candles

(* The sweep low after a candle: no higher than before, nor than the low.  *)
LEMMA LowerCovers ==
  ASSUME NEW c \in Candles, sweepLow \in Int
  PROVE  Lower(c) \in Int /\ Lower(c) <= sweepLow /\ Lower(c) <= c.low
  BY CandleOrder DEF Lower

(* The count of closes below PDL is a number.                              *)
LEMMA ClosesBelowType ==
  ASSUME NEW c \in Candles, belowCloses \in Nat
  PROVE  ClosesBelow(c) \in Nat
  BY DEF ClosesBelow

(* A confirmed BUY has the geometry the rules ask for.                     *)
LEMMA ConfirmsGeometry ==
  ASSUME TypeOK, SweepInv, state = "LONG_READY", NEW c \in Candles, Confirms(c)
  PROVE  /\ Entry \in Int /\ Stop \in Int /\ Stop < PDL /\ PDL < Entry
         /\ Entry < PDH
         /\ RRDen * (PDH - Entry) >= RRNum * (Entry - Stop)
  <1>1. Entry \in Int /\ PDL < Entry
    BY DEF TypeOK, SweepInv, Entry
  <1>2. Stop \in Int /\ Stop < PDL
    BY EngineAssumption DEF TypeOK, SweepInv, Stop
  <1>3. ValidLongGeometry(Entry, Stop, PDH)
    BY DEF Confirms
  <1> QED
    BY <1>1, <1>2, <1>3 DEF ValidLongGeometry

(* Every candle keeps the strengthened invariant of the engine             *)
(* (engine.py:43-104).                                                     *)
LEMMA EngineStep ==
  ASSUME EngineInv, [Next]_vars
  PROVE  EngineInv'
  <1> USE EngineAssumption
  <1>1. CASE UNCHANGED vars
    BY <1>1 DEF vars, EngineInv, TypeOK, SweepInv, BuyGeometry,
       SustainedDownsideEnds
  <1>2. CASE Next
    <2> PICK c \in Candles : OnCandle(c)
      BY <1>2 DEF Next
    <2> USE DEF EngineInv, States
    <2>1. /\ minute' \in Nat /\ minute < minute'
          /\ last' \in [low : Int, close : Int]
      BY CandleOrder DEF OnCandle, TypeOK
    <2>2. CASE SweepBegins(c)
      BY <2>1, <2>2, CandleOrder
      DEF SweepBegins, TypeOK, SweepInv, BuyGeometry, SustainedDownsideEnds
    <2>3. CASE NoSweep(c)
      BY <2>1, <2>3
      DEF NoSweep, TypeOK, SweepInv, BuyGeometry, SustainedDownsideEnds
    <2>4. CASE SignalCandle(c)
      <3>1. /\ Lower(c) \in Int /\ Lower(c) < PDL /\ ClosesBelow(c) \in Nat
        BY <2>4, LowerCovers, ClosesBelowType DEF SignalCandle, SweepInv, TypeOK
      <3>2. PDL < c.high
        BY <2>4, CandleOrder DEF SignalCandle, IsBullishSignal
      <3>3. /\ state' = "LONG_READY" /\ sweepLow' = Lower(c)
            /\ belowCloses' = ClosesBelow(c) /\ signalMinute' = minute'
            /\ signal' = [high |-> c.high, sweepLow |-> Lower(c)]
            /\ UNCHANGED <<trades, event>>
        BY <2>4 DEF SignalCandle
      <3>4. signal' \in [high : Int, sweepLow : Int]
        BY <3>1, <3>3, CandleOrder
      <3>5. TypeOK'
        BY <2>1, <3>1, <3>3, <3>4 DEF TypeOK
      <3>6. SweepInv' /\ BuyGeometry' /\ SustainedDownsideEnds'
        BY <3>1, <3>2, <3>3, <3>4 DEF SweepInv, BuyGeometry, SustainedDownsideEnds
      <3> QED
        BY <3>5, <3>6
    <2>5. CASE NoSignal(c)
      <3>1. /\ Lower(c) \in Int /\ Lower(c) < PDL /\ ClosesBelow(c) \in Nat
        BY <2>5, LowerCovers, ClosesBelowType DEF NoSignal, SweepInv, TypeOK
      <3>2. state' \in {state, "DONE"}
        BY <2>5 DEF NoSignal
      <3>3. state' = state => ~(ClosesBelow(c) >= Sustained)
        BY <2>5 DEF NoSignal, GivesUp
      <3>4. /\ sweepLow' = Lower(c) /\ belowCloses' = ClosesBelow(c)
            /\ UNCHANGED <<signal, trades, event, signalMinute>>
        BY <2>5 DEF NoSignal
      <3>5. TypeOK'
        BY <2>1, <3>1, <3>2, <3>4 DEF TypeOK
      <3>6. SweepInv' /\ BuyGeometry'
        BY <2>5, <3>1, <3>2, <3>4 DEF NoSignal, SweepInv, BuyGeometry
      <3>7. SustainedDownsideEnds'
        BY <2>5, <3>1, <3>2, <3>3, <3>4 DEF NoSignal, SustainedDownsideEnds
      <3> QED
        BY <3>5, <3>6, <3>7
    <2>6. CASE Buy(c)
      <3>1. /\ Entry \in Int /\ Stop \in Int /\ Stop < PDL /\ PDL < Entry
            /\ Entry < PDH
            /\ RRDen * (PDH - Entry) >= RRNum * (Entry - Stop)
        BY <2>6, ConfirmsGeometry DEF Buy
      <3>2. /\ state' = "POSITION_OPEN" /\ trades' = trades + 1
            /\ trades < MaxTrades
            /\ event' = [entry |-> Entry, stop |-> Stop, target |-> PDH]
            /\ UNCHANGED <<sweepLow, signal, belowCloses, signalMinute>>
        BY <2>6 DEF Buy, Confirms
      <3>3. BuyGeometry'
        BY <3>1, <3>2 DEF BuyGeometry
      <3>4. TypeOK'
        BY <2>1, <3>1, <3>2 DEF TypeOK
      <3> QED
        BY <3>2, <3>3, <3>4 DEF SweepInv, SustainedDownsideEnds
    <2>7. CASE NoConfirmation(c) \/ AfterTheEnd(c)
      BY <2>1, <2>7
      DEF NoConfirmation, AfterTheEnd, TypeOK, SweepInv, BuyGeometry,
          SustainedDownsideEnds
    <2> QED
      BY <2>2, <2>3, <2>4, <2>5, <2>6, <2>7 DEF OnCandle
  <1> QED
    BY <1>1, <1>2

(* The strengthened invariant of the engine holds after any candles.       *)
LEMMA EngineInductive == Spec => []EngineInv
  <1>1. Init => EngineInv
    BY EngineAssumption
    DEF Init, EngineInv, TypeOK, States, SweepInv, BuyGeometry,
        SustainedDownsideEnds
  <1> QED
    BY <1>1, EngineStep, PTL DEF Spec

(* For all prices, every BUY of the engine has its stop below PDL, its     *)
(* entry above PDL, its target above the entry and at least the configured *)
(* reward for its risk (engine.py:83-95, rules.py:35-41).                  *)
THEOREM EngineBuyGeometry == Spec => []BuyGeometry
  BY EngineInductive, PTL DEF EngineInv

(* The engine never waits on in a sweep that has closed below PDL the      *)
(* configured number of times in a row (engine.py:60-63, 70-71).           *)
THEOREM EngineEndsDownside == Spec => []SustainedDownsideEnds
  BY EngineInductive, PTL DEF EngineInv

(* The stop covers the low of every candle since the sweep began, for all  *)
(* candles (engine.py:57-58, 66, 84).                                      *)
THEOREM EngineStopCovers == Spec => SweepLowCovers
  <1> DEFINE Covers ==
        /\ state' \in {"WAIT_FOR_BULLISH_SIGNAL", "LONG_READY"} =>
             /\ sweepLow' <= last'.low
             /\ sweepLow # None => sweepLow' <= sweepLow
        /\ event' # event => event'.stop <= sweepLow
  <1>1. EngineInv /\ [Next]_vars => [Covers]_vars
    <2> SUFFICES ASSUME EngineInv, NEW c \in Candles, OnCandle(c) PROVE Covers
      BY DEF Next
    <2> USE EngineAssumption DEF EngineInv
    <2>1. last'.low = c.low
      BY DEF OnCandle
    <2>2. CASE SweepBegins(c)
      BY <2>1, <2>2, CandleOrder DEF SweepBegins, SweepInv
    <2>3. CASE SignalCandle(c) \/ NoSignal(c)
      BY <2>1, <2>3, LowerCovers DEF SignalCandle, NoSignal, SweepInv
    <2>4. CASE Buy(c)
      <3>1. event'.stop = Stop /\ state' = "POSITION_OPEN"
        BY <2>4 DEF Buy
      <3>2. Stop <= sweepLow
        BY <2>4 DEF Buy, SweepInv, Stop
      <3> QED
        BY <3>1, <3>2
    <2>5. CASE NoSweep(c) \/ NoConfirmation(c) \/ AfterTheEnd(c)
      BY <2>5 DEF NoSweep, NoConfirmation, AfterTheEnd
    <2> QED
      BY <2>2, <2>3, <2>4, <2>5 DEF OnCandle
  <1> QED
    BY <1>1, EngineInductive, PTL DEF Spec, SweepLowCovers

(* While a signal is awaited, a running count of closes below the low      *)
(* includes the last candle.                                               *)
CountInv ==
  state = "WAIT_FOR_BULLISH_SIGNAL" /\ belowCloses > 0 => last.close < PDL

(* Every candle keeps that (engine.py:60-63).                              *)
LEMMA CountStep ==
  ASSUME EngineInv, CountInv, [Next]_vars
  PROVE  CountInv'
  <1> USE DEF CountInv
  <1>1. CASE UNCHANGED vars
    BY <1>1 DEF vars
  <1>2. CASE Next
    <2> PICK c \in Candles : OnCandle(c)
      BY <1>2 DEF Next
    <2>1. last'.close = c.close
      BY DEF OnCandle
    <2>2. CASE SweepBegins(c)
      BY <2>1, <2>2 DEF SweepBegins
    <2>3. CASE NoSignal(c)
      BY <2>1, <2>3 DEF NoSignal, ClosesBelow
    <2>4. CASE SignalCandle(c) \/ Buy(c) \/ NoConfirmation(c)
      BY <2>4 DEF SignalCandle, Buy, NoConfirmation
    <2>5. CASE NoSweep(c) \/ AfterTheEnd(c)
      BY <2>5 DEF NoSweep, AfterTheEnd
    <2> QED
      BY <2>2, <2>3, <2>4, <2>5 DEF OnCandle
  <1> QED
    BY <1>1, <1>2

(* A sweep is given up only on consecutive closes below the low, for all   *)
(* candles and every limit: a close that reclaims it in between starts the *)
(* count again (engine.py:60-63, 70-71).                                   *)
THEOREM EngineGivesUp == Spec => GivesUpOnSustained
  <1> DEFINE Given ==
        state = "WAIT_FOR_BULLISH_SIGNAL" /\ state' = "DONE" =>
          last'.close < PDL /\ (Sustained >= 2 => last.close < PDL)
  <1>1. Init => CountInv
    BY DEF Init, CountInv
  <1>2. EngineInv /\ CountInv /\ [Next]_vars => CountInv'
    BY CountStep
  <1>3. EngineInv /\ CountInv /\ [Next]_vars => [Given]_vars
    <2> SUFFICES ASSUME EngineInv, CountInv, NEW c \in Candles, OnCandle(c)
                 PROVE  Given
      BY DEF Next
    <2>1. last'.close = c.close
      BY DEF OnCandle
    <2>2. CASE NoSignal(c)
      BY <2>1, <2>2, EngineAssumption, CandleOrder
      DEF NoSignal, ClosesBelow, GivesUp, CountInv, EngineInv, TypeOK
    <2>3. CASE ~NoSignal(c)
      BY <2>3 DEF OnCandle, SweepBegins, NoSweep, SignalCandle, Buy,
                  NoConfirmation, AfterTheEnd
    <2> QED
      BY <2>2, <2>3
  <1> QED
    BY <1>1, <1>2, <1>3, EngineInductive, PTL DEF Spec, GivesUpOnSustained

(* Every state of the engine has the values the code can give it, for all  *)
(* candles, levels and limits (engine.py:29-104).                          *)
THEOREM EngineTypeCorrect == Spec => []TypeOK
  BY EngineInductive, PTL DEF EngineInv

(* The engine implements the contract BuyCoordinator relies on.            *)
THEOREM EngineImplementsContract == Spec => KeepsContract
  <1> DEFINE control ==
        IF state \in {"WAIT_FOR_LOW_SWEEP", "WAIT_FOR_BULLISH_SIGNAL"}
          THEN "WAIT" ELSE state
  <1>1. Init => Contract!Init
    BY DEF Init, Contract!Init
  <1>2. [Next]_vars => [Contract!Next]_control
    <2> SUFFICES ASSUME [Next]_vars
                 PROVE  Contract!Next \/ UNCHANGED control
      OBVIOUS
    <2> USE DEF Contract!Next, Contract!Signal, Contract!GiveUp, Contract!Confirm
    <2>1. CASE UNCHANGED vars
      BY <2>1 DEF vars
    <2>2. CASE Next
      BY <2>2 DEF Next, OnCandle, SweepBegins, NoSweep, SignalCandle, NoSignal,
         Buy, NoConfirmation, AfterTheEnd
    <2> QED
      BY <2>1, <2>2
  <1> QED
    BY <1>1, <1>2, PTL DEF Spec, KeepsContract, Contract!Spec
=============================================================================
