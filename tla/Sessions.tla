------------------------------ MODULE Sessions ------------------------------
(***************************************************************************)
(* The levels of a session: the range of the session before it.  The same  *)
(* completed candles reach prepare_sessions (data.py), which has them all, *)
(* and FyersM1Strategy (fyers_m1_strategy.py), which sees one at a time.   *)
(***************************************************************************)
EXTENDS Integers

CONSTANTS
  None,
  Prices,       \* the prices a candle can show
  Initial,      \* initial_pdl and initial_pdh of the stream
  MaxDays,      \* bound: sessions
  MaxCandles    \* bound: candles of a session

ASSUME SessionsAssumption ==
  /\ Prices \subseteq Int
  /\ None \notin Int /\ None \notin [low : Int, high : Int]
  /\ Initial \in [low : Int, high : Int] /\ Initial.low < Initial.high
  /\ MaxDays \in Nat /\ MaxCandles \in Nat \ {0}

(* models.Candle, without its open: nothing here reads it.                 *)
Candles ==
  {c \in [high : Prices, low : Prices, close : Prices] :
     c.low <= c.close /\ c.close <= c.high}

VARIABLES
  day,       \* session of the last candle, 0 before the first
  count,     \* its candles so far
  session,   \* their range
  levels,    \* prepare_sessions' levels of this session, or None
  stream,    \* FyersM1Strategy
  flat       \* history: some session was over without a range

sessionVars == <<day, count, session, levels, stream, flat>>

Widen(range, c) ==
  IF range = None THEN [low |-> c.low, high |-> c.high]
  ELSE [low  |-> IF c.low < range.low THEN c.low ELSE range.low,
        high |-> IF c.high > range.high THEN c.high ELSE range.high]

HasRange(r) == r.low < r.high

SessionsInit ==
  /\ day = 0 /\ count = 0 /\ session = None /\ levels = None /\ flat = FALSE
  /\ stream = [session |-> None, range |-> None, next |-> Initial,
               engine |-> None]

-----------------------------------------------------------------------------
(* FyersM1Strategy.  A session without a range to take levels from raises, *)
(* and so does the engine on levels without one, after session was set.    *)

RollLevels_Widest(s) ==
  IF s.session = None THEN s.next ELSE Widen(s.range, [low |-> s.next.low,
                                                      high |-> s.next.high])
RollLevels(s) == IF s.session = None THEN s.next ELSE s.range

StreamStart(d, c) ==
  LET next == RollLevels(stream)
      s == [stream EXCEPT !.session = d, !.next = next, !.range = None]
  IN IF stream.session # None /\ stream.range = None THEN stream
     ELSE IF HasRange(next) THEN [s EXCEPT !.engine = d, !.range = Widen(None, c)]
     ELSE s

StreamCandle(d, c) ==
  IF stream.session # d THEN StreamStart(d, c)
  ELSE [stream EXCEPT !.range = Widen(@, c)]

-----------------------------------------------------------------------------
(* A candle of the next session, and one of the same.                      *)

NextSession(c) ==
  /\ day < MaxDays
  /\ day' = day + 1 /\ count' = 1
  /\ session' = Widen(None, c)
  /\ levels' = session
  /\ stream' = StreamCandle(day + 1, c)
  /\ flat' = (flat \/ (session # None /\ ~HasRange(session)))

SameSession(c) ==
  /\ day > 0 /\ count < MaxCandles
  /\ count' = count + 1
  /\ session' = Widen(session, c)
  /\ stream' = StreamCandle(day, c)
  /\ UNCHANGED <<day, levels, flat>>

-----------------------------------------------------------------------------
(* backtest-spec.md, "PDH/PDL for a session come only from the immediately *)
(* preceding available completed session": online and offline trade every  *)
(* session after the first on the same levels, with an engine of its own,  *)
(* as long as every session had a range (fyers_m1_strategy.py:27-50,       *)
(* data.py:60-72).                                                         *)
LevelsAgree ==
  day > 0 /\ ~flat =>
    /\ stream.engine = day
    /\ stream.next = IF levels = None THEN Initial ELSE levels
    /\ stream.range = session

(* fyers_m1_strategy.py:11, "Run one WickHunter engine per trading session *)
(* without lookahead."  After a session without a range the engine of an   *)
(* earlier one goes on (fyers_m1_strategy.py:41-50).                       *)
OneEnginePerSession == day > 0 => stream.engine = day
=============================================================================
