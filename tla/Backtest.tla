------------------------------ MODULE Backtest ------------------------------
(***************************************************************************)
(* WickHunterBacktester.run (backtest.py) over the sessions and levels of  *)
(* prepare_sessions, with the costs of execution.py.  The engine is what   *)
(* module Engine is shown to be: EngineContract, and BUYs with the         *)
(* geometry of Engine!BuyGeometry.                                         *)
(***************************************************************************)
EXTENDS Sessions, SequencesExt, FiniteSets, Totals

CONSTANTS
  StartingEquity, MaxTrades, MaxStreak, LossNum, LossDen,
  RRNum, RRDen,          \* minimum_reward_risk
  EntrySlip, ExitSlip,   \* entry_slippage, exit_slippage
  Commission,            \* commission_per_unit
  Liquidates             \* liquidate_at_session_end

INSTANCE Risk

ASSUME BacktestAssumption ==
  /\ EntrySlip \in Nat /\ ExitSlip \in Nat /\ Commission \in Nat
  /\ RRNum \in Nat /\ RRDen \in Nat \ {0} /\ Liquidates \in BOOLEAN
  /\ StartingEquity \in Nat \ {0} /\ MaxTrades \in Nat \ {0}
  /\ MaxStreak \in (Nat \ {0}) \cup {None}
  /\ None \notin [price : Int, result : {"WIN", "LOSS"}]
  /\ None \notin [entry : Int, stop : Int, target : Int]

VARIABLES
  engine,     \* of the session, or None
  pending,    \* the open trade, or None
  risk,
  equity,
  book,       \* result.trades
  close,      \* of the last candle
  ended,      \* the candles of the session are over
  raised,     \* run() ended with an exception
  trail       \* history: range of the candles after the entry, or None

vars == <<sessionVars, engine, pending, risk, equity, book, close, ended,
          raised, trail>>

Init ==
  /\ SessionsInit
  /\ engine = None /\ pending = None /\ risk = NewRisk
  /\ equity = StartingEquity /\ book = <<>> /\ close = None
  /\ ended = TRUE /\ raised = FALSE /\ trail = None

-----------------------------------------------------------------------------
(* execution.py, one unit *)

EntryPrice(trigger) == trigger + EntrySlip
ExitPrice(trigger)  == trigger - ExitSlip
RoundTrip           == 2 * Commission

-----------------------------------------------------------------------------
(* One candle with a trade open: the stop first, and nothing else.         *)

ResolveExit_TargetFirst(c) ==
  IF c.high >= pending.target THEN [price |-> pending.target, result |-> "WIN"]
  ELSE IF c.low <= pending.stop THEN [price |-> pending.stop, result |-> "LOSS"]
  ELSE None
ResolveExit(c) ==
  IF c.low <= pending.stop THEN [price |-> pending.stop, result |-> "LOSS"]
  ELSE IF c.high >= pending.target THEN [price |-> pending.target, result |-> "WIN"]
  ELSE None

Pnl(price) == ExitPrice(price) - pending.entry - RoundTrip

CloseTrade_Gross(price, result) ==
  /\ book' = Append(book, [day |-> day, pnl |-> Pnl(price), result |-> result])
  /\ risk' = RecordClose(risk, price - pending.entry)
  /\ equity' = equity + Pnl(price)
  /\ pending' = None
CloseTrade(price, result) ==
  /\ book' = Append(book, [day |-> day, pnl |-> Pnl(price), result |-> result])
  /\ risk' = RecordClose(risk, Pnl(price))
  /\ equity' = equity + Pnl(price)
  /\ pending' = None

InTrade(c) ==
  /\ pending # None
  /\ trail' = Widen(trail, c)
  /\ IF ResolveExit(c) = None
       THEN UNCHANGED <<book, risk, equity, pending>>
       ELSE CloseTrade(ResolveExit(c).price, ResolveExit(c).result)
  /\ UNCHANGED engine

(* One candle without: engine.on_candle.  A BUY fills if the candle        *)
(* reaches the entry with its slippage and the guard allows it.            *)

NoBuy ==
  /\ pending = None
  /\ \/ engine = "WAIT" /\ engine' \in {"WAIT", "LONG_READY", "DONE"}
     \/ engine = "LONG_READY" /\ engine' = "DONE"
     \/ engine \in {"POSITION_OPEN", "DONE"} /\ UNCHANGED engine
  /\ UNCHANGED <<book, risk, equity, pending, trail>>

Buys(c) ==
  {b \in [entry : Prices, stop : Prices] :
     /\ b.stop < levels.low /\ levels.low < b.entry /\ b.entry < levels.high
     /\ b.entry <= c.high
     /\ RRDen * (levels.high - b.entry) >= RRNum * (b.entry - b.stop)}

Fills_AnyTarget(c, entry, stop) == c.high >= entry /\ CheckBuy(risk, entry, stop)
Fills(c, entry, stop) ==
  c.high >= entry /\ levels.high > entry /\ CheckBuy(risk, entry, stop)

Buy(c) ==
  /\ pending = None /\ engine = "LONG_READY"
  /\ engine' = "POSITION_OPEN"
  /\ \E b \in Buys(c) :
       IF Fills(c, EntryPrice(b.entry), b.stop)
         THEN /\ pending' = [entry |-> EntryPrice(b.entry), stop |-> b.stop,
                             target |-> levels.high]
              /\ risk' = CountTrade(risk)
         ELSE UNCHANGED <<pending, risk>>
  /\ trail' = None
  /\ UNCHANGED <<book, equity>>

OnCandle(c) == InTrade(c) \/ NoBuy \/ Buy(c)

-----------------------------------------------------------------------------
(* The loops of run.  The first session has no levels and is rejected; an  *)
(* engine on levels without a range raises and ends the run.               *)

BeginSession(c) ==
  /\ ended /\ ~raised
  /\ NextSession(c)
  /\ ended' = FALSE /\ close' = c.close
  /\ IF levels' = None
       THEN UNCHANGED <<engine, risk, raised>>
       ELSE /\ risk' = ResetDay(risk)
            /\ raised' = ~HasRange(levels')
            /\ engine' = IF HasRange(levels') THEN "WAIT" ELSE None
  /\ UNCHANGED <<pending, equity, book, trail>>

Candle(c) ==
  /\ ~ended /\ ~raised
  /\ SameSession(c)
  /\ close' = c.close
  /\ IF levels = None THEN UNCHANGED <<engine, pending, risk, equity, book, trail>>
                      ELSE OnCandle(c)
  /\ UNCHANGED <<ended, raised>>

EndSession ==
  /\ ~ended /\ ~raised
  /\ ended' = TRUE
  /\ IF pending # None /\ Liquidates
       THEN CloseTrade(close, "SESSION_CLOSE")
       ELSE pending' = None /\ UNCHANGED <<book, risk, equity>>
  /\ engine' = None
  /\ UNCHANGED <<sessionVars, close, raised, trail>>

Next == (\E c \in Candles : BeginSession(c) \/ Candle(c)) \/ EndSession

Spec == Init /\ [][Next]_vars

-----------------------------------------------------------------------------
(* Every variable has a value the code can give it; a trade is open only   *)
(* within its session, between its stop and its target.                    *)
TypeOK ==
  /\ engine \in {None, "WAIT", "LONG_READY", "POSITION_OPEN", "DONE"}
  /\ pending # None => /\ engine = "POSITION_OPEN" /\ ~ended /\ ~raised
                       /\ pending.stop < pending.entry
                       /\ pending.entry < pending.target
  /\ risk \in RiskStates /\ risk.trades \in 0 .. MaxTrades
  /\ \A i \in DOMAIN book : book[i].day \in 2 .. day
  /\ ended \in BOOLEAN /\ raised \in BOOLEAN

PnlOf(days) ==
  Total([i \in DOMAIN book |-> IF book[i].day \in days THEN book[i].pnl ELSE 0])
Today == {i \in DOMAIN book : book[i].day = day}

(* The account is kept three times, as run's equity, as the risk state and *)
(* as the list of trades, and they never part: equity and the losses of    *)
(* the day, net of costs, are those of the trades reported, and no trade   *)
(* entered is missing from them (backtest.py:136-152, 154-220,             *)
(* risk.py:45-58).                                                         *)
BooksAgree ==
  /\ equity = StartingEquity + PnlOf(Nat) /\ risk.equity = equity
  /\ day > 1 /\ ~(ended /\ ~Liquidates) =>
       /\ risk.daily = PnlOf({day})
       /\ risk.trades = Cardinality(Today) + IF pending = None THEN 0 ELSE 1

(* backtest-spec.md, "Exit evaluation starts on the candle after the entry *)
(* candle ... if both SL and TP are touched, SL is resolved first": a WIN  *)
(* means no candle since the entry touched the stop, and a trade that      *)
(* stays open, or leaves at the end of the session, means none touched     *)
(* either (backtest.py:122-128, 177-182, 213-218).                         *)
Untouched(range, p) ==
  range = None \/ (p.stop < range.low /\ range.high < p.target)

ExitIsFirstTouch ==
  [][pending # None =>
       \/ pending' = pending /\ Untouched(trail', pending)
       \/ book' = book /\ ended'
       \/ CASE Last(book').result = "WIN"  -> /\ trail'.low > pending.stop
                                              /\ trail'.high >= pending.target
            [] Last(book').result = "LOSS" -> trail'.low <= pending.stop
            [] OTHER                       -> Untouched(trail', pending)]_vars

(* Once the losses in a row reach their limit the run enters no trade any  *)
(* more, in no later session either: only a winning close would lift it,   *)
(* and reset_day does not (risk.py:45-58, 90-91).                          *)
StreakStaysShut ==
  [][MaxStreak # None /\ risk.streak >= MaxStreak /\ pending = None =>
       pending' = None /\ risk'.streak = risk.streak]_vars
=============================================================================
