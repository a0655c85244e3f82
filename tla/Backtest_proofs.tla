-------------------------- MODULE Backtest_proofs --------------------------
(***************************************************************************)
(* What a backtest keeps for every choice of prices, costs, limits and     *)
(* number of sessions and candles.                                         *)
(***************************************************************************)
EXTENDS Backtest, Induction, FiniteSetTheorems

Ranges  == [low : Int, high : Int]
Streams == [session : Nat \cup {None}, range : Ranges \cup {None},
            next : Ranges, engine : Nat \cup {None}]

(* LevelsAgree with the stream on the session of the candle, and before    *)
(* the first candle on none.                                               *)
SessionInv ==
  /\ day \in Nat /\ flat \in BOOLEAN /\ stream \in Streams
  /\ session \in Ranges \cup {None} /\ levels \in Ranges \cup {None}
  /\ day = 0 => session = None /\ stream.session = None /\ stream.next = Initial
  /\ day > 0 => session \in Ranges
  /\ day <= 1 => levels = None
  /\ day > 0 /\ ~flat => stream.session = day
  /\ LevelsAgree

LEMMA NoneIsNoRange == None \notin Ranges
  BY SessionsAssumption DEF Ranges

LEMMA CandlePrices ==
  ASSUME NEW c \in Candles
  PROVE  c.low \in Int /\ c.high \in Int /\ c.close \in Int
  BY SessionsAssumption DEF Candles

LEMMA WidenIsRange ==
  ASSUME NEW r \in Ranges \cup {None}, NEW c \in Candles
  PROVE  Widen(r, c) \in Ranges
  BY CandlePrices DEF Widen, Ranges

LEMMA SessionsInitHolds == SessionsInit => SessionInv
<1>. SUFFICES ASSUME SessionsInit PROVE SessionInv
  OBVIOUS
<1>1. day = 0 /\ flat = FALSE /\ session = None /\ levels = None
  BY DEF SessionsInit
<1>2. stream = [session |-> None, range |-> None, next |-> Initial, engine |-> None]
  BY DEF SessionsInit
<1>3. Initial \in Ranges
  BY SessionsAssumption DEF Ranges
<1>4. stream \in Streams /\ stream.session = None /\ stream.next = Initial
  BY <1>2, <1>3 DEF Streams
<1>5. LevelsAgree
  BY <1>1 DEF LevelsAgree
<1>6. day \in Nat /\ ~(day > 0)
  BY <1>1
<1>7. flat \in BOOLEAN
  BY <1>1
<1>8. session \in Ranges \cup {None} /\ levels \in Ranges \cup {None}
  BY <1>1
<1>. QED  BY <1>1, <1>4, <1>5, <1>6, <1>7, <1>8 DEF SessionInv

-----------------------------------------------------------------------------
(* A candle of the next session: the rolled levels are the range of the    *)
(* session before.                                                         *)

LEMMA RolledLevels ==
  ASSUME stream \in Streams, stream.session # None => stream.range # None
  PROVE  RollLevels(stream) \in Ranges
  BY DEF RollLevels, Streams

LEMMA StreamTyped ==
  ASSUME stream \in Streams, NEW c \in Candles, NEW d \in Nat
  PROVE  StreamCandle(d, c) \in Streams
<1>1. CASE stream.session = d
  <2>1. Widen(stream.range, c) \in Ranges
    BY WidenIsRange DEF Streams
  <2>. QED  BY <1>1, <2>1 DEF StreamCandle, Streams
<1>2. CASE stream.session # d /\ stream.session # None /\ stream.range = None
  BY <1>2 DEF StreamCandle, StreamStart
<1>3. CASE stream.session # d /\ (stream.session # None => stream.range # None)
  <2>1. RollLevels(stream) \in Ranges
    BY <1>3, RolledLevels
  <2>2. Widen(None, c) \in Ranges
    BY WidenIsRange
  <2>. QED  BY <1>3, <2>1, <2>2 DEF StreamCandle, StreamStart, Streams
<1>. QED  BY <1>1, <1>2, <1>3

(* A stream that starts a session on levels with a range is ready for it.  *)
LEMMA StreamStarts ==
  ASSUME stream \in Streams, NEW c \in Candles, NEW d \in Nat,
         stream.session # d, stream.session # None => stream.range # None,
         HasRange(RollLevels(stream))
  PROVE  LET s == StreamCandle(d, c) IN
           /\ s.session = d /\ s.engine = d
           /\ s.next = RollLevels(stream) /\ s.range = Widen(None, c)
  BY DEF StreamCandle, StreamStart, Streams

LEMMA NextSessionHolds ==
  ASSUME SessionInv, NEW c \in Candles, NextSession(c)
  PROVE  SessionInv'
<1>1. /\ day' = day + 1 /\ day' \in Nat /\ day' > 0
      /\ session' = Widen(None, c) /\ levels' = session
      /\ stream' = StreamCandle(day + 1, c)
      /\ flat' = (flat \/ (session # None /\ ~HasRange(session)))
  BY DEF NextSession, SessionInv
<1>2. stream' \in Streams
  BY <1>1, StreamTyped DEF SessionInv
<1>3. session' \in Ranges /\ levels' \in Ranges \cup {None}
  BY <1>1, WidenIsRange DEF SessionInv
<1>4. flat' \in BOOLEAN
  BY <1>1 DEF SessionInv
<1>5. day' <= 1 => levels' = None
  BY <1>1 DEF SessionInv
<1>6. ASSUME ~flat'
      PROVE  stream'.session = day' /\ LevelsAgree'
  <2>1. ~flat /\ (session = None \/ HasRange(session))
    BY <1>1, <1>6 DEF SessionInv
  <2>2. stream \in Streams /\ day + 1 \in Nat
    BY DEF SessionInv
  <2>3. CASE day = 0
    <3>1. session = None /\ stream.session = None /\ stream.next = Initial
      BY <2>3 DEF SessionInv
    <3>2. RollLevels(stream) = Initial /\ HasRange(Initial)
      BY <3>1, SessionsAssumption DEF RollLevels, HasRange
    <3>3. stream.session # day + 1
      BY <3>1, <2>2, SessionsAssumption
    <3>4. /\ stream'.session = day + 1 /\ stream'.engine = day + 1
          /\ stream'.next = Initial /\ stream'.range = Widen(None, c)
      BY <1>1, <2>2, <3>1, <3>2, <3>3, StreamStarts
    <3>. QED  BY <1>1, <3>1, <3>4 DEF LevelsAgree
  <2>4. CASE day > 0
    <3>1. /\ session \in Ranges /\ session # None
          /\ stream.session = day /\ stream.range = session
      BY <2>1, <2>4, NoneIsNoRange DEF SessionInv, LevelsAgree
    <3>2. RollLevels(stream) = session /\ HasRange(session)
      BY <2>1, <2>2, <2>4, <3>1, SessionsAssumption DEF RollLevels, SessionInv
    <3>3. stream.session # day + 1
      BY <3>1, <2>4 DEF SessionInv
    <3>4. /\ stream'.session = day + 1 /\ stream'.engine = day + 1
          /\ stream'.next = session /\ stream'.range = Widen(None, c)
      BY <1>1, <2>2, <3>1, <3>2, <3>3, StreamStarts
    <3>. QED  BY <1>1, <3>1, <3>4 DEF LevelsAgree
  <2>. QED  BY <2>3, <2>4 DEF SessionInv
<1>7. flat' => LevelsAgree'
  BY DEF LevelsAgree
<1>. QED  BY <1>1, <1>2, <1>3, <1>4, <1>5, <1>6, <1>7 DEF SessionInv

LEMMA SameSessionHolds ==
  ASSUME SessionInv, NEW c \in Candles, SameSession(c)
  PROVE  SessionInv'
<1>1. /\ day > 0 /\ UNCHANGED <<day, levels, flat>>
      /\ session' = Widen(session, c) /\ stream' = StreamCandle(day, c)
  BY DEF SameSession
<1>2. stream' \in Streams
  BY <1>1, StreamTyped DEF SessionInv
<1>3. session' \in Ranges
  BY <1>1, WidenIsRange DEF SessionInv
<1>4. ASSUME ~flat
      PROVE  stream'.session = day /\ LevelsAgree'
  <2>1. stream.session = day /\ LevelsAgree
    BY <1>1, <1>4 DEF SessionInv
  <2>2. stream' = [stream EXCEPT !.range = Widen(@, c)]
    BY <1>1, <2>1 DEF StreamCandle
  <2>3. /\ stream'.session = day /\ stream'.engine = stream.engine
        /\ stream'.next = stream.next /\ stream'.range = Widen(stream.range, c)
    BY <2>1, <2>2 DEF SessionInv, Streams
  <2>. QED  BY <1>1, <1>4, <2>1, <2>3 DEF LevelsAgree
<1>5. flat => LevelsAgree'
  BY <1>1 DEF LevelsAgree
<1>. QED  BY <1>1, <1>2, <1>3, <1>4, <1>5 DEF SessionInv

LEMMA SessionInvHolds == Spec => []SessionInv
<1>1. Init => SessionInv
  BY SessionsInitHolds DEF Init
<1>2. SessionInv /\ [Next]_vars => SessionInv'
  <2>. SUFFICES ASSUME SessionInv, [Next]_vars PROVE SessionInv'
    OBVIOUS
  <2>1. ASSUME NEW c \in Candles, BeginSession(c) PROVE SessionInv'
    BY <2>1, NextSessionHolds DEF BeginSession
  <2>2. ASSUME NEW c \in Candles, Candle(c) PROVE SessionInv'
    BY <2>2, SameSessionHolds DEF Candle
  <2>3. CASE EndSession \/ UNCHANGED vars
    <3>1. UNCHANGED sessionVars
      BY <2>3 DEF EndSession, vars
    <3>. QED  BY <3>1 DEF SessionInv, LevelsAgree, sessionVars
  <2>. QED  BY <2>1, <2>2, <2>3 DEF Next
<1>. QED  BY <1>1, <1>2, PTL DEF Spec

(* The stream and prepare_sessions agree on the levels of every session    *)
(* (fyers_m1_strategy.py:27-50, data.py:60-72).                            *)
THEOREM StreamAgrees == Spec => []LevelsAgree
<1>1. SessionInv => LevelsAgree
  BY DEF SessionInv
<1>. QED  BY <1>1, SessionInvHolds, PTL

-----------------------------------------------------------------------------
(* The run itself.  TypeOK is not inductive: the types of the prices, that *)
(* a trade is only open in a session with levels, and what the candles     *)
(* since its entry have not touched.                                       *)

Trades  == [entry : Int, stop : Int, target : Int]
Results == {"WIN", "LOSS", "SESSION_CLOSE"}
Records == [day : Nat, pnl : Int, result : Results]

TradeInv ==
  /\ pending \in Trades \cup {None} /\ trail \in Ranges \cup {None}
  /\ ~ended => close \in Int
  /\ pending # None => day >= 2 /\ Untouched(trail, pending)

BookInv == equity \in Int /\ book \in Seq(Records)

IInv == SessionInv /\ TypeOK /\ TradeInv /\ BookInv

LEMMA InitHolds == Init => IInv
<1>. SUFFICES ASSUME Init PROVE IInv
  OBVIOUS
<1>1. SessionInv
  BY SessionsInitHolds DEF Init
<1>2. risk \in RiskStates /\ risk.trades = 0
  BY BacktestAssumption DEF Init, NewRisk, RiskStates
<1>3. TypeOK
  <2>1. risk.trades \in 0 .. MaxTrades
    BY <1>2, BacktestAssumption
  <2>2. engine = None /\ pending = None
    BY DEF Init
  <2>3. DOMAIN book = {}
    BY DEF Init
  <2>4. ended \in BOOLEAN /\ raised \in BOOLEAN
    BY DEF Init
  <2>. QED  BY <1>2, <2>1, <2>2, <2>3, <2>4 DEF TypeOK
<1>4. TradeInv /\ BookInv
  BY BacktestAssumption DEF Init, TradeInv, BookInv
<1>. QED  BY <1>1, <1>3, <1>4 DEF IInv

(* Closing the open trade, at whatever price.                              *)
LEMMA PnlIsInt ==
  ASSUME NEW price \in Int, pending \in Trades
  PROVE  Pnl(price) \in Int
  BY BacktestAssumption DEF Pnl, ExitPrice, RoundTrip, Trades

LEMMA RecordCloseTyped ==
  ASSUME NEW r \in RiskStates, NEW pnl \in Int
  PROVE  RecordClose(r, pnl) \in RiskStates /\ RecordClose(r, pnl).trades = r.trades
<1>1. /\ r.streak \in Nat /\ r.equity + pnl \in Int /\ r.daily + pnl \in Int
      /\ r.trades \in Nat
  BY DEF RiskStates
<1>2. Streak(r.streak, pnl) \in Nat
  BY <1>1 DEF Streak
<1>3. RecordClose(r, pnl) =
        [r EXCEPT !.equity = r.equity + pnl, !.daily = r.daily + pnl,
                  !.streak = Streak(r.streak, pnl)]
  BY DEF RecordClose
<1>. QED  BY <1>1, <1>2, <1>3 DEF RiskStates

LEMMA CloseHolds ==
  ASSUME IInv, pending # None, NEW price \in Int, NEW result \in Results,
         CloseTrade(price, result), UNCHANGED day
  PROVE  /\ pending' = None /\ BookInv'
         /\ risk' \in RiskStates /\ risk'.trades \in 0 .. MaxTrades
         /\ \A i \in DOMAIN book' : book'[i].day \in 2 .. day
         /\ Last(book').result = result
<1>1. pending \in Trades /\ risk \in RiskStates /\ day \in Nat /\ day >= 2
      /\ risk.trades \in 0 .. MaxTrades /\ book \in Seq(Records) /\ equity \in Int
      /\ \A i \in DOMAIN book : book[i].day \in 2 .. day
  BY DEF IInv, TradeInv, TypeOK, SessionInv, BookInv
<1>2. Pnl(price) \in Int
  BY <1>1, PnlIsInt
<1> DEFINE new == [day |-> day, pnl |-> Pnl(price), result |-> result]
<1>3. /\ book' = Append(book, new) /\ risk' = RecordClose(risk, Pnl(price))
      /\ equity' = equity + Pnl(price) /\ pending' = None
  BY DEF CloseTrade
<1>4. new \in Records /\ new.day = day /\ new.result = result
  BY <1>1, <1>2 DEF Records
<1>. HIDE DEF new
<1>5. /\ book' \in Seq(Records) /\ Len(book') = Len(book) + 1
      /\ book'[Len(book')] = new
      /\ \A i \in DOMAIN book' :
           (i \in DOMAIN book /\ book'[i] = book[i]) \/ i = Len(book')
  BY <1>1, <1>3, <1>4
<1>6. BookInv'
  BY <1>1, <1>2, <1>3, <1>5 DEF BookInv
<1>7. \A i \in DOMAIN book' : book'[i].day \in 2 .. day
  BY <1>1, <1>4, <1>5
<1>8. Last(book').result = result
  BY <1>4, <1>5 DEF Last
<1>9. risk' \in RiskStates /\ risk'.trades \in 0 .. MaxTrades
  BY <1>1, <1>2, <1>3, RecordCloseTyped
<1>. QED  BY <1>3, <1>6, <1>7, <1>8, <1>9

(* The body of ExitIsFirstTouch.                                           *)
ExitStep ==
  pending # None =>
    \/ pending' = pending /\ Untouched(trail', pending)
    \/ book' = book /\ ended'
    \/ CASE Last(book').result = "WIN"  -> /\ trail'.low > pending.stop
                                           /\ trail'.high >= pending.target
         [] Last(book').result = "LOSS" -> trail'.low <= pending.stop
         [] OTHER                       -> Untouched(trail', pending)

LEMMA WidenBounds ==
  ASSUME NEW r \in Ranges \cup {None}, NEW c \in Candles
  PROVE  /\ Widen(r, c).low <= c.low /\ c.high <= Widen(r, c).high
         /\ \A x \in Int : x < c.low /\ (r = None \/ x < r.low)
                             => x < Widen(r, c).low
         /\ \A x \in Int : c.high < x /\ (r = None \/ r.high < x)
                             => Widen(r, c).high < x
  BY CandlePrices DEF Widen, Ranges

(* Facts of a step that stays in a session with levels.                    *)
InSession(c) ==
  /\ levels # None /\ ~ended /\ ~raised
  /\ UNCHANGED <<day, levels, ended, raised>> /\ close' = c.close

LEMMA InTradeHolds ==
  ASSUME IInv, NEW c \in Candles, InSession(c), InTrade(c), SessionInv'
  PROVE  IInv' /\ ExitStep
<1>1. /\ pending # None /\ pending \in Trades /\ trail \in Ranges \cup {None}
      /\ Untouched(trail, pending) /\ engine = "POSITION_OPEN"
  BY DEF InTrade, IInv, TradeInv, TypeOK
<1>2. /\ pending.stop \in Int /\ pending.target \in Int /\ c.close \in Int
      /\ c.low \in Int /\ c.high \in Int
  BY <1>1, CandlePrices DEF Trades
<1>3. trail' = Widen(trail, c) /\ trail' \in Ranges /\ engine' = engine
  BY <1>1, WidenIsRange DEF InTrade
<1>4. CASE pending.stop < c.low /\ c.high < pending.target
  <2>1. ResolveExit(c) = None
    BY <1>2, <1>4 DEF ResolveExit
  <2>2. UNCHANGED <<book, risk, equity, pending>>
    BY <2>1 DEF InTrade
  <2>3. Untouched(trail', pending)
    BY <1>1, <1>2, <1>3, <1>4, WidenBounds DEF Untouched
  <2>4. TypeOK'
    BY <1>3, <2>2 DEF InSession, IInv, TypeOK
  <2>5. TradeInv' /\ BookInv'
    BY <1>2, <1>3, <2>2, <2>3 DEF InSession, IInv, TradeInv, BookInv
  <2>. QED  BY <2>2, <2>3, <2>4, <2>5 DEF IInv, ExitStep
<1>5. CASE ~(pending.stop < c.low /\ c.high < pending.target)
  <2> DEFINE price  == IF c.low <= pending.stop THEN pending.stop ELSE pending.target
             result == IF c.low <= pending.stop THEN "LOSS" ELSE "WIN"
  <2>1. ResolveExit(c) = [price |-> price, result |-> result]
    BY <1>2, <1>5 DEF ResolveExit
  <2>2. price \in Int /\ result \in {"WIN", "LOSS"}
    <3>1. price \in {pending.stop, pending.target}
      OBVIOUS
    <3>2. result \in {"LOSS", "WIN"}
      OBVIOUS
    <3>3. price \in Int
      BY <1>2, <3>1
    <3>. QED  BY <3>2, <3>3
  <2>3. ResolveExit(c) # None
    BY <2>1, <2>2, BacktestAssumption
  <2>4. CloseTrade(price, result)
    BY <2>1, <2>3 DEF InTrade
  <2>5. /\ pending' = None /\ BookInv'
        /\ risk' \in RiskStates /\ risk'.trades \in 0 .. MaxTrades
        /\ \A i \in DOMAIN book' : book'[i].day \in 2 .. day
        /\ Last(book').result = result
    <3>. HIDE DEF price, result
    <3>1. result \in Results
      BY <2>2 DEF Results
    <3>2. pending # None /\ UNCHANGED day
      BY <1>1 DEF InSession
    <3>. QED  BY <2>2, <2>4, <3>1, <3>2, CloseHolds
  <2>6. TypeOK'
    BY <1>3, <2>5 DEF InSession, IInv, TypeOK
  <2>7. TradeInv'
    BY <1>2, <1>3, <2>5 DEF InSession, TradeInv
  <2>8. ExitStep
    <3>1. CASE c.low <= pending.stop
      <4>1. trail'.low \in Int /\ trail'.low <= c.low
        BY <1>1, <1>3, WidenBounds DEF Ranges
      <4>2. trail'.low <= pending.stop
        BY <1>2, <3>1, <4>1
      <4>3. Last(book').result = "LOSS"
        BY <2>5, <3>1
      <4>. QED  BY <4>2, <4>3 DEF ExitStep
    <3>2. CASE ~(c.low <= pending.stop)
      <4>1. pending.stop < trail'.low
        BY <1>1, <1>2, <1>3, <3>2, WidenBounds DEF Untouched
      <4>2. trail'.high >= pending.target
        <5>1. trail'.high \in Int /\ c.high <= trail'.high
          BY <1>1, <1>3, WidenBounds DEF Ranges
        <5>2. pending.target <= c.high
          BY <1>2, <1>5, <3>2
        <5>. QED  BY <1>2, <5>1, <5>2
      <4>3. Last(book').result = "WIN"
        BY <2>5, <3>2
      <4>4. trail'.low \in Int
        BY <1>3 DEF Ranges
      <4>. QED  BY <1>2, <4>1, <4>2, <4>3, <4>4 DEF ExitStep
    <3>. QED  BY <3>1, <3>2
  <2>. QED  BY <2>5, <2>6, <2>7, <2>8 DEF IInv
<1>. QED  BY <1>4, <1>5

LEMMA NoBuyHolds ==
  ASSUME IInv, NEW c \in Candles, InSession(c), NoBuy, SessionInv'
  PROVE  IInv' /\ ExitStep
<1>1. pending = None /\ UNCHANGED <<book, risk, equity, pending, trail>>
  BY DEF NoBuy
<1>2. engine' \in {None, "WAIT", "LONG_READY", "POSITION_OPEN", "DONE"}
  BY DEF NoBuy
<1>3. TypeOK'
  BY <1>1, <1>2 DEF InSession, IInv, TypeOK
<1>4. TradeInv' /\ BookInv'
  BY <1>1, CandlePrices DEF InSession, IInv, TradeInv, BookInv
<1>. QED  BY <1>1, <1>3, <1>4 DEF IInv, ExitStep

LEMMA BuyHolds ==
  ASSUME IInv, NEW c \in Candles, InSession(c), Buy(c), SessionInv'
  PROVE  IInv' /\ ExitStep
<1>1. /\ pending = None /\ engine' = "POSITION_OPEN" /\ trail' = None
      /\ UNCHANGED <<book, equity>>
  BY DEF Buy
<1>2. /\ levels \in Ranges /\ day \in Nat /\ day >= 2
      /\ risk \in RiskStates /\ risk.trades \in 0 .. MaxTrades
  BY DEF InSession, IInv, SessionInv, TypeOK
<1>3. PICK b \in Buys(c) :
        IF Fills(c, EntryPrice(b.entry), b.stop)
          THEN /\ pending' = [entry |-> EntryPrice(b.entry), stop |-> b.stop,
                              target |-> levels.high]
               /\ risk' = CountTrade(risk)
          ELSE UNCHANGED <<pending, risk>>
  BY DEF Buy
<1>4. b.stop \in Int /\ EntryPrice(b.entry) \in Int /\ levels.high \in Int
  <2>1. b \in Buys(c)
    BY <1>3
  <2>2. b.stop \in Prices /\ b.entry \in Prices
    BY <2>1 DEF Buys
  <2>3. b.stop \in Int /\ b.entry \in Int
    BY <2>2, SessionsAssumption
  <2>4. EntryPrice(b.entry) \in Int
    BY <2>3, BacktestAssumption DEF EntryPrice
  <2>5. levels.high \in Int
    BY <1>2 DEF Ranges
  <2>. QED  BY <2>3, <2>4, <2>5
<1>5. CASE Fills(c, EntryPrice(b.entry), b.stop)
  <2>1. /\ b.stop < EntryPrice(b.entry) /\ EntryPrice(b.entry) < levels.high
        /\ risk.trades < MaxTrades
    BY <1>4, <1>5 DEF Fills, CheckBuy
  <2>2. risk' \in RiskStates /\ risk'.trades \in 0 .. MaxTrades
    BY <1>2, <1>3, <1>5, <2>1, BacktestAssumption DEF CountTrade, RiskStates
  <2>3. /\ pending' \in Trades /\ pending'.stop < pending'.entry
        /\ pending'.entry < pending'.target
    BY <1>3, <1>4, <1>5, <2>1 DEF Trades
  <2>4. TypeOK'
    BY <1>1, <2>2, <2>3 DEF InSession, IInv, TypeOK
  <2>5. TradeInv' /\ BookInv'
    BY <1>1, <1>2, <2>3, CandlePrices DEF InSession, IInv, TradeInv, BookInv, Untouched
  <2>. QED  BY <1>1, <2>4, <2>5 DEF IInv, ExitStep
<1>6. CASE ~Fills(c, EntryPrice(b.entry), b.stop)
  <2>1. UNCHANGED <<pending, risk>>
    BY <1>3, <1>6
  <2>2. TypeOK'
    BY <1>1, <2>1 DEF InSession, IInv, TypeOK
  <2>3. TradeInv' /\ BookInv'
    BY <1>1, <2>1, CandlePrices DEF InSession, IInv, TradeInv, BookInv
  <2>. QED  BY <1>1, <2>2, <2>3 DEF IInv, ExitStep
<1>. QED  BY <1>5, <1>6

LEMMA CandleHolds ==
  ASSUME IInv, NEW c \in Candles, Candle(c), SessionInv'
  PROVE  IInv' /\ ExitStep
<1>1. /\ ~ended /\ ~raised /\ close' = c.close /\ UNCHANGED <<ended, raised>>
      /\ UNCHANGED <<day, levels>>
  BY DEF Candle, SameSession
<1>2. CASE levels = None
  <2>1. UNCHANGED <<engine, pending, risk, equity, book, trail>>
    BY <1>2 DEF Candle
  <2>2. TypeOK'
    BY <1>1, <2>1 DEF IInv, TypeOK
  <2>3. TradeInv' /\ BookInv'
    BY <1>1, <2>1, CandlePrices DEF IInv, TradeInv, BookInv, Untouched
  <2>4. ExitStep
    BY <2>1 DEF IInv, TradeInv, ExitStep
  <2>. QED  BY <2>2, <2>3, <2>4 DEF IInv
<1>3. CASE levels # None
  <2>1. InSession(c)
    BY <1>1, <1>3 DEF InSession
  <2>. QED  BY <1>3, <2>1, InTradeHolds, NoBuyHolds, BuyHolds DEF Candle, OnCandle
<1>. QED  BY <1>2, <1>3

LEMMA BeginSessionHolds ==
  ASSUME IInv, NEW c \in Candles, BeginSession(c), SessionInv'
  PROVE  IInv' /\ ExitStep
<1>1. /\ ended /\ ~raised /\ pending = None /\ ended' = FALSE /\ close' = c.close
      /\ UNCHANGED <<pending, equity, book, trail>>
  BY DEF BeginSession, IInv, TypeOK
<1>2. day' = day + 1 /\ day \in Nat
  BY DEF BeginSession, NextSession, IInv, SessionInv
<1>3. risk' = risk \/ risk' = ResetDay(risk)
  BY DEF BeginSession
<1>4. risk' \in RiskStates /\ risk'.trades \in 0 .. MaxTrades
  <2>1. risk \in RiskStates /\ risk.trades \in 0 .. MaxTrades
    BY DEF IInv, TypeOK
  <2>2. ResetDay(risk) \in RiskStates /\ ResetDay(risk).trades = 0
    <3>1. risk.equity \in Int /\ risk.streak \in Nat
      BY <2>1 DEF RiskStates
    <3>2. ResetDay(risk) = [risk EXCEPT !.trades = 0, !.daily = 0,
                                        !.dayStart = risk.equity]
      BY DEF ResetDay
    <3>3. ResetDay(risk) = [equity |-> risk.equity, trades |-> 0, daily |-> 0,
                            streak |-> risk.streak, dayStart |-> risk.equity]
      BY <2>1, <3>2 DEF RiskStates
    <3>. QED  BY <3>1, <3>3 DEF RiskStates
  <2>. QED  BY <1>3, <2>1, <2>2, BacktestAssumption
<1>5. engine' \in {None, "WAIT", "LONG_READY", "POSITION_OPEN", "DONE"}
  BY DEF BeginSession, IInv, TypeOK
<1>6. ended' \in BOOLEAN /\ raised' \in BOOLEAN
  BY DEF BeginSession, IInv, TypeOK
<1>7. \A i \in DOMAIN book' : book'[i].day \in 2 .. day'
  BY <1>1, <1>2 DEF IInv, TypeOK
<1>8. TypeOK'
  BY <1>1, <1>4, <1>5, <1>6, <1>7 DEF TypeOK
<1>9. TradeInv' /\ BookInv'
  BY <1>1, CandlePrices DEF IInv, TradeInv, BookInv
<1>. QED  BY <1>1, <1>8, <1>9 DEF IInv, ExitStep

LEMMA EndSessionHolds ==
  ASSUME IInv, EndSession, SessionInv'
  PROVE  IInv' /\ ExitStep
<1>1. /\ ~ended /\ ~raised /\ ended' = TRUE /\ engine' = None
      /\ UNCHANGED <<day, levels, close, raised, trail>>
  BY DEF EndSession, sessionVars
<1>2. CASE pending # None /\ Liquidates
  <2>1. CloseTrade(close, "SESSION_CLOSE") /\ close \in Int
    BY <1>1, <1>2 DEF EndSession, IInv, TradeInv
  <2>2. /\ pending' = None /\ BookInv'
        /\ risk' \in RiskStates /\ risk'.trades \in 0 .. MaxTrades
        /\ \A i \in DOMAIN book' : book'[i].day \in 2 .. day
        /\ Last(book').result = "SESSION_CLOSE"
    <3>1. pending # None /\ UNCHANGED day
      BY <1>1, <1>2
    <3>2. "SESSION_CLOSE" \in Results
      BY DEF Results
    <3>. QED  BY <2>1, <3>1, <3>2, CloseHolds
  <2>3. TypeOK'
    BY <1>1, <2>2 DEF IInv, TypeOK
  <2>4. TradeInv'
    BY <1>1, <2>2 DEF IInv, TradeInv
  <2>5. ExitStep
    BY <1>1, <1>2, <2>2 DEF IInv, TradeInv, ExitStep
  <2>. QED  BY <2>2, <2>3, <2>4, <2>5 DEF IInv
<1>3. CASE ~(pending # None /\ Liquidates)
  <2>1. pending' = None /\ UNCHANGED <<book, risk, equity>>
    BY <1>3 DEF EndSession
  <2>2. TypeOK'
    BY <1>1, <2>1 DEF IInv, TypeOK
  <2>3. TradeInv' /\ BookInv'
    BY <1>1, <2>1 DEF IInv, TradeInv, BookInv
  <2>. QED  BY <1>1, <2>1, <2>2, <2>3 DEF IInv, ExitStep
<1>. QED  BY <1>2, <1>3

LEMMA StepHolds ==
  ASSUME IInv, [Next]_vars, SessionInv'
  PROVE  IInv' /\ ExitStep
<1>1. CASE UNCHANGED vars
  <2>1. TypeOK'
    BY <1>1 DEF IInv, TypeOK, vars, sessionVars
  <2>2. TradeInv' /\ BookInv'
    BY <1>1 DEF IInv, TradeInv, BookInv, Untouched, vars, sessionVars
  <2>3. ExitStep
    BY <1>1 DEF IInv, TradeInv, ExitStep, vars
  <2>. QED  BY <2>1, <2>2, <2>3 DEF IInv
<1>2. CASE Next
  BY <1>2, CandleHolds, BeginSessionHolds, EndSessionHolds DEF Next
<1>. QED  BY <1>1, <1>2

LEMMA IInvHolds == Spec => []IInv
<1>1. IInv /\ [Next]_vars /\ SessionInv' => IInv'
  BY StepHolds
<1>. QED  BY <1>1, InitHolds, SessionInvHolds, PTL DEF Spec

-----------------------------------------------------------------------------
(* Every reachable state is well typed, and an open trade has its stop     *)
(* below its entry and its entry, slippage included, below its target      *)
(* (backtest.py:154-220).                                                  *)
THEOREM BacktestTypeCorrect == Spec => []TypeOK
<1>1. IInv => TypeOK
  BY DEF IInv
<1>. QED  BY <1>1, IInvHolds, PTL

(* Stop before target, from the candle after the entry, and nothing missed *)
(* (backtest.py:122-128, 177-182, 213-218).                                *)
THEOREM ExitsAtFirstTouch == Spec => ExitIsFirstTouch
<1>1. IInv /\ SessionInv' /\ [Next]_vars => [ExitStep]_vars
  BY StepHolds
<1>. QED  BY <1>1, IInvHolds, SessionInvHolds, PTL DEF Spec, ExitIsFirstTouch, ExitStep

(* Once the streak of losses has reached its limit, no step of any later   *)
(* session enters a trade or shortens the streak (risk.py:45-58, 90-91).   *)
THEOREM StreakIsForGood == Spec => StreakStaysShut
<1> DEFINE Shut == MaxStreak # None /\ risk.streak >= MaxStreak /\ pending = None =>
                     pending' = None /\ risk'.streak = risk.streak
<1>1. ASSUME IInv, [Next]_vars PROVE Shut
  <2>. SUFFICES ASSUME MaxStreak # None, risk.streak >= MaxStreak, pending = None
                PROVE  pending' = None /\ risk'.streak = risk.streak
    OBVIOUS
  <2>1. risk \in RiskStates /\ MaxStreak \in Nat /\ risk.streak \in Nat
    BY <1>1, BacktestAssumption DEF IInv, TypeOK, RiskStates
  <2>2. ASSUME NEW c \in Candles, BeginSession(c)
        PROVE  pending' = None /\ risk'.streak = risk.streak
    <3>1. pending' = None /\ (risk' = risk \/ risk' = ResetDay(risk))
      BY <2>2 DEF BeginSession
    <3>. QED  BY <2>1, <3>1 DEF ResetDay, RiskStates
  <2>3. ASSUME NEW c \in Candles, Candle(c)
        PROVE  pending' = None /\ risk'.streak = risk.streak
    <3>1. \A entry, stop : ~CheckBuy(risk, entry, stop)
      BY <2>1 DEF CheckBuy
    <3>2. CASE levels = None
      BY <2>3, <3>2 DEF Candle
    <3>3. CASE levels # None /\ NoBuy
      BY <3>3 DEF NoBuy
    <3>4. CASE levels # None /\ Buy(c)
      BY <3>1, <3>4 DEF Buy, Fills
    <3>. QED  BY <2>3, <3>2, <3>3, <3>4 DEF Candle, OnCandle, InTrade
  <2>4. CASE EndSession
    BY <2>4 DEF EndSession
  <2>5. CASE UNCHANGED vars
    BY <2>5 DEF vars
  <2>. QED  BY <1>1, <2>2, <2>3, <2>4, <2>5 DEF Next
<1>2. IInv /\ [Next]_vars => [Shut]_vars
  BY <1>1
<1>. QED  BY <1>2, IInvHolds, PTL DEF Spec, StreakStaysShut

-----------------------------------------------------------------------------
(* The three accounts.  A trade reported adds the same amount to each of   *)
(* them, and one entered is counted by the guard until it is reported.     *)

(* What a trade adds to the account of some sessions.                      *)
Part(days, t) == IF t.day \in days THEN t.pnl ELSE 0
Parts(days) == [i \in DOMAIN book |-> Part(days, book[i])]

LEMMA PartsType ==
  ASSUME book \in Seq(Records), NEW days
  PROVE  /\ Parts(days) \in Seq(Int) /\ Len(Parts(days)) = Len(book)
         /\ PnlOf(days) = Total(Parts(days)) /\ PnlOf(days) \in Int
  <1>1. \A i \in DOMAIN book : Part(days, book[i]) \in Int
    <2> TAKE i \in DOMAIN book
    <2>1. book[i] \in Records
      OBVIOUS
    <2>2. book[i].pnl \in Int
      BY <2>1 DEF Records
    <2> QED
      BY <2>2 DEF Part
  <1>2. Parts(days) \in Seq(Int) /\ Len(Parts(days)) = Len(book)
    BY <1>1 DEF Parts
  <1>3. PnlOf(days) = Total(Parts(days))
    BY DEF PnlOf, Parts, Part
  <1> QED
    BY <1>2, <1>3, TotalType

(* A trade reported adds its result to the sessions it belongs to.         *)
LEMMA ReportingAdds ==
  ASSUME book \in Seq(Records), NEW t \in Records, book' = Append(book, t),
         NEW days
  PROVE  PnlOf(days)' = PnlOf(days) + (IF t.day \in days THEN t.pnl ELSE 0)
  <1>1. /\ Parts(days) \in Seq(Int) /\ Len(Parts(days)) = Len(book)
        /\ PnlOf(days) = Total(Parts(days)) /\ PnlOf(days) \in Int
    BY PartsType
  <1>2. Part(days, t) \in Int
    BY DEF Part, Records
  <1>3. Parts(days)' = Append(Parts(days), Part(days, t))
    BY <1>1 DEF Parts
  <1>4. PnlOf(days)' = Total(Parts(days)')
    BY DEF PnlOf, Parts, Part
  <1>5. Total(Append(Parts(days), Part(days, t))) = Total(Parts(days)) + Part(days, t)
    BY <1>1, <1>2, TotalAppend
  <1> QED
    BY <1>1, <1>3, <1>4, <1>5 DEF Part

LEMMA TodayCounted ==
  ASSUME book \in Seq(Records)
  PROVE  IsFiniteSet(Today) /\ Cardinality(Today) \in Nat
  <1>1. IsFiniteSet(1 .. Len(book)) /\ Today \subseteq 1 .. Len(book)
    BY FS_Interval DEF Today
  <1> QED
    BY <1>1, FS_Subset, FS_CardinalityType

(* One more trade of today.                                                *)
LEMMA TodayGrows ==
  ASSUME book \in Seq(Records), NEW t \in Records, book' = Append(book, t),
         t.day = day, day' = day
  PROVE  Cardinality(Today)' = Cardinality(Today) + 1
  <1>n. PICK n \in Nat : n = Len(book)
    OBVIOUS
  <1>1. Today' = Today \cup {n + 1} /\ n + 1 \notin Today
    BY <1>n DEF Today
  <1>2. IsFiniteSet(Today) /\ Cardinality(Today) \in Nat
    BY TodayCounted
  <1>3. Cardinality(Today \cup {n + 1}) = Cardinality(Today) + 1
    BY <1>1, <1>2, FS_AddElement
  <1> QED
    BY <1>1, <1>3

(* Closing the open trade: every account moves by the same amount, net of  *)
(* the costs.                                                              *)
LEMMA ClosingAgrees ==
  ASSUME IInv, BooksAgree, pending # None, NEW price \in Int,
         NEW result \in Results, CloseTrade(price, result), UNCHANGED day,
         ~ended, ended' => Liquidates
  PROVE  BooksAgree'
  <1>1. /\ pending \in Trades /\ risk \in RiskStates /\ day \in Nat /\ day >= 2
        /\ book \in Seq(Records) /\ equity \in Int
    BY DEF IInv, TypeOK, TradeInv, BookInv, SessionInv
  <1>2. Pnl(price) \in Int
    BY <1>1, PnlIsInt
  <1> DEFINE t == [day |-> day, pnl |-> Pnl(price), result |-> result]
  <1>3. t \in Records /\ t.day = day /\ t.pnl = Pnl(price)
    BY <1>1, <1>2 DEF Records
  <1>4. /\ book' = Append(book, t) /\ risk' = RecordClose(risk, Pnl(price))
        /\ equity' = equity + Pnl(price) /\ pending' = None
    BY DEF CloseTrade
  <1> HIDE DEF t
  <1>5. /\ risk'.equity = risk.equity + Pnl(price)
        /\ risk'.daily = risk.daily + Pnl(price) /\ risk'.trades = risk.trades
    BY <1>1, <1>4 DEF RecordClose, RiskStates
  <1>6. /\ PnlOf(Nat)' = PnlOf(Nat) + Pnl(price)
        /\ PnlOf({day})' = PnlOf({day}) + Pnl(price)
    <2>1. \A days : PnlOf(days)' = PnlOf(days) + (IF t.day \in days THEN t.pnl ELSE 0)
      BY <1>1, <1>3, <1>4, ReportingAdds
    <2> QED
      BY <1>1, <1>3, <2>1
  <1>7. Cardinality(Today)' = Cardinality(Today) + 1
    BY <1>1, <1>3, <1>4, TodayGrows
  <1>8. /\ PnlOf(Nat) \in Int /\ PnlOf({day}) \in Int /\ Cardinality(Today) \in Nat
    BY <1>1, PartsType, TodayCounted
  <1>9. /\ equity = StartingEquity + PnlOf(Nat) /\ risk.equity = equity
        /\ risk.daily = PnlOf({day})
        /\ risk.trades = Cardinality(Today) + 1
    BY <1>1 DEF BooksAgree
  <1>10. /\ equity' = StartingEquity + PnlOf(Nat)' /\ risk'.equity = equity'
    BY <1>2, <1>4, <1>5, <1>6, <1>8, <1>9, BacktestAssumption
  <1>11. /\ risk'.daily = PnlOf({day})'
         /\ risk'.trades = Cardinality(Today)'
    BY <1>5, <1>6, <1>7, <1>9
  <1>12. risk'.trades \in Nat /\ pending' = None
    BY <1>4, <1>7, <1>8, <1>11
  <1> QED
    BY <1>10, <1>11, <1>12 DEF BooksAgree

(* Nothing is booked, entered or reset.                                    *)
LEMMA NothingBooked ==
  ASSUME BooksAgree, UNCHANGED <<book, day, risk, equity, pending>>,
         ~(ended' /\ ~Liquidates) => ~(ended /\ ~Liquidates)
  PROVE  BooksAgree'
  BY DEF BooksAgree, PnlOf, Today

(* A BUY that fills is counted by the guard and not yet reported.          *)
LEMMA BuyAgrees ==
  ASSUME IInv, BooksAgree, NEW c \in Candles, levels # None, Buy(c), ~ended,
         UNCHANGED <<day, ended>>
  PROVE  BooksAgree'
  <1>1. pending = None /\ risk \in RiskStates /\ UNCHANGED <<book, equity>>
    BY DEF Buy, IInv, TypeOK
  <1>2. UNCHANGED <<pending, risk>> \/ (pending' # None /\ risk' = CountTrade(risk))
    <2>1. PICK b \in Buys(c) :
            IF Fills(c, EntryPrice(b.entry), b.stop)
              THEN /\ pending' = [entry |-> EntryPrice(b.entry), stop |-> b.stop,
                                  target |-> levels.high]
                   /\ risk' = CountTrade(risk)
              ELSE UNCHANGED <<pending, risk>>
      BY DEF Buy
    <2>2. /\ b.stop \in Int /\ EntryPrice(b.entry) \in Int
          /\ levels.high \in Int
      <3>1. b \in [entry : Prices, stop : Prices] /\ levels \in Ranges \cup {None}
        BY DEF Buys, IInv, SessionInv
      <3>2. b.stop \in Int /\ b.entry \in Int
        BY <3>1, SessionsAssumption
      <3> QED
        BY <3>1, <3>2, BacktestAssumption DEF EntryPrice, Ranges
    <2>3. CASE Fills(c, EntryPrice(b.entry), b.stop)
      <3>1. [entry |-> EntryPrice(b.entry), stop |-> b.stop,
             target |-> levels.high] # None
        BY <2>2, BacktestAssumption
      <3> QED
        BY <2>1, <2>3, <3>1
    <2> QED
      BY <2>1, <2>3
  <1>3. CASE UNCHANGED <<pending, risk>>
    BY <1>1, <1>3, NothingBooked
  <1>4. CASE pending' # None /\ risk' = CountTrade(risk)
    <2>1. /\ risk'.equity = risk.equity /\ risk'.daily = risk.daily
          /\ risk'.trades = risk.trades + 1
      BY <1>1, <1>4 DEF CountTrade, RiskStates
    <2>2. /\ PnlOf(Nat)' = PnlOf(Nat) /\ PnlOf({day})' = PnlOf({day})
          /\ Today' = Today
      BY <1>1 DEF PnlOf, Today
    <2>3. Cardinality(Today) \in Nat
      BY TodayCounted DEF IInv, BookInv
    <2> QED
      BY <1>1, <1>4, <2>1, <2>2, <2>3 DEF BooksAgree
  <1> QED
    BY <1>2, <1>3, <1>4

(* A new session: the day starts with empty accounts, and nothing reported *)
(* belongs to it.                                                          *)
LEMMA SessionBegins ==
  ASSUME IInv, BooksAgree, NEW c \in Candles, BeginSession(c)
  PROVE  BooksAgree'
  <1>1. /\ pending = None /\ UNCHANGED <<pending, equity, book>>
        /\ day' = day + 1 /\ levels' = session /\ day \in Nat
        /\ book \in Seq(Records) /\ risk \in RiskStates /\ equity \in Int
        /\ \A i \in DOMAIN book : book[i].day \in 2 .. day
    BY DEF BeginSession, NextSession, IInv, TypeOK, SessionInv, BookInv
  <1>2. PnlOf(Nat)' = PnlOf(Nat)
    BY <1>1 DEF PnlOf
  <1>3. risk' = risk \/ risk' = ResetDay(risk)
    BY DEF BeginSession
  <1>4. risk'.equity = risk.equity
    BY <1>1, <1>3 DEF ResetDay, RiskStates
  <1>5. day > 0 => risk'.trades = 0 /\ risk'.daily = 0
    <2> HAVE day > 0
    <2>1. levels' # None
      BY <1>1, NoneIsNoRange DEF IInv, SessionInv
    <2>2. risk' = ResetDay(risk)
      BY <2>1 DEF BeginSession
    <2> QED
      BY <1>1, <2>2 DEF ResetDay, RiskStates
  <1>6. PICK d : d = day + 1
    OBVIOUS
  <1>7. PnlOf({d}) = 0 /\ PnlOf({d}) = PnlOf({day})'
    <2>1. /\ Parts({d}) \in Seq(Int) /\ Len(Parts({d})) = Len(book)
          /\ PnlOf({d}) = Total(Parts({d}))
      BY <1>1, PartsType
    <2>2. \A i \in 1 .. Len(Parts({d})) : Parts({d})[i] = 0
      <3>1. \A i \in DOMAIN book : book[i].day # d
        BY <1>1, <1>6
      <3>2. \A i \in DOMAIN book : Part({d}, book[i]) = 0
        BY <3>1 DEF Part
      <3>3. DOMAIN book = 1 .. Len(Parts({d}))
        BY <1>1, <2>1
      <3> QED
        BY <3>2, <3>3 DEF Parts
    <2>3. PnlOf({d}) = 0
      BY <2>1, <2>2, TotalOfZeros
    <2>4. PnlOf({day})' = PnlOf({d})
      BY <1>1, <1>6 DEF PnlOf
    <2> QED
      BY <2>3, <2>4
  <1>8. Today' = {} /\ Cardinality(Today') = 0
    <2>1. Today' = {}
      BY <1>1 DEF Today
    <2> QED
      BY <2>1, FS_EmptySet
  <1> QED
    BY <1>1, <1>2, <1>4, <1>5, <1>7, <1>8 DEF BooksAgree

LEMMA StartAgrees == Init => BooksAgree
  <1> SUFFICES ASSUME Init PROVE BooksAgree
    OBVIOUS
  <1>1. book = <<>> /\ equity = StartingEquity /\ risk = NewRisk /\ day = 0
    BY DEF Init, SessionsInit
  <1>2. book \in Seq(Records) /\ Len(book) = 0
    BY <1>1
  <1>3. PnlOf(Nat) = 0
    <2>1. /\ Parts(Nat) \in Seq(Int) /\ Len(Parts(Nat)) = 0
          /\ PnlOf(Nat) = Total(Parts(Nat))
      BY <1>2, PartsType
    <2> QED
      BY <2>1, TotalOfZeros
  <1> QED
    BY <1>1, <1>3, BacktestAssumption DEF BooksAgree, NewRisk

LEMMA AccountsStep ==
  ASSUME IInv, BooksAgree, [Next]_vars
  PROVE  BooksAgree'
  <1>1. ASSUME NEW c \in Candles, Candle(c) PROVE BooksAgree'
    <2>1. ~ended /\ ~ended' /\ UNCHANGED <<day, ended>>
      BY <1>1 DEF Candle, SameSession
    <2>2. CASE levels = None \/ NoBuy
      BY <1>1, <2>1, <2>2, NothingBooked DEF Candle, OnCandle, InTrade, NoBuy, Buy
    <2>3. CASE levels # None /\ InTrade(c)
      <3>1. CASE ResolveExit(c) = None
        BY <2>1, <2>3, <3>1, NothingBooked DEF InTrade
      <3>2. CASE ResolveExit(c) # None
        <4>1. pending # None /\ CloseTrade(ResolveExit(c).price, ResolveExit(c).result)
          BY <2>3, <3>2 DEF InTrade
        <4>2. pending \in Trades
          BY <4>1 DEF IInv, TradeInv
        <4>3. ResolveExit(c).price \in Int /\ ResolveExit(c).result \in Results
          BY <3>2, <4>2 DEF ResolveExit, Trades, Results
        <4> QED
          BY <2>1, <4>1, <4>3, ClosingAgrees
      <3> QED
        BY <3>1, <3>2
    <2>4. CASE levels # None /\ Buy(c)
      BY <2>1, <2>4, BuyAgrees
    <2> QED
      BY <1>1, <2>2, <2>3, <2>4 DEF Candle, OnCandle
  <1>2. CASE EndSession
    <2>1. ~ended /\ ended' /\ UNCHANGED day
      BY <1>2 DEF EndSession, sessionVars
    <2>2. CASE pending # None /\ Liquidates
      <3>1. CloseTrade(close, "SESSION_CLOSE") /\ close \in Int
        BY <1>2, <2>1, <2>2 DEF EndSession, IInv, TradeInv
      <3>2. "SESSION_CLOSE" \in Results
        BY DEF Results
      <3> QED
        BY <2>1, <2>2, <3>1, <3>2, ClosingAgrees
    <2>3. CASE ~(pending # None /\ Liquidates)
      <3>1. pending' = None /\ UNCHANGED <<book, risk, equity>>
        BY <1>2, <2>3 DEF EndSession
      <3>2. CASE pending = None
        BY <2>1, <3>1, <3>2, NothingBooked
      <3>3. CASE ~Liquidates
        <4>1. PnlOf(Nat)' = PnlOf(Nat)
          BY <3>1 DEF PnlOf
        <4> QED
          BY <2>1, <3>1, <3>3, <4>1 DEF BooksAgree
      <3> QED
        BY <2>3, <3>2, <3>3
    <2> QED
      BY <2>2, <2>3
  <1>3. CASE UNCHANGED vars
    BY <1>3, NothingBooked DEF vars, sessionVars
  <1> QED
    BY <1>1, <1>2, <1>3, SessionBegins DEF Next

(* The account of a backtest is the same three times over, whatever the    *)
(* prices, the costs and the limits: equity and the losses of the day are  *)
(* the sums of the trades reported, and no trade entered is missing from   *)
(* them (backtest.py:136-152, 154-220, risk.py:45-58).                     *)
THEOREM BooksNeverPart == Spec => []BooksAgree
  <1>1. Init => BooksAgree
    BY StartAgrees
  <1>2. IInv /\ BooksAgree /\ [Next]_vars => BooksAgree'
    BY AccountsStep
  <1> QED
    BY <1>1, <1>2, IInvHolds, PTL DEF Spec
=============================================================================
