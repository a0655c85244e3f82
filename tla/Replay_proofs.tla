--------------------------- MODULE Replay_proofs ---------------------------
(***************************************************************************)
(* What a replay keeps for every list of ticks and of intents, killed and  *)
(* resumed any number of times.                                            *)
(***************************************************************************)
EXTENDS Replay, Induction, FiniteSetTheorems

LineKinds == {"BUY_FILLED", "POSITION_CLOSED", "REJECT"}
Lines == [event : LineKinds, time : Int, intent : Nat, pnl : Int,
          result : {None, "WIN", "LOSS", "SESSION_END"}]
Positions ==
  [intent : Nat, time : Int, entry : Int, stop : Int, target : Int]

Running == pc \in {"tick", "intents", "process"}

(* Where the process is: a tick is at hand beyond "tick", the tick before  *)
(* it is the previous one, and only a flat process looks at intents.       *)
ControlInv ==
  /\ ticks \in Streams /\ intents \in IntentLists
  /\ events \in Seq(Lines) /\ position \in Positions \cup {None}
  /\ pc \in {"intents", "process"} => at <= Len(ticks)
  /\ pc = "intents" => position = None
  /\ Running /\ previous # None => previous = at - 1
  /\ pc = "off" => pending = {} /\ previous = None

(* What was written: every line is of a tick, in the order of the ticks,   *)
(* after the intent it uses, and a fill lies inside its bracket.           *)
LinesInv ==
  /\ \A i \in DOMAIN events :
       /\ events[i].intent \in DOMAIN intents
       /\ events[i].event # "POSITION_CLOSED" =>
            intents[events[i].intent].time < events[i].time
       /\ events[i].event = "BUY_FILLED" =>
            \E j \in DOMAIN ticks :
              /\ ticks[j].time = events[i].time
              /\ intents[events[i].intent].stop < ticks[j].price
              /\ ticks[j].price < intents[events[i].intent].target
  /\ \A i, j \in DOMAIN events : i < j => events[i].time <= events[j].time

(* A line is not later than the tick at hand, nor than the one before it   *)
(* when the tick at hand has not begun.                                    *)
TimeInv ==
  \A i \in DOMAIN events :
    /\ pc \in {"intents", "process"} => events[i].time <= ticks[at].time
    /\ pc = "tick" /\ previous # None => events[i].time <= ticks[previous].time
    /\ pc = "tick" /\ at <= Len(ticks) => events[i].time < ticks[at].time

(* An intent a line has used waits no more.                                *)
UsedInv ==
  Running =>
    \A i \in DOMAIN events : events[i].event # "POSITION_CLOSED" =>
      events[i].intent < next /\ events[i].intent \notin pending

(* The broker's position is the one the ledger reports.                    *)
PositionInv ==
  position = IF pc = "off" THEN None ELSE OpenInLedger

IInv ==
  /\ TypeOK /\ ControlInv /\ LinesInv /\ TimeInv /\ UsedInv /\ PositionInv
  /\ FilledOnce

-----------------------------------------------------------------------------
(* The arguments of a run.                                                 *)

LEMMA ElementsOf ==
  ASSUME NEW T, NEW s \in Seq(T)
  PROVE  Len(s) \in Nat /\ DOMAIN s = 1 .. Len(s) /\ \A i \in DOMAIN s : s[i] \in T
  OBVIOUS

LEMMA TicksType ==
  ASSUME ticks \in Streams
  PROVE  /\ ticks \in Seq([time : Int, price : Int])
         /\ Len(ticks) \in Nat \ {0} /\ DOMAIN ticks = 1 .. Len(ticks)
         /\ \A i \in DOMAIN ticks : ticks[i].time \in Int /\ ticks[i].price \in Int
         /\ \A i, j \in DOMAIN ticks : i < j => ticks[i].time < ticks[j].time
  <1>1. /\ ticks \in Seq([time : Int, price : Int]) /\ Len(ticks) > 0
        /\ \A i, j \in DOMAIN ticks : i < j => ticks[i].time < ticks[j].time
    BY ReplayAssumption
  <1>2. \A i \in DOMAIN ticks : ticks[i] \in [time : Int, price : Int]
    BY <1>1, ElementsOf
  <1>3. \A i \in DOMAIN ticks : ticks[i].time \in Int /\ ticks[i].price \in Int
    BY <1>2
  <1> QED
    BY <1>1, <1>3

LEMMA IntentsType ==
  ASSUME intents \in IntentLists
  PROVE  /\ Len(intents) \in Nat /\ DOMAIN intents = 1 .. Len(intents)
         /\ \A i \in DOMAIN intents :
              /\ intents[i].time \in Int /\ intents[i].stop \in Int
              /\ intents[i].target \in Int
         /\ \A i, j \in DOMAIN intents : i < j => intents[i].time <= intents[j].time
  <1> DEFINE T == [time : Int, expiry : Int, trigger : Int, stop : Int, target : Int]
  <1>1. /\ intents \in Seq(T)
        /\ \A i, j \in DOMAIN intents : i < j => intents[i].time <= intents[j].time
    BY ReplayAssumption
  <1>2. \A i \in DOMAIN intents : intents[i] \in T
    <2> HIDE DEF T
    <2> QED
      BY <1>1, ElementsOf
  <1>3. \A i \in DOMAIN intents : /\ intents[i].time \in Int /\ intents[i].stop \in Int
                                 /\ intents[i].target \in Int
    BY <1>2
  <1> HIDE DEF T
  <1> QED
    BY <1>1, <1>3

LEMMA LinesType ==
  ASSUME events \in Seq(Lines)
  PROVE  /\ Len(events) \in Nat /\ DOMAIN events = 1 .. Len(events)
         /\ \A i \in DOMAIN events :
              /\ events[i].event \in LineKinds /\ events[i].time \in Int
              /\ events[i].intent \in Nat
  <1>1. \A i \in DOMAIN events : events[i] \in Lines
    OBVIOUS
  <1>2. \A i \in DOMAIN events : /\ events[i].event \in LineKinds /\ events[i].time \in Int
                                /\ events[i].intent \in Nat
    BY <1>1 DEF Lines
  <1> QED
    BY <1>2

LEMMA MinIsLeast ==
  ASSUME NEW S \in SUBSET Nat, S # {}
  PROVE  Min(S) \in S /\ \A y \in S : Min(S) <= y
  <1>1. \E x \in S : \A y \in S : x <= y
    BY LeastNatural
  <1> QED
    BY <1>1 DEF Min

LEMMA FirstLaterType ==
  ASSUME NEW s, Len(s) \in Nat, NEW from \in 1 .. Len(s) + 1, NEW time
  PROVE  /\ FirstLater(s, from, time) \in from .. Len(s) + 1
         /\ FirstLater(s, from, time) <= Len(s) =>
              s[FirstLater(s, from, time)].time > time
  <1> DEFINE S == {i \in from .. Len(s) : s[i].time > time} \cup {Len(s) + 1}
  <1>1. S \in SUBSET Nat /\ S # {}
    OBVIOUS
  <1>2. Min(S) \in S
    <2> HIDE DEF S
    <2> QED
      BY <1>1, MinIsLeast
  <1>3. FirstLater(s, from, time) \in S
    BY <1>2 DEF FirstLater
  <1> QED
    BY <1>3

-----------------------------------------------------------------------------
(* The open fill of a ledger, and what one more line does to it.           *)

PositionOf(e) ==
  [intent |-> e.intent, time |-> e.time,
   entry |-> ticks[CHOOSE j \in DOMAIN ticks : ticks[j].time = e.time].price,
   stop |-> intents[e.intent].stop, target |-> intents[e.intent].target]

LEMMA OneOpenFill ==
  ASSUME NEW n \in Nat, NEW i \in OpenFills(n), NEW j \in OpenFills(n)
  PROVE  i = j
  BY DEF OpenFills

LEMMA LedgerPosition ==
  /\ OpenFills(Len(events)) = {} => OpenInLedger = None
  /\ \A i \in OpenFills(Len(events)) :
       events \in Seq(Lines) => OpenInLedger = PositionOf(events[i])
  <1>1. ASSUME NEW i \in OpenFills(Len(events)), events \in Seq(Lines)
        PROVE  OpenInLedger = PositionOf(events[i])
    <2>1. (CHOOSE j \in OpenFills(Len(events)) : TRUE) = i
      <3>1. Len(events) \in Nat
        BY <1>1
      <3>2. (CHOOSE j \in OpenFills(Len(events)) : TRUE) \in OpenFills(Len(events))
        OBVIOUS
      <3> QED
        BY <3>1, <3>2, OneOpenFill
    <2> QED
      BY <2>1 DEF OpenInLedger, PositionOf
  <1> QED
    BY <1>1 DEF OpenInLedger

(* The only tick of its time.                                              *)
LEMMA TickOfTime ==
  ASSUME ticks \in Streams, NEW t \in DOMAIN ticks
  PROVE  (CHOOSE j \in DOMAIN ticks : ticks[j].time = ticks[t].time) = t
  <1>1. \A j \in DOMAIN ticks : ticks[j].time = ticks[t].time => j = t
    <2> TAKE j \in DOMAIN ticks
    <2>1. /\ ticks[j].time \in Int /\ ticks[t].time \in Int /\ j \in Int /\ t \in Int
          /\ j < t => ticks[j].time < ticks[t].time
          /\ t < j => ticks[t].time < ticks[j].time
      BY TicksType
    <2> QED
      BY <2>1
  <1> QED
    BY <1>1

(* An open fill lies inside its bracket.                                   *)
LEMMA OpenFillType ==
  ASSUME ControlInv, LinesInv, NEW i \in DOMAIN events,
         events[i].event = "BUY_FILLED"
  PROVE  /\ PositionOf(events[i]) \in Positions
         /\ PositionOf(events[i]).stop < PositionOf(events[i]).entry
         /\ PositionOf(events[i]).entry < PositionOf(events[i]).target
         /\ PositionOf(events[i]) # None
  <1>n. PICK e \in Lines : e = events[i]
    BY DEF ControlInv
  <1>1. PICK t \in DOMAIN ticks :
          /\ ticks[t].time = e.time
          /\ intents[e.intent].stop < ticks[t].price
          /\ ticks[t].price < intents[e.intent].target
    BY <1>n DEF LinesInv
  <1>2. (CHOOSE j \in DOMAIN ticks : ticks[j].time = e.time) = t
    BY <1>1, TickOfTime DEF ControlInv
  <1>3. PositionOf(e) =
          [intent |-> e.intent, time |-> e.time, entry |-> ticks[t].price,
           stop |-> intents[e.intent].stop, target |-> intents[e.intent].target]
    BY <1>2 DEF PositionOf
  <1>4. /\ e.intent \in Nat /\ e.time \in Int /\ ticks[t].price \in Int
        /\ intents[e.intent].stop \in Int /\ intents[e.intent].target \in Int
    <2>1. e.intent \in DOMAIN intents
      BY <1>n DEF LinesInv
    <2> QED
      BY <2>1, TicksType, IntentsType DEF ControlInv, Lines
  <1>5. PositionOf(e) \in Positions
    BY <1>3, <1>4 DEF Positions
  <1>6. PositionOf(e) # None
    BY <1>5, ReplayAssumption DEF Positions
  <1> QED
    BY <1>n, <1>1, <1>3, <1>5, <1>6

(* A line appended: the earlier open fills stand, and after it there is    *)
(* one or none.                                                            *)
LEMMA LineAppended ==
  ASSUME events \in Seq(Lines), NEW e \in Lines, events' = Append(events, e),
         NEW k \in Nat, k = Len(events)
  PROVE  /\ events' \in Seq(Lines) /\ Len(events') = k + 1 /\ events'[k + 1] = e
         /\ DOMAIN events' = 1 .. k + 1 /\ DOMAIN events = 1 .. k
         /\ \A i \in 1 .. k : events'[i] = events[i]
         /\ \A n \in 0 .. k : OpenFills(n)' = OpenFills(n)
         /\ OpenFills(k + 1)' = IF e.event = "BUY_FILLED" THEN {k + 1}
                               ELSE IF e.event = "REJECT" THEN OpenFills(k) ELSE {}
  <1>1. /\ events' \in Seq(Lines) /\ Len(events') = k + 1 /\ events'[k + 1] = e
        /\ DOMAIN events' = 1 .. k + 1 /\ DOMAIN events = 1 .. k
        /\ \A i \in 1 .. k : events'[i] = events[i]
    OBVIOUS
  <1>2. ASSUME NEW n \in 0 .. k PROVE OpenFills(n)' = OpenFills(n)
    <2>1. \A i \in 1 .. n : events'[i] = events[i] /\ \A j \in i + 1 .. n : events'[j] = events[j]
      BY <1>1
    <2> QED
      BY <2>1 DEF OpenFills
  <1>3. OpenFills(k + 1)' = IF e.event = "BUY_FILLED" THEN {k + 1}
                               ELSE IF e.event = "REJECT" THEN OpenFills(k) ELSE {}
    <2>1. \A i \in 1 .. k : /\ i \in 1 .. k + 1 /\ k + 1 \in i + 1 .. k + 1
                            /\ \A j \in i + 1 .. k + 1 : j = k + 1 \/ j \in i + 1 .. k
                            /\ \A j \in i + 1 .. k : j \in i + 1 .. k + 1 /\ j \in 1 .. k
      OBVIOUS
    <2>2. /\ k + 1 \in 1 .. k + 1 /\ (k + 1) + 1 .. k + 1 = {}
          /\ \A i \in 1 .. k + 1 : i = k + 1 \/ i \in 1 .. k
      OBVIOUS
    <2>3. CASE e.event = "BUY_FILLED"
      BY <1>1, <2>1, <2>2, <2>3 DEF OpenFills
    <2>4. CASE e.event = "REJECT"
      BY <1>1, <2>1, <2>2, <2>4 DEF OpenFills
    <2>5. CASE e.event \notin {"BUY_FILLED", "REJECT"}
      BY <1>1, <2>1, <2>2, <2>5 DEF OpenFills
    <2> QED
      BY <2>3, <2>4, <2>5
  <1> QED
    BY <1>1, <1>2, <1>3

(* One line written: the history stays one of fills and closes that        *)
(* alternate, and the ledger reports the position the line leaves.         *)
LEMMA WriteKeeps ==
  ASSUME IInv, UNCHANGED inputs, NEW e \in Lines, events' = Append(events, e),
         e.intent \in DOMAIN intents,
         \A i \in DOMAIN events : events[i].time <= e.time,
         e.event # "POSITION_CLOSED" =>
           /\ intents[e.intent].time < e.time
           /\ \A i \in DOMAIN events : events[i].event # "POSITION_CLOSED" =>
                events[i].intent # e.intent,
         e.event = "BUY_FILLED" =>
           /\ OpenFills(Len(events)) = {}
           /\ \E t \in DOMAIN ticks :
                /\ ticks[t].time = e.time
                /\ intents[e.intent].stop < ticks[t].price
                /\ ticks[t].price < intents[e.intent].target,
         e.event = "POSITION_CLOSED" =>
           \E j \in OpenFills(Len(events)) : events[j].intent = e.intent
  PROVE  /\ events' \in Seq(Lines) /\ LinesInv' /\ FilledOnce'
         /\ e.event = "BUY_FILLED" => OpenInLedger' = PositionOf(e)
         /\ e.event = "POSITION_CLOSED" => OpenInLedger' = None
         /\ e.event = "REJECT" => OpenInLedger' = OpenInLedger
  <1>k. PICK k \in Nat : k = Len(events)
    BY DEF IInv, ControlInv
  <1>1. /\ events' \in Seq(Lines) /\ Len(events') = k + 1 /\ events'[k + 1] = e
        /\ DOMAIN events' = 1 .. k + 1 /\ DOMAIN events = 1 .. k
        /\ \A i \in 1 .. k : events'[i] = events[i]
        /\ \A n \in 0 .. k : OpenFills(n)' = OpenFills(n)
        /\ OpenFills(k + 1)' = IF e.event = "BUY_FILLED" THEN {k + 1}
                               ELSE IF e.event = "REJECT" THEN OpenFills(k) ELSE {}
    BY <1>k, LineAppended DEF IInv, ControlInv
  <1>2. \A i \in 1 .. k + 1 : i = k + 1 \/ i \in 1 .. k
    OBVIOUS
  <1>3. ticks' = ticks /\ intents' = intents
    BY DEF inputs
  <1>4. LinesInv'
    <2>1. \A i \in DOMAIN events' :
            /\ events'[i].intent \in DOMAIN intents
            /\ events'[i].event # "POSITION_CLOSED" =>
                 intents[events'[i].intent].time < events'[i].time
            /\ events'[i].event = "BUY_FILLED" =>
                 \E j \in DOMAIN ticks :
                   /\ ticks[j].time = events'[i].time
                   /\ intents[events'[i].intent].stop < ticks[j].price
                   /\ ticks[j].price < intents[events'[i].intent].target
      BY <1>1, <1>2 DEF IInv, LinesInv
    <2>2. \A i, j \in DOMAIN events' : i < j => events'[i].time <= events'[j].time
      <3> TAKE i, j \in DOMAIN events'
      <3> HAVE i < j
      <3>1. i \in 1 .. k
        BY <1>1
      <3> QED
        BY <1>1, <1>2, <3>1 DEF IInv, LinesInv
    <2> QED
      BY <1>3, <2>1, <2>2 DEF LinesInv
  <1>5. FilledOnce'
    <2>1. ASSUME NEW i \in DOMAIN events'
          PROVE  /\ events'[i].event = "BUY_FILLED" => OpenFills(i - 1)' = {}
                 /\ events'[i].event = "POSITION_CLOSED" =>
                      \E j \in OpenFills(i - 1)' : events'[j].intent = events'[i].intent
      <3>1. CASE i \in 1 .. k
        <4>1. /\ i - 1 \in 0 .. k /\ OpenFills(i - 1)' = OpenFills(i - 1)
              /\ events'[i] = events[i] /\ i \in DOMAIN events
          BY <1>1, <3>1
        <4>2. \A j \in OpenFills(i - 1) : events'[j] = events[j]
          BY <1>1, <3>1 DEF OpenFills
        <4>3. /\ events[i].event = "BUY_FILLED" => OpenFills(i - 1) = {}
              /\ events[i].event = "POSITION_CLOSED" =>
                   \E j \in OpenFills(i - 1) : events[j].intent = events[i].intent
          BY <4>1 DEF IInv, FilledOnce
        <4>4. ASSUME events[i].event = "POSITION_CLOSED"
              PROVE  \E j \in OpenFills(i - 1)' : events'[j].intent = events'[i].intent
          <5>1. PICK j \in OpenFills(i - 1) : events[j].intent = events[i].intent
            BY <4>3, <4>4
          <5> QED
            BY <4>1, <4>2, <5>1
        <4> QED
          BY <4>1, <4>3, <4>4
      <3>2. CASE i = k + 1
        <4>1. OpenFills(i - 1)' = OpenFills(Len(events)) /\ events'[i] = e
          BY <1>1, <1>k, <3>2
        <4>2. \A j \in OpenFills(Len(events)) : events'[j] = events[j]
          BY <1>1, <1>k DEF OpenFills
        <4>3. ASSUME e.event = "BUY_FILLED" PROVE OpenFills(i - 1)' = {}
          BY <4>1, <4>3
        <4>4. ASSUME e.event = "POSITION_CLOSED"
              PROVE  \E j \in OpenFills(i - 1)' : events'[j].intent = events'[i].intent
          <5>1. PICK j \in OpenFills(Len(events)) : events[j].intent = e.intent
            BY <4>4
          <5>2. j \in OpenFills(i - 1)' /\ events'[j].intent = events'[i].intent
            BY <4>1, <4>2, <5>1
          <5> QED
            BY <5>2
        <4> QED
          BY <4>1, <4>3, <4>4
      <3> QED
        BY <1>1, <1>2, <3>1, <3>2
    <2>2. \A i, j \in DOMAIN events' :
            /\ events'[i].event # "POSITION_CLOSED"
            /\ events'[j].event # "POSITION_CLOSED"
            /\ events'[i].intent = events'[j].intent
            => i = j
      BY <1>1, <1>2 DEF IInv, FilledOnce
    <2> QED
      BY <2>1, <2>2 DEF FilledOnce
  <1>6. OpenFills(Len(events))' = OpenFills(k + 1)'
    BY <1>1 DEF OpenFills
  <1>7. CASE e.event = "BUY_FILLED"
    <2>1. (CHOOSE i \in OpenFills(Len(events))' : TRUE) = k + 1
      BY <1>1, <1>6, <1>7
    <2>2. OpenInLedger' = PositionOf(e)
      BY <1>1, <1>3, <1>6, <1>7, <2>1 DEF OpenInLedger, PositionOf
    <2> QED
      BY <1>1, <1>4, <1>5, <1>7, <2>2
  <1>8. CASE e.event = "POSITION_CLOSED"
    <2>1. OpenInLedger' = None
      BY <1>1, <1>6, <1>8 DEF OpenInLedger
    <2> QED
      BY <1>1, <1>4, <1>5, <1>8, <2>1
  <1>9. CASE e.event = "REJECT"
    <2>1. OpenFills(Len(events))' = OpenFills(Len(events))
      BY <1>1, <1>k, <1>6, <1>9
    <2>2. \A i \in OpenFills(Len(events)) : events'[i] = events[i]
      BY <1>1, <1>k DEF OpenFills
    <2>3. OpenInLedger' = OpenInLedger
      <3>1. CASE OpenFills(Len(events)) = {}
        BY <2>1, <3>1 DEF OpenInLedger
      <3>2. CASE OpenFills(Len(events)) # {}
        <4>1. PICK i : i = CHOOSE j \in OpenFills(Len(events)) : TRUE
          OBVIOUS
        <4>2. i \in OpenFills(Len(events)) /\ events'[i] = events[i]
          BY <2>2, <3>2, <4>1
        <4> QED
          BY <1>3, <2>1, <3>2, <4>1, <4>2 DEF OpenInLedger
      <3> QED
        BY <3>1, <3>2
    <2> QED
      BY <1>1, <1>4, <1>5, <1>9, <2>3
  <1> QED
    BY <1>1, <1>4, <1>5, <1>7, <1>8, <1>9 DEF Lines, LineKinds

-----------------------------------------------------------------------------
(* risk.py and the fold of recover_risk_state keep their types.            *)
FoldStates ==
  [equity : Int, trades : Nat, daily : Int, streak : Nat, dayStart : Int,
   begun : BOOLEAN]

LEMMA StreakType ==
  ASSUME NEW n \in Nat, NEW pnl \in Int
  PROVE  Streak(n, pnl) \in Nat
  BY DEF Streak

LEMMA RecordCloseType ==
  ASSUME NEW r \in RiskStates, NEW pnl \in Int
  PROVE  /\ RecordClose(r, pnl) \in RiskStates
         /\ RecordClose(r, pnl).equity = r.equity + pnl
         /\ RecordClose(r, pnl).streak = Streak(r.streak, pnl)
         /\ RecordClose(r, pnl).daily = r.daily + pnl
         /\ RecordClose(r, pnl).trades = r.trades
         /\ RecordClose(r, pnl).dayStart = r.dayStart
  <1>1. /\ r.equity + pnl \in Int /\ r.daily + pnl \in Int
        /\ r.trades \in Nat /\ r.dayStart \in Int
    BY DEF RiskStates
  <1>2. Streak(r.streak, pnl) \in Nat
    BY StreakType DEF RiskStates
  <1>3. RecordClose(r, pnl) = [r EXCEPT !.equity = r.equity + pnl,
               !.daily = r.daily + pnl, !.streak = Streak(r.streak, pnl)]
    BY DEF RecordClose
  <1> QED
    BY <1>1, <1>2, <1>3 DEF RiskStates

LEMMA ResetDayType ==
  ASSUME NEW r \in RiskStates
  PROVE  /\ ResetDay(r) \in RiskStates
         /\ ResetDay(r).equity = r.equity /\ ResetDay(r).streak = r.streak
         /\ ResetDay(r).daily = 0 /\ ResetDay(r).trades = 0
         /\ ResetDay(r).dayStart = r.equity
  <1>1. ResetDay(r) = [r EXCEPT !.trades = 0, !.daily = 0, !.dayStart = r.equity]
    BY DEF ResetDay
  <1>2. ResetDay(r) = [equity |-> r.equity, trades |-> 0, daily |-> 0,
                       streak |-> r.streak, dayStart |-> r.equity]
    BY <1>1 DEF RiskStates
  <1> QED
    BY <1>2 DEF RiskStates

LEMMA CountTradeType ==
  ASSUME NEW r \in RiskStates
  PROVE  /\ CountTrade(r) \in RiskStates /\ CountTrade(r).trades = r.trades + 1
         /\ CountTrade(r).equity = r.equity /\ CountTrade(r).streak = r.streak
         /\ CountTrade(r).daily = r.daily /\ CountTrade(r).dayStart = r.dayStart
  BY DEF CountTrade, RiskStates

LEMMA BegunType ==
  ASSUME NEW f \in FoldStates
  PROVE  /\ Begun(f) \in FoldStates /\ Begun(f).begun
         /\ Begun(f).equity = f.equity /\ Begun(f).trades = f.trades
         /\ Begun(f).daily = f.daily /\ Begun(f).streak = f.streak
         /\ Begun(f).dayStart = IF f.begun THEN f.dayStart ELSE f.equity
  <1>1. CASE f.begun
    BY <1>1 DEF Begun, FoldStates
  <1>2. CASE ~f.begun
    <2>1. Begun(f) = [f EXCEPT !.begun = TRUE, !.dayStart = f.equity]
      BY <1>2 DEF Begun
    <2> QED
      BY <1>2, <2>1 DEF FoldStates
  <1> QED
    BY <1>1, <1>2

LEMMA RecoverBuyType ==
  ASSUME NEW f \in FoldStates, NEW e, NEW asOf
  PROVE  /\ RecoverBuy(f, e, asOf) \in FoldStates
         /\ DateOf(e.time) # DateOf(asOf) => RecoverBuy(f, e, asOf) = f
         /\ DateOf(e.time) = DateOf(asOf) =>
              /\ RecoverBuy(f, e, asOf).begun
              /\ RecoverBuy(f, e, asOf).trades = f.trades + 1
              /\ RecoverBuy(f, e, asOf).equity = f.equity
              /\ RecoverBuy(f, e, asOf).daily = f.daily
              /\ RecoverBuy(f, e, asOf).streak = f.streak
              /\ RecoverBuy(f, e, asOf).dayStart = Begun(f).dayStart
  <1>1. CASE DateOf(e.time) # DateOf(asOf)
    BY <1>1 DEF RecoverBuy
  <1>2. CASE DateOf(e.time) = DateOf(asOf)
    <2>1. PICK g \in FoldStates : g = Begun(f)
      BY BegunType
    <2>2. RecoverBuy(f, e, asOf) = [g EXCEPT !.trades = g.trades + 1]
      BY <1>2, <2>1 DEF RecoverBuy
    <2>3. /\ g.begun /\ g.equity = f.equity /\ g.trades = f.trades
          /\ g.daily = f.daily /\ g.streak = f.streak
      BY <2>1, BegunType
    <2> QED
      BY <1>2, <2>1, <2>2, <2>3 DEF FoldStates
  <1> QED
    BY <1>1, <1>2

(* A close of the day it is asked about, by both its dates, counts for the *)
(* day; one of another day, by both, moves the start of the day.           *)
LEMMA RecoverCloseType ==
  ASSUME NEW f \in FoldStates, NEW e, NEW asOf, e.pnl \in Int
  PROVE  /\ RecoverClose(f, e, asOf) \in FoldStates
         /\ RecoverClose(f, e, asOf).equity = f.equity + e.pnl
         /\ RecoverClose(f, e, asOf).streak = Streak(f.streak, e.pnl)
         /\ RecoverClose(f, e, asOf).trades = f.trades
         /\ DateOf(e.time) = DateOf(asOf) /\ StampDate(e.time) = StampDate(asOf) =>
              /\ RecoverClose(f, e, asOf).begun
              /\ RecoverClose(f, e, asOf).daily = f.daily + e.pnl
              /\ RecoverClose(f, e, asOf).dayStart = Begun(f).dayStart
         /\ DateOf(e.time) # DateOf(asOf) /\ StampDate(e.time) # StampDate(asOf) =>
              /\ RecoverClose(f, e, asOf).begun = f.begun
              /\ RecoverClose(f, e, asOf).daily = f.daily
  <1> DEFINE today == StampDate(e.time) = StampDate(asOf)
  <1>1. PICK g \in FoldStates :
          /\ g = IF today THEN [Begun(f) EXCEPT !.daily = @ + e.pnl] ELSE f
          /\ g.equity = f.equity /\ g.streak = f.streak /\ g.trades = f.trades
          /\ today => g.begun /\ g.daily = f.daily + e.pnl
                        /\ g.dayStart = Begun(f).dayStart
          /\ ~today => g = f
    <2>1. CASE today
      <3>1. PICK b \in FoldStates : b = Begun(f)
        BY BegunType
      <3>2. PICK g : g = [b EXCEPT !.daily = b.daily + e.pnl]
        OBVIOUS
      <3>3. g \in FoldStates /\ g.daily = b.daily + e.pnl /\ g.begun = b.begun
            /\ g.equity = b.equity /\ g.streak = b.streak /\ g.trades = b.trades
            /\ g.dayStart = b.dayStart
        BY <3>2 DEF FoldStates
      <3>4. /\ b.begun /\ b.equity = f.equity /\ b.trades = f.trades
            /\ b.daily = f.daily /\ b.streak = f.streak
        BY <3>1, BegunType
      <3>5. g = IF today THEN [Begun(f) EXCEPT !.daily = @ + e.pnl] ELSE f
        BY <2>1, <3>1, <3>2
      <3> QED
        BY <2>1, <3>1, <3>3, <3>4, <3>5
    <2>2. CASE ~today
      BY <2>2
    <2> QED
      BY <2>1, <2>2
  <1>2. PICK h \in FoldStates :
          /\ h = [g EXCEPT !.equity = g.equity + e.pnl, !.streak = Streak(g.streak, e.pnl)]
          /\ h.equity = f.equity + e.pnl /\ h.streak = Streak(f.streak, e.pnl)
          /\ h.trades = f.trades /\ h.begun = g.begun /\ h.daily = g.daily
          /\ h.dayStart = g.dayStart
    <2>1. /\ Streak(g.streak, e.pnl) \in Nat /\ g.equity + e.pnl \in Int
      <3>1. g.streak \in Nat /\ g.equity \in Int
        BY DEF FoldStates
      <3>2. PICK p \in Int : p = e.pnl
        OBVIOUS
      <3> HIDE DEF today
      <3>3. Streak(g.streak, p) \in Nat
        BY <3>1, StreakType
      <3>4. g.equity + p \in Int
        BY <3>1
      <3> QED
        BY <3>2, <3>3, <3>4
    <2>2. PICK h : h = [g EXCEPT !.equity = g.equity + e.pnl,
                                 !.streak = Streak(g.streak, e.pnl)]
      OBVIOUS
    <2> HIDE DEF today
    <2>3. h \in FoldStates /\ h.equity = g.equity + e.pnl
          /\ h.streak = Streak(g.streak, e.pnl) /\ h.trades = g.trades
          /\ h.begun = g.begun /\ h.daily = g.daily /\ h.dayStart = g.dayStart
      BY <2>1, <2>2 DEF FoldStates
    <2>4. g.equity = f.equity /\ g.streak = f.streak /\ g.trades = f.trades
      BY <1>1
    <2>5. /\ h.equity = f.equity + e.pnl /\ h.streak = Streak(f.streak, e.pnl)
          /\ h.trades = f.trades
      BY <2>3, <2>4
    <2>6. h = [g EXCEPT !.equity = g.equity + e.pnl,
                       !.streak = Streak(g.streak, e.pnl)]
      BY <2>2
    <2>7. /\ h.begun = g.begun /\ h.daily = g.daily
          /\ h.dayStart = g.dayStart /\ h \in FoldStates
      BY <2>3
    <2> QED
      BY <2>5, <2>6, <2>7
  <1>3. RecoverClose(f, e, asOf) =
          IF DateOf(e.time) # DateOf(asOf) THEN [h EXCEPT !.dayStart = h.equity] ELSE h
    <2>1. g = IF StampDate(e.time) = StampDate(asOf)
                THEN [Begun(f) EXCEPT !.daily = @ + e.pnl] ELSE f
      BY <1>1
    <2>2. h = [g EXCEPT !.equity = @ + e.pnl, !.streak = Streak(@, e.pnl)]
      BY <1>2
    <2> QED
      BY <2>1, <2>2 DEF RecoverClose
  <1>4. CASE DateOf(e.time) = DateOf(asOf)
    BY <1>1, <1>2, <1>3, <1>4
  <1>5. CASE DateOf(e.time) # DateOf(asOf)
    <2>1. PICK m : m = [h EXCEPT !.dayStart = h.equity]
      OBVIOUS
    <2>2. m \in FoldStates /\ m.equity = h.equity /\ m.streak = h.streak
          /\ m.trades = h.trades /\ m.begun = h.begun /\ m.daily = h.daily
      BY <2>1 DEF FoldStates
    <2> QED
      BY <1>1, <1>2, <1>3, <1>5, <2>1, <2>2
  <1> QED
    BY <1>4, <1>5

LEMMA RecoverLineType ==
  ASSUME NEW f \in FoldStates, NEW e \in Lines, NEW asOf
  PROVE  RecoverLine(f, e, asOf) \in FoldStates
  <1>1. e.pnl \in Int
    BY DEF Lines
  <1>2. CASE e.event = "BUY_FILLED"
    BY <1>2, RecoverBuyType DEF RecoverLine
  <1>3. CASE e.event = "POSITION_CLOSED"
    BY <1>1, <1>3, RecoverCloseType DEF RecoverLine
  <1>4. CASE e.event = "REJECT"
    BY <1>4 DEF RecoverLine
  <1> QED
    BY <1>2, <1>3, <1>4 DEF Lines, LineKinds

LEMMA RecoverStartType == RecoverStart \in FoldStates
  BY RiskAssumption DEF RecoverStart, FoldStates

IsRecoverFold(f, s, asOf) ==
  /\ f \in [0 .. Len(s) -> FoldStates] /\ f[0] = RecoverStart
  /\ \A i \in 1 .. Len(s) : f[i] = RecoverLine(f[i - 1], s[i], asOf)

(* The fold of recovery has a result, whatever the lines.                  *)
LEMMA RecoverIsFold ==
  ASSUME NEW s \in Seq(Lines), NEW asOf
  PROVE  \E f : IsRecoverFold(f, s, asOf) /\ RecoverLines(s, asOf) = f[Len(s)]
  <1> DEFINE n == Len(s)
             step == [i \in 1 .. n |-> [l \in FoldStates |-> RecoverLine(l, s[i], asOf)]]
             Folds(f) == f = [i \in 0 .. n |->
                    IF i = 0 THEN RecoverStart ELSE RecoverLine(f[i - 1], s[i], asOf)]
  <1>0. n \in Nat /\ \A i \in 1 .. n : s[i] \in Lines
    OBVIOUS
  <1>1. PICK f : IsRecursion(f, n, FoldStates, RecoverStart, step)
    <2>1. step \in Steps(n, FoldStates)
      BY <1>0, RecoverLineType DEF Steps
    <2> HIDE DEF step, n
    <2> QED
      BY <1>0, <2>1, RecoverStartType, RecursionHasSolution
  <1>2. \A i \in 1 .. n : i - 1 \in 0 .. n /\ f[i] = RecoverLine(f[i - 1], s[i], asOf)
    <2> TAKE i \in 1 .. n
    <2>1. i - 1 \in 0 .. n
      BY <1>0
    <2> QED
      BY <1>1, <2>1 DEF IsRecursion
  <1>3. Folds(f)
    BY <1>1, <1>2 DEF IsRecursion
  <1>4. Folds(CHOOSE g : Folds(g))
    BY <1>3
  <1>5. PICK fold : Folds(fold) /\ RecoverLines(s, asOf) = fold[n]
    BY <1>4 DEF RecoverLines
  <1>6. fold[0] = RecoverStart
        /\ \A i \in 1 .. n : fold[i] = RecoverLine(fold[i - 1], s[i], asOf)
    <2>1. 0 \in 0 .. n /\ 1 .. n \subseteq 0 .. n /\ \A i \in 1 .. n : i # 0
      BY <1>0
    <2> HIDE DEF n
    <2> QED
      BY <1>5, <2>1
  <1>7. AgreeUpTo(n, fold, f)
    <2>1. f[0] = fold[0]
      BY <1>1, <1>6 DEF IsRecursion
    <2>2. \A i \in 1 .. n : fold[i - 1] = f[i - 1] => fold[i] = f[i]
      BY <1>2, <1>6
    <2> HIDE DEF n
    <2> QED
      BY <1>0, <2>1, <2>2, RecursionIsUnique
  <1>8. RecoverLines(s, asOf) = f[n]
    BY <1>0, <1>5, <1>7 DEF AgreeUpTo
  <1>9. IsRecoverFold(f, s, asOf)
    BY <1>1, <1>2 DEF IsRecoverFold, IsRecursion
  <1> QED
    BY <1>8, <1>9

LEMMA RecoverLinesType ==
  ASSUME NEW s \in Seq(Lines), NEW asOf
  PROVE  /\ RecoverLines(s, asOf) \in FoldStates
         /\ s = <<>> => RecoverLines(s, asOf) = RecoverStart
  <1>1. PICK f : IsRecoverFold(f, s, asOf) /\ RecoverLines(s, asOf) = f[Len(s)]
    BY RecoverIsFold
  <1>2. Len(s) \in Nat /\ Len(s) \in 0 .. Len(s)
    OBVIOUS
  <1> QED
    BY <1>1, <1>2 DEF IsRecoverFold

(* One more line is one more step of the fold.                             *)
LEMMA RecoverOneMore ==
  ASSUME NEW s \in Seq(Lines), NEW e \in Lines, NEW asOf
  PROVE  RecoverLines(Append(s, e), asOf) = RecoverLine(RecoverLines(s, asOf), e, asOf)
  <1> DEFINE t == Append(s, e)
             n == Len(s)
  <1>1. t \in Seq(Lines) /\ Len(t) = n + 1 /\ n \in Nat /\ t[n + 1] = e
        /\ \A i \in 1 .. n : t[i] = s[i]
    OBVIOUS
  <1>2. PICK f : IsRecoverFold(f, s, asOf) /\ RecoverLines(s, asOf) = f[Len(s)]
    BY RecoverIsFold
  <1>3. PICK g : IsRecoverFold(g, t, asOf) /\ RecoverLines(t, asOf) = g[Len(t)]
    <2> HIDE DEF t
    <2> QED
      BY <1>1, RecoverIsFold
  <1> HIDE DEF t
  <1>4. /\ \A i \in 1 .. n : f[i] = RecoverLine(f[i - 1], s[i], asOf)
        /\ \A i \in 1 .. n + 1 : g[i] = RecoverLine(g[i - 1], t[i], asOf)
        /\ f[0] = g[0]
    BY <1>1, <1>2, <1>3 DEF IsRecoverFold
  <1>5. AgreeUpTo(n, g, f)
    <2>1. \A i \in 1 .. n : i \in 1 .. n + 1
      BY <1>1
    <2>2. \A i \in 1 .. n : g[i - 1] = f[i - 1] => g[i] = f[i]
      BY <1>1, <1>4, <2>1
    <2> HIDE DEF n
    <2> QED
      BY <1>1, <1>4, <2>2, RecursionIsUnique
  <1>6. n + 1 \in 1 .. n + 1 /\ (n + 1) - 1 = n
    BY <1>1
  <1>7. g[n + 1] = RecoverLine(g[n], e, asOf)
    BY <1>1, <1>4, <1>6
  <1>8. g[n] = f[n]
    BY <1>1, <1>5 DEF AgreeUpTo
  <1> QED
    BY <1>1, <1>2, <1>3, <1>7, <1>8 DEF t

LEMMA RecoverRiskType ==
  ASSUME NEW s \in Seq(Lines), NEW asOf
  PROVE  RecoverRisk(s, asOf) \in RiskStates
  <1>1. PICK f \in FoldStates : f = RecoverLines(s, asOf)
    BY RecoverLinesType
  <1>2. RecoverRisk(s, asOf) =
          [equity |-> f.equity, trades |-> f.trades, daily |-> f.daily,
           streak |-> f.streak, dayStart |-> Begun(f).dayStart]
    BY <1>1 DEF RecoverRisk
  <1>3. Begun(f).dayStart \in Int
    BY BegunType DEF FoldStates
  <1> QED
    BY <1>2, <1>3 DEF FoldStates, RiskStates

(* What the broker holds is the fill that is open in the ledger.           *)
LEMMA OpenPosition ==
  ASSUME IInv, pc # "off", position # None
  PROVE  /\ position \in Positions /\ position.intent \in DOMAIN intents
         /\ \E j \in OpenFills(Len(events)) : events[j].intent = position.intent
  <1>1. position = OpenInLedger /\ position \in Positions /\ events \in Seq(Lines)
    BY DEF IInv, PositionInv, ControlInv
  <1>2. PICK j : j \in OpenFills(Len(events))
    BY <1>1, LedgerPosition
  <1>3. position = PositionOf(events[j])
    BY <1>1, <1>2, LedgerPosition
  <1>4. position.intent = events[j].intent
    BY <1>3 DEF PositionOf
  <1>5. j \in DOMAIN events
    BY <1>1, <1>2 DEF OpenFills
  <1> QED
    BY <1>1, <1>2, <1>4, <1>5 DEF IInv, LinesInv

LEMMA FlatLedger ==
  ASSUME IInv, pc # "off", position = None
  PROVE  OpenFills(Len(events)) = {}
  <1> SUFFICES ASSUME NEW j \in OpenFills(Len(events)) PROVE FALSE
    OBVIOUS
  <1>1. events \in Seq(Lines) /\ OpenInLedger = None
    BY DEF IInv, ControlInv, PositionInv
  <1>2. j \in DOMAIN events /\ events[j].event = "BUY_FILLED"
    BY <1>1 DEF OpenFills
  <1>3. PositionOf(events[j]) # None
    BY <1>2, OpenFillType DEF IInv
  <1>4. OpenInLedger = PositionOf(events[j])
    BY <1>1, LedgerPosition
  <1> QED
    BY <1>1, <1>3, <1>4

(* PaperBroker._close at a tick that is not earlier than any line.         *)
LEMMA CloseKeeps ==
  ASSUME IInv, pc # "off", position # None, UNCHANGED inputs,
         NEW time \in Int, NEW price \in Int,
         NEW result \in {"WIN", "LOSS", "SESSION_END"},
         events' = Append(events, Line("POSITION_CLOSED", time, position.intent,
                                       price - position.entry, result)),
         \A i \in DOMAIN events : events[i].time <= time
  PROVE  /\ events' \in Seq(Lines) /\ LinesInv' /\ FilledOnce' /\ OpenInLedger' = None
         /\ price - position.entry \in Int
         /\ Line("POSITION_CLOSED", time, position.intent,
                 price - position.entry, result) \in Lines
  <1>1. /\ position \in Positions /\ position.intent \in DOMAIN intents
        /\ \E j \in OpenFills(Len(events)) : events[j].intent = position.intent
    BY OpenPosition
  <1>2. position.entry \in Int /\ position.intent \in Nat
    BY <1>1 DEF Positions
  <1>3. PICK e : e = Line("POSITION_CLOSED", time, position.intent,
                          price - position.entry, result)
    OBVIOUS
  <1>4. /\ e \in Lines /\ e.event = "POSITION_CLOSED" /\ e.time = time
        /\ e.intent = position.intent
    BY <1>2, <1>3 DEF Line, Lines, LineKinds
  <1>5. events' \in Seq(Lines) /\ LinesInv' /\ FilledOnce' /\ OpenInLedger' = None
    BY <1>1, <1>3, <1>4, WriteKeeps
  <1> QED
    BY <1>2, <1>3, <1>4, <1>5

(* Nothing written: the ledger says what it said.                          *)
LEMMA SameLedger ==
  ASSUME UNCHANGED <<inputs, events>>
  PROVE  /\ OpenInLedger' = OpenInLedger /\ (LinesInv => LinesInv')
         /\ (FilledOnce => FilledOnce')
  <1>1. ticks' = ticks /\ intents' = intents /\ events' = events
    BY DEF inputs
  <1>2. OpenInLedger' = OpenInLedger
    BY <1>1 DEF OpenInLedger, OpenFills
  <1>3. LinesInv => LinesInv'
    BY <1>1 DEF LinesInv
  <1>4. FilledOnce => FilledOnce'
    <2>1. FilledOnce' <=> FilledOnce
      BY <1>1 DEF FilledOnce, OpenFills
    <2> QED
      BY <2>1
  <1> QED
    BY <1>2, <1>3, <1>4

LEMMA StartHolds == Init => IInv
  <1> SUFFICES ASSUME Init PROVE IInv
    OBVIOUS
  <1>1. /\ ticks \in Streams /\ intents \in IntentLists /\ events = <<>>
        /\ pc = "tick" /\ at = 1 /\ next = 1 /\ pending = {} /\ position = None
        /\ risk = NewRisk /\ previous = None /\ switch = "never"
    BY DEF Init
  <1>2. DOMAIN events = {} /\ Len(events) = 0
    BY <1>1
  <1>3. risk \in RiskStates
    BY <1>1, RiskAssumption DEF NewRisk, RiskStates
  <1>4. at \in 1 .. Len(ticks) + 1 /\ next \in 1 .. Len(intents) + 1
    BY <1>1, TicksType, IntentsType
  <1>5. TypeOK
    BY <1>1, <1>3, <1>4 DEF TypeOK
  <1>6. ControlInv
    BY <1>1 DEF ControlInv
  <1>7. LinesInv /\ TimeInv /\ UsedInv /\ FilledOnce
    BY <1>2 DEF LinesInv, TimeInv, UsedInv, FilledOnce
  <1>8. PositionInv
    BY <1>1, <1>2 DEF PositionInv, OpenInLedger, OpenFills
  <1> QED
    BY <1>5, <1>6, <1>7, <1>8 DEF IInv

LEMMA TickAtHand ==
  ASSUME IInv, at <= Len(ticks)
  PROVE  /\ at \in DOMAIN ticks /\ Tick.time \in Int /\ Tick.price \in Int
         /\ previous # None => previous \in DOMAIN ticks
              /\ ticks[previous].time \in Int /\ ticks[previous].price \in Int
  <1>1. /\ ticks \in Streams /\ at \in 1 .. Len(ticks) + 1
        /\ previous \in (1 .. Len(ticks)) \cup {None}
    BY DEF IInv, ControlInv, TypeOK
  <1>2. Len(ticks) \in Nat /\ DOMAIN ticks = 1 .. Len(ticks)
    BY <1>1, TicksType
  <1>3. at \in DOMAIN ticks /\ (previous # None => previous \in DOMAIN ticks)
    BY <1>1, <1>2
  <1> QED
    BY <1>1, <1>3, TicksType DEF Tick

(* The next tick, after the boundary of a session, arrivals and expiries.  *)
LEMMA NextTickKeeps ==
  ASSUME IInv, NextTick
  PROVE  IInv'
  <1>1. /\ pc = "tick" /\ at <= Len(ticks) /\ turn' = 1 /\ next' = NextToArrive
        /\ pc' = (IF position' = None THEN "intents" ELSE "process")
        /\ UNCHANGED <<inputs, at, previous, crashes, strayed, switch>>
        /\ ticks' = ticks /\ intents' = intents
        /\ pending' = {n \in (IF Boundary THEN {} ELSE pending) \cup Arrived : ~Expired(n)}
    BY DEF NextTick, inputs
  <1>2. /\ at \in DOMAIN ticks /\ Tick.time \in Int
        /\ previous # None => /\ previous \in DOMAIN ticks /\ previous = at - 1
                              /\ ticks[previous].time \in Int
                              /\ ticks[previous].price \in Int
                              /\ ticks[previous].time < Tick.time
    <2>1. /\ at \in DOMAIN ticks /\ Tick.time \in Int
          /\ previous # None => previous \in DOMAIN ticks
                /\ ticks[previous].time \in Int /\ ticks[previous].price \in Int
      BY <1>1, TickAtHand
    <2>2. previous # None => previous = at - 1
      BY <1>1 DEF IInv, ControlInv, Running
    <2>3. previous # None => previous < at
      BY <2>1, <2>2, TicksType DEF IInv, ControlInv
    <2> QED
      BY <2>1, <2>2, <2>3, TicksType DEF IInv, ControlInv, Tick
  <1>3. next \in 1 .. Len(intents) + 1 /\ Len(intents) \in Nat /\ pending \subseteq 1 .. next - 1
    BY IntentsType DEF IInv, TypeOK, ControlInv
  <1>4. NextToArrive \in next .. Len(intents) + 1
    BY <1>3, FirstLaterType DEF NextToArrive
  <1>5. next' \in 1 .. Len(intents') + 1 /\ pending' \subseteq 1 .. next' - 1
    <2>1. PICK m \in next .. Len(intents) + 1 : m = NextToArrive
      BY <1>4
    <2>2. pending' \subseteq pending \cup (next .. m - 1)
      BY <1>1, <2>1 DEF Arrived
    <2>3. next' = m /\ Len(intents') = Len(intents)
      BY <1>1, <2>1
    <2>4. pending \cup (next .. m - 1) \subseteq 1 .. m - 1 /\ m \in 1 .. Len(intents) + 1
      BY <1>3, <2>1
    <2> QED
      BY <2>2, <2>3, <2>4
  <1>6. /\ position' \in Positions \cup {None} /\ risk' \in RiskStates
        /\ position' # None => position' = position
        /\ events' \in Seq(Lines) /\ LinesInv' /\ FilledOnce' /\ position' = OpenInLedger'
        /\ \A i \in DOMAIN events' : /\ events'[i].time < Tick.time
                                     /\ \/ i \in DOMAIN events /\ events'[i] = events[i]
                                        \/ events'[i].event = "POSITION_CLOSED"
    <2>1. CASE Boundary /\ position # None
      <3>1. previous # None
        BY <2>1 DEF Boundary
      <3> DEFINE time == ticks[previous].time
                 pnl == ticks[previous].price - position.entry
                 e == Line("POSITION_CLOSED", time, position.intent, pnl, "SESSION_END")
      <3>2. /\ position' = None /\ events' = Append(events, e)
            /\ risk' = ResetDay(RecordClose(risk, pnl))
        BY <1>1, <2>1 DEF NextTick
      <3>3. /\ \A i \in DOMAIN events : events[i].time <= time
            /\ pc # "off" /\ time \in Int /\ ticks[previous].price \in Int
        BY <1>1, <1>2, <3>1 DEF IInv, TimeInv
      <3>4. "SESSION_END" \in {"WIN", "LOSS", "SESSION_END"}
        OBVIOUS
      <3>5. /\ events' \in Seq(Lines) /\ LinesInv' /\ FilledOnce' /\ OpenInLedger' = None
            /\ pnl \in Int /\ e \in Lines
        BY <1>1, <2>1, <3>2, <3>3, <3>4, CloseKeeps
      <3>6. risk' \in RiskStates
        BY <3>2, <3>5, RecordCloseType, ResetDayType DEF IInv, TypeOK
      <3>7. e.time = time /\ e.event = "POSITION_CLOSED" /\ time < Tick.time
        BY <1>2, <3>1 DEF Line
      <3>8. PICK k \in Nat : k = Len(events)
        BY DEF IInv, ControlInv
      <3> HIDE DEF e, time, pnl
      <3>9. /\ DOMAIN events' = 1 .. k + 1 /\ DOMAIN events = 1 .. k
            /\ \A i \in 1 .. k : events'[i] = events[i]
            /\ events'[k + 1] = e
        BY <3>2, <3>5, <3>8, LineAppended DEF IInv, ControlInv
      <3>10. ASSUME NEW i \in DOMAIN events'
             PROVE  /\ events'[i].time < Tick.time
                    /\ \/ i \in DOMAIN events /\ events'[i] = events[i]
                       \/ events'[i].event = "POSITION_CLOSED"
        <4>1. CASE i \in 1 .. k
          BY <1>1, <3>9, <4>1 DEF IInv, TimeInv, Tick
        <4>2. CASE i = k + 1
          BY <3>7, <3>9, <4>2
        <4> QED
          BY <3>9, <4>1, <4>2
      <3> QED
        BY <3>2, <3>5, <3>6, <3>10
    <2>2. CASE ~(Boundary /\ position # None)
      <3>1. /\ events' = events /\ position' = position
            /\ risk' = risk \/ risk' = ResetDay(risk)
        BY <2>2 DEF NextTick
      <3>2. LinesInv' /\ FilledOnce' /\ OpenInLedger' = OpenInLedger
        BY <1>1, <3>1, SameLedger DEF IInv
      <3>3. risk' \in RiskStates
        BY <3>1, ResetDayType DEF IInv, TypeOK
      <3>4. position' \in Positions \cup {None} /\ position' = OpenInLedger'
        BY <1>1, <3>1, <3>2 DEF IInv, ControlInv, PositionInv
      <3>5. \A i \in DOMAIN events : events[i].time < Tick.time
        BY <1>1 DEF IInv, TimeInv, Tick
      <3> QED
        BY <3>1, <3>2, <3>3, <3>4, <3>5 DEF IInv, ControlInv
    <2> QED
      BY <2>1, <2>2
  <1>7. TypeOK'
    <2>1. pc' \in {"tick", "intents", "process", "done", "off"}
      BY <1>1
    <2>2. position' # None => position'.stop < position'.entry /\ position'.entry < position'.target
      BY <1>6 DEF IInv, TypeOK
    <2>3. at' \in 1 .. Len(ticks') + 1 /\ previous' \in (1 .. Len(ticks')) \cup {None}
      BY <1>1 DEF IInv, TypeOK
    <2>4. switch' \in {"never", "on", "off"}
      BY <1>1 DEF IInv, TypeOK
    <2> QED
      BY <1>5, <1>6, <2>1, <2>2, <2>3, <2>4 DEF TypeOK
  <1>8. ControlInv'
    BY <1>1, <1>2, <1>6 DEF ControlInv, IInv, Running
  <1>9. TimeInv'
    <2>1. \A i \in DOMAIN events' : events'[i].time <= ticks[at].time
      <3>1. \A i \in DOMAIN events' : events'[i].time \in Int
        <4>1. \A i \in DOMAIN events' : events'[i] \in Lines
          BY <1>6, ElementsOf
        <4> QED
          BY <4>1 DEF Lines
      <3> QED
        BY <1>2, <1>6, <3>1 DEF Tick
    <2> QED
      BY <1>1, <2>1 DEF TimeInv
  <1>10. UsedInv'
    <2>1. ASSUME NEW i \in DOMAIN events', events'[i].event # "POSITION_CLOSED"
          PROVE  events'[i].intent < next' /\ events'[i].intent \notin pending'
      <3>1. i \in DOMAIN events /\ events'[i] = events[i]
        BY <1>6, <2>1
      <3>2. events[i].intent < next /\ events[i].intent \notin pending
        BY <1>1, <2>1, <3>1 DEF IInv, UsedInv, Running
      <3>3. events[i].intent \in Nat
        BY <3>1, LinesType DEF IInv, ControlInv
      <3> QED
        BY <1>1, <1>3, <1>4, <3>1, <3>2, <3>3 DEF Arrived
    <2> QED
      BY <2>1 DEF UsedInv
  <1>11. PositionInv'
    BY <1>1, <1>6 DEF PositionInv
  <1> QED
    BY <1>6, <1>7, <1>8, <1>9, <1>10, <1>11 DEF IInv

LEMMA NoMoreTurnsKeeps ==
  ASSUME IInv, NoMoreTurns
  PROVE  IInv'
  <1>1. /\ pc = "intents" /\ pc' = "process" /\ ticks' = ticks /\ intents' = intents
        /\ UNCHANGED <<inputs, events, at, next, pending, turn, position, risk,
                       previous, crashes, strayed, switch>>
    BY DEF NoMoreTurns, inputs
  <1>2. LinesInv' /\ FilledOnce' /\ OpenInLedger' = OpenInLedger
    BY <1>1, SameLedger DEF IInv
  <1>3. TypeOK'
    BY <1>1 DEF IInv, TypeOK
  <1>4. ControlInv'
    BY <1>1 DEF IInv, ControlInv, Running
  <1>5. TimeInv' /\ UsedInv' /\ PositionInv'
    BY <1>1, <1>2 DEF IInv, TimeInv, UsedInv, PositionInv, Running
  <1> QED
    BY <1>2, <1>3, <1>4, <1>5 DEF IInv

(* One turn of the loop: the intent at hand fills or is refused, and in    *)
(* either case its line is written and it waits no more.                   *)
LEMMA SubmitTurnKeeps ==
  ASSUME IInv, SubmitTurn
  PROVE  IInv'
  <1>1. /\ pc = "intents" /\ Turns # {} /\ ticks' = ticks /\ intents' = intents
        /\ UNCHANGED <<inputs, at, next, previous, crashes, strayed, switch>>
    BY DEF SubmitTurn, inputs
  <1>2. PICK n : n = Min(Turns)
    OBVIOUS
  <1>3. /\ pending' = pending \ {n}
        /\ IF SubmitAllowed(n)
             THEN /\ Open(n) /\ risk' = CountTrade(risk)
                  /\ events' = Append(events, Line("BUY_FILLED", Tick.time, n, 0, None))
                  /\ pc' = "process"
             ELSE /\ events' = Append(events, Line("REJECT", Tick.time, n, 0, None))
                  /\ UNCHANGED <<position, risk, pc>>
    BY <1>2 DEF SubmitTurn
  <1>4. n \in pending /\ Reached(n)
    <2>1. Turns \in SUBSET Nat
      <3>1. pending \subseteq Nat
        BY IntentsType DEF IInv, TypeOK, ControlInv
      <3> QED
        BY <3>1 DEF Turns
    <2>2. n \in Turns
      BY <1>1, <1>2, <2>1, MinIsLeast
    <2> QED
      BY <2>2 DEF Turns
  <1>5. /\ at \in DOMAIN ticks /\ Tick.time \in Int /\ Tick.price \in Int
        /\ position = None /\ at <= Len(ticks)
    BY <1>1, TickAtHand DEF IInv, ControlInv
  <1>6. /\ n \in DOMAIN intents /\ n \in Nat /\ n < next /\ intents[n].time < Tick.time
        /\ intents[n].stop \in Int /\ intents[n].target \in Int /\ intents[n].time \in Int
    <2>1. n \in 1 .. next - 1 /\ next \in 1 .. Len(intents) + 1 /\ intents \in IntentLists
      BY <1>4 DEF IInv, TypeOK, ControlInv
    <2>2. n \in DOMAIN intents /\ n \in Nat /\ n < next
      BY <2>1, IntentsType
    <2>3. Tick.time > intents[n].time
      BY <1>4 DEF Reached
    <2> QED
      BY <1>5, <2>1, <2>2, <2>3, IntentsType
  <1>7. /\ \A i \in DOMAIN events : events[i].time <= Tick.time
        /\ \A i \in DOMAIN events : events[i].event # "POSITION_CLOSED" =>
             events[i].intent # n
    BY <1>1, <1>4 DEF IInv, TimeInv, UsedInv, Running, Tick
  <1>8. OpenFills(Len(events)) = {}
    BY <1>1, <1>5, FlatLedger
  <1>9. PICK kind \in {"BUY_FILLED", "REJECT"} :
          /\ kind = IF SubmitAllowed(n) THEN "BUY_FILLED" ELSE "REJECT"
          /\ events' = Append(events, Line(kind, Tick.time, n, 0, None))
    BY <1>3
  <1>10. PICK e : e = Line(kind, Tick.time, n, 0, None)
    OBVIOUS
  <1>11. /\ e \in Lines /\ e.event = kind /\ e.time = Tick.time /\ e.intent = n
    BY <1>5, <1>6, <1>9, <1>10 DEF Line, Lines, LineKinds
  <1>12. kind = "BUY_FILLED" =>
           /\ ticks[at].time = Tick.time
           /\ intents[n].stop < ticks[at].price /\ ticks[at].price < intents[n].target
    BY <1>5, <1>6, <1>9 DEF SubmitAllowed, CheckBuy, Tick
  <1>13. /\ events' \in Seq(Lines) /\ LinesInv' /\ FilledOnce'
         /\ kind = "BUY_FILLED" => OpenInLedger' = PositionOf(e)
         /\ kind = "REJECT" => OpenInLedger' = OpenInLedger
    <2>1. e.event = "BUY_FILLED" =>
           /\ OpenFills(Len(events)) = {}
           /\ \E t \in DOMAIN ticks :
                /\ ticks[t].time = e.time
                /\ intents[e.intent].stop < ticks[t].price
                /\ ticks[t].price < intents[e.intent].target
      BY <1>5, <1>8, <1>11, <1>12
    <2>2. events' = Append(events, e) /\ e.event # "POSITION_CLOSED"
      BY <1>9, <1>10, <1>11
    <2> QED
      BY <1>1, <1>6, <1>7, <1>11, <2>1, <2>2, WriteKeeps
  <1>14. /\ position' \in Positions \cup {None} /\ position' = OpenInLedger'
         /\ position' # None => /\ position'.stop < position'.entry
                                /\ position'.entry < position'.target
         /\ pc' = IF position' = None THEN "intents" ELSE "process"
         /\ risk' \in RiskStates
    <2>1. CASE SubmitAllowed(n)
      <3>1. position' = [intent |-> n, time |-> Tick.time, entry |-> Tick.price,
                         stop |-> intents[n].stop, target |-> intents[n].target]
        BY <1>3, <2>1 DEF Open
      <3>2. position' \in Positions /\ position' # None
        BY <1>5, <1>6, <3>1, ReplayAssumption DEF Positions
      <3>3. PositionOf(e) = position'
        <4>1. (CHOOSE j \in DOMAIN ticks : ticks[j].time = e.time) = at
          BY <1>5, <1>11, TickOfTime DEF Tick, IInv, ControlInv
        <4> QED
          BY <1>11, <3>1, <4>1 DEF PositionOf, Tick
      <3>4. position'.stop < position'.entry /\ position'.entry < position'.target
        BY <1>9, <1>12, <2>1, <3>1 DEF Tick
      <3>5. risk' \in RiskStates
        BY <1>3, <2>1, CountTradeType DEF IInv, TypeOK
      <3> QED
        BY <1>3, <1>9, <1>13, <2>1, <3>2, <3>3, <3>4, <3>5
    <2>2. CASE ~SubmitAllowed(n)
      <3>1. UNCHANGED <<position, risk, pc>>
        BY <1>3, <2>2
      <3> QED
        BY <1>1, <1>5, <1>9, <1>13, <2>2, <3>1 DEF IInv, TypeOK, PositionInv, ControlInv
    <2> QED
      BY <2>1, <2>2
  <1>15. TypeOK'
    <2>1. pc' \in {"tick", "intents", "process", "done", "off"}
      BY <1>14
    <2>2. pending' \subseteq 1 .. next' - 1 /\ next' \in 1 .. Len(intents') + 1
      BY <1>1, <1>3 DEF IInv, TypeOK
    <2>3. at' \in 1 .. Len(ticks') + 1 /\ previous' \in (1 .. Len(ticks')) \cup {None}
      BY <1>1 DEF IInv, TypeOK
    <2>4. switch' \in {"never", "on", "off"}
      BY <1>1 DEF IInv, TypeOK
    <2> QED
      BY <1>14, <2>1, <2>2, <2>3, <2>4 DEF TypeOK
  <1>16. ControlInv'
    BY <1>1, <1>5, <1>13, <1>14 DEF IInv, ControlInv, Running
  <1>17. PICK k \in Nat : k = Len(events)
    BY DEF IInv, ControlInv
  <1>18. /\ DOMAIN events' = 1 .. k + 1 /\ DOMAIN events = 1 .. k
         /\ \A i \in 1 .. k : events'[i] = events[i]
         /\ events'[k + 1] = e
    BY <1>9, <1>10, <1>11, <1>17, LineAppended DEF IInv, ControlInv
  <1>19. \A i \in DOMAIN events' : i \in DOMAIN events \/ i = k + 1
    BY <1>18
  <1>20. TimeInv'
    <2>1. \A i \in DOMAIN events' : events'[i].time <= Tick.time
      BY <1>5, <1>7, <1>11, <1>18, <1>19
    <2> QED
      BY <1>1, <1>14, <2>1 DEF TimeInv, Tick
  <1>21. UsedInv'
    <2>1. ASSUME NEW i \in DOMAIN events', events'[i].event # "POSITION_CLOSED"
          PROVE  events'[i].intent < next' /\ events'[i].intent \notin pending'
      <3>1. CASE i \in DOMAIN events
        BY <1>1, <1>3, <1>18, <2>1, <3>1 DEF IInv, UsedInv, Running
      <3>2. CASE i = k + 1
        BY <1>1, <1>3, <1>6, <1>11, <1>18, <3>2
      <3> QED
        BY <1>19, <3>1, <3>2
    <2> QED
      BY <2>1 DEF UsedInv
  <1>22. PositionInv'
    BY <1>14 DEF PositionInv
  <1> QED
    BY <1>13, <1>15, <1>16, <1>20, <1>21, <1>22 DEF IInv

(* A close, and the tick or the run is over.                               *)
LEMMA CloseAtKeeps ==
  ASSUME IInv, pc # "off", position # None, UNCHANGED inputs,
         NEW time \in Int, NEW price \in Int,
         NEW result \in {"WIN", "LOSS", "SESSION_END"},
         CloseAt(time, price, result),
         \A i \in DOMAIN events : events[i].time <= time
  PROVE  /\ events' \in Seq(Lines) /\ LinesInv' /\ FilledOnce'
         /\ position' = None /\ OpenInLedger' = None /\ risk' \in RiskStates
         /\ \A i \in DOMAIN events' :
              /\ events'[i].time <= time
              /\ \/ i \in DOMAIN events /\ events'[i] = events[i]
                 \/ events'[i].event = "POSITION_CLOSED"
  <1>1. PICK e : e = Line("POSITION_CLOSED", time, position.intent,
                          price - position.entry, result)
    OBVIOUS
  <1>2. /\ events' = Append(events, e) /\ position' = None
        /\ risk' = RecordClose(risk, price - position.entry)
    BY <1>1 DEF CloseAt
  <1>3. /\ events' \in Seq(Lines) /\ LinesInv' /\ FilledOnce' /\ OpenInLedger' = None
        /\ price - position.entry \in Int /\ e \in Lines
    BY <1>1, <1>2, CloseKeeps
  <1>4. risk' \in RiskStates
    BY <1>2, <1>3, RecordCloseType DEF IInv, TypeOK
  <1>5. PICK k \in Nat : k = Len(events)
    BY DEF IInv, ControlInv
  <1>6. /\ DOMAIN events' = 1 .. k + 1 /\ DOMAIN events = 1 .. k
        /\ \A i \in 1 .. k : events'[i] = events[i]
        /\ events'[k + 1] = e
    BY <1>2, <1>3, <1>5, LineAppended DEF IInv, ControlInv
  <1>7. e.time = time /\ e.event = "POSITION_CLOSED"
    BY <1>1 DEF Line
  <1>8. ASSUME NEW i \in DOMAIN events'
        PROVE  /\ events'[i].time <= time
               /\ \/ i \in DOMAIN events /\ events'[i] = events[i]
                  \/ events'[i].event = "POSITION_CLOSED"
    <2>1. CASE i \in 1 .. k
      BY <1>6, <2>1
    <2>2. CASE i = k + 1
      BY <1>6, <1>7, <2>2
    <2> QED
      BY <1>6, <2>1, <2>2
  <1> QED
    BY <1>2, <1>3, <1>4, <1>8

(* process_tick: what leaves is written, and the tick is over.             *)
LEMMA ProcessKeeps ==
  ASSUME IInv, Process
  PROVE  IInv'
  <1>1. /\ pc = "process" /\ pc' = "tick" /\ at' = at + 1 /\ previous' = at
        /\ ticks' = ticks /\ intents' = intents
        /\ UNCHANGED <<inputs, next, pending, turn, crashes, strayed, switch>>
    BY DEF Process, inputs
  <1>2. /\ at \in DOMAIN ticks /\ Tick.time \in Int /\ Tick.price \in Int
        /\ at \in 1 .. Len(ticks) /\ Len(ticks) \in Nat
    <2>1. at <= Len(ticks)
      BY <1>1 DEF IInv, ControlInv
    <2> QED
      BY <2>1, TickAtHand, TicksType DEF IInv, ControlInv
  <1>3. \A i \in DOMAIN events : events[i].time <= Tick.time
    BY <1>1 DEF IInv, TimeInv, Tick
  <1>4. /\ position' \in Positions \cup {None} /\ risk' \in RiskStates
        /\ position' # None => position' = position
        /\ events' \in Seq(Lines) /\ LinesInv' /\ FilledOnce' /\ position' = OpenInLedger'
        /\ \A i \in DOMAIN events' : /\ events'[i].time <= Tick.time
                                     /\ \/ i \in DOMAIN events /\ events'[i] = events[i]
                                        \/ events'[i].event = "POSITION_CLOSED"
    <2>1. CASE UNCHANGED <<position, risk, events>>
      <3>1. LinesInv' /\ FilledOnce' /\ OpenInLedger' = OpenInLedger
        BY <1>1, <2>1, SameLedger DEF IInv
      <3> QED
        BY <1>1, <1>3, <2>1, <3>1 DEF IInv, TypeOK, ControlInv, PositionInv
    <2>2. CASE ~UNCHANGED <<position, risk, events>>
      <3>1. /\ position # None
            /\ \/ CloseAt(Tick.time, position.stop, "LOSS")
               \/ CloseAt(Tick.time, position.target, "WIN")
        BY <2>2 DEF Process
      <3>2. position.stop \in Int /\ position.target \in Int
        BY <3>1 DEF IInv, ControlInv, Positions
      <3>3. PICK price \in Int, result \in {"WIN", "LOSS", "SESSION_END"} :
              CloseAt(Tick.time, price, result)
        BY <3>1, <3>2
      <3>4. pc # "off"
        BY <1>1
      <3> QED
        BY <1>1, <1>2, <1>3, <3>1, <3>3, <3>4, CloseAtKeeps
    <2> QED
      BY <2>1, <2>2
  <1>5. TypeOK'
    <2>1. at' \in 1 .. Len(ticks') + 1 /\ previous' \in (1 .. Len(ticks')) \cup {None}
      BY <1>1, <1>2
    <2>2. position' # None => position'.stop < position'.entry /\ position'.entry < position'.target
      BY <1>4 DEF IInv, TypeOK
    <2> QED
      BY <1>1, <1>4, <2>1, <2>2 DEF IInv, TypeOK
  <1>6. ControlInv'
    BY <1>1, <1>2, <1>4 DEF IInv, ControlInv, Running
  <1>7. TimeInv'
    <2>1. ASSUME at + 1 <= Len(ticks) PROVE Tick.time < ticks[at + 1].time
      <3>1. at \in DOMAIN ticks /\ at + 1 \in DOMAIN ticks /\ at < at + 1
        BY <1>2, <2>1, TicksType DEF IInv, ControlInv
      <3> QED
        BY <3>1, TicksType DEF IInv, ControlInv, Tick
    <2>2. \A i \in DOMAIN events' : events'[i].time \in Int
      <3>1. \A i \in DOMAIN events' : events'[i] \in Lines
        BY <1>4, ElementsOf
      <3> QED
        BY <3>1 DEF Lines
    <2>3. at + 1 <= Len(ticks) => ticks[at + 1].time \in Int
      BY <1>2, TicksType DEF IInv, ControlInv
    <2>4. \A i \in DOMAIN events' :
            /\ events'[i].time <= ticks[at].time
            /\ at + 1 <= Len(ticks) => events'[i].time < ticks[at + 1].time
      BY <1>2, <1>4, <2>1, <2>2, <2>3 DEF Tick
    <2>5. \A i \in DOMAIN events' :
            /\ events'[i].time <= ticks'[previous'].time
            /\ at' <= Len(ticks') => events'[i].time < ticks'[at'].time
      BY <1>1, <2>4
    <2> QED
      BY <1>1, <2>5 DEF TimeInv
  <1>8. UsedInv'
    BY <1>1, <1>4 DEF IInv, UsedInv, Running
  <1>9. PositionInv'
    BY <1>1, <1>4 DEF PositionInv
  <1> QED
    BY <1>4, <1>5, <1>6, <1>7, <1>8, <1>9 DEF IInv

(* The end of the stream.                                                  *)
LEMMA FinishKeeps ==
  ASSUME IInv, Finish
  PROVE  IInv'
  <1>1. /\ pc = "tick" /\ pc' = "done" /\ ticks' = ticks /\ intents' = intents
        /\ UNCHANGED <<inputs, at, next, pending, turn, previous, crashes, strayed, switch>>
    BY DEF Finish, inputs
  <1>2. /\ position' \in Positions \cup {None} /\ risk' \in RiskStates
        /\ position' # None => position' = position
        /\ events' \in Seq(Lines) /\ LinesInv' /\ FilledOnce' /\ position' = OpenInLedger'
    <2>1. CASE position # None /\ previous # None
      <3>1. CloseAt(ticks[previous].time, ticks[previous].price, "SESSION_END")
        BY <2>1 DEF Finish
      <3>2. /\ ticks[previous].time \in Int /\ ticks[previous].price \in Int
        BY <2>1, TicksType DEF IInv, ControlInv, TypeOK
      <3>3. \A i \in DOMAIN events : events[i].time <= ticks[previous].time
        BY <1>1, <2>1 DEF IInv, TimeInv
      <3>4. pc # "off"
        BY <1>1
      <3> QED
        BY <1>1, <2>1, <3>1, <3>2, <3>3, <3>4, CloseAtKeeps
    <2>2. CASE ~(position # None /\ previous # None)
      <3>1. UNCHANGED <<events, risk, position>>
        BY <2>2 DEF Finish
      <3>2. LinesInv' /\ FilledOnce' /\ OpenInLedger' = OpenInLedger
        BY <1>1, <3>1, SameLedger DEF IInv
      <3> QED
        BY <1>1, <3>1, <3>2 DEF IInv, TypeOK, ControlInv, PositionInv
    <2> QED
      BY <2>1, <2>2
  <1>3. TypeOK'
    <2>1. position' # None => position'.stop < position'.entry /\ position'.entry < position'.target
      BY <1>2 DEF IInv, TypeOK
    <2> QED
      BY <1>1, <1>2, <2>1 DEF IInv, TypeOK
  <1>4. ControlInv'
    BY <1>1, <1>2 DEF IInv, ControlInv, Running
  <1>5. TimeInv' /\ UsedInv' /\ PositionInv'
    BY <1>1, <1>2 DEF TimeInv, UsedInv, PositionInv, Running
  <1> QED
    BY <1>2, <1>3, <1>4, <1>5 DEF IInv

LEMMA CrashKeeps ==
  ASSUME IInv, Crash
  PROVE  IInv'
  <1>1. /\ pc' = "off" /\ at' = 1 /\ next' = 1 /\ pending' = {} /\ position' = None
        /\ previous' = None /\ risk' = NewRisk /\ events' = events
        /\ ticks' = ticks /\ intents' = intents /\ UNCHANGED <<inputs, switch>>
    BY DEF Crash, inputs
  <1>2. LinesInv' /\ FilledOnce'
    BY <1>1, SameLedger DEF IInv
  <1>3. NewRisk \in RiskStates
    BY RiskAssumption DEF NewRisk, RiskStates
  <1>4. 1 \in 1 .. Len(ticks) + 1 /\ 1 \in 1 .. Len(intents) + 1
    BY TicksType, IntentsType DEF IInv, ControlInv
  <1>5. TypeOK'
    BY <1>1, <1>3, <1>4 DEF IInv, TypeOK
  <1>6. ControlInv'
    BY <1>1 DEF IInv, ControlInv, Running
  <1>7. TimeInv' /\ UsedInv' /\ PositionInv'
    BY <1>1 DEF TimeInv, UsedInv, PositionInv, Running
  <1> QED
    BY <1>2, <1>5, <1>6, <1>7 DEF IInv

(* No line is later than the cutoff of a resume.                           *)
LEMMA CutoffIsLast ==
  ASSUME IInv
  PROVE  /\ events = <<>> => Cutoff = None
         /\ events # <<>> => Cutoff \in Int
         /\ \A i \in DOMAIN events : Cutoff \in Int /\ Cutoff # None
                                     /\ events[i].time <= Cutoff
  <1>1. events \in Seq(Lines) /\ DOMAIN events = 1 .. Len(events) /\ Len(events) \in Nat
        /\ \A i \in DOMAIN events : events[i].time \in Int
    BY LinesType DEF IInv, ControlInv
  <1>2. ASSUME events # <<>>
        PROVE  /\ Cutoff = events[Len(events)].time /\ Len(events) \in DOMAIN events
               /\ Cutoff \in Int
    <2>1. Len(events) \in DOMAIN events
      BY <1>1, <1>2
    <2>2. Cutoff = events[Len(events)].time
      BY <1>2 DEF Cutoff, Last
    <2> QED
      BY <1>1, <2>1, <2>2
  <1>3. ASSUME NEW i \in DOMAIN events
        PROVE  Cutoff \in Int /\ Cutoff # None /\ events[i].time <= Cutoff
    <2>1. events # <<>> /\ i \in 1 .. Len(events)
      BY <1>1
    <2>2. i = Len(events) \/ i < Len(events)
      BY <1>1, <2>1
    <2>3. events[i].time <= events[Len(events)].time
      BY <1>1, <1>2, <2>1, <2>2 DEF IInv, LinesInv
    <2> QED
      BY <1>2, <2>1, <2>3, RiskAssumption
  <1> QED
    BY <1>2, <1>3 DEF Cutoff

(* The position a resume finds lies inside its bracket.                    *)
LEMMA ResumedPosition ==
  ASSUME IInv
  PROVE  /\ OpenInLedger \in Positions \cup {None}
         /\ OpenInLedger # None =>
              /\ OpenInLedger.stop < OpenInLedger.entry
              /\ OpenInLedger.entry < OpenInLedger.target
  <1>1. CASE OpenFills(Len(events)) = {}
    BY <1>1, LedgerPosition
  <1>2. CASE OpenFills(Len(events)) # {}
    <2>1. PICK i : i \in OpenFills(Len(events))
      BY <1>2
    <2>2. events \in Seq(Lines) /\ i \in DOMAIN events /\ events[i].event = "BUY_FILLED"
      BY <2>1 DEF IInv, ControlInv, OpenFills
    <2>3. OpenInLedger = PositionOf(events[i])
      BY <2>1, <2>2, LedgerPosition
    <2> QED
      BY <2>2, <2>3, OpenFillType DEF IInv
  <1> QED
    BY <1>1, <1>2

(* The run after a crash starts behind every line of the ledger, with the  *)
(* intents the ledger has used behind it.                                  *)
LEMMA ResumeKeeps ==
  ASSUME IInv, Resume
  PROVE  IInv'
  <1>1. /\ pc = "off" /\ pc' = "tick" /\ position' = OpenInLedger
        /\ at' = FirstTick /\ next' = FromCutoff(intents)
        /\ risk' = RecoverRisk(events, Last(ticks).time)
        /\ ticks' = ticks /\ intents' = intents /\ events' = events
        /\ UNCHANGED <<inputs, events, pending, turn, previous, crashes, switch>>
    BY DEF Resume, inputs
  <1>2. /\ pending' = {} /\ previous' = None /\ ticks \in Streams
        /\ intents \in IntentLists /\ events \in Seq(Lines)
    BY <1>1 DEF IInv, ControlInv
  <1>3. LinesInv' /\ FilledOnce' /\ OpenInLedger' = OpenInLedger
    BY <1>1, SameLedger DEF IInv
  <1>4. risk' \in RiskStates
    BY <1>1, <1>2, RecoverRiskType
  <1>5. /\ FirstTick \in 1 .. Len(ticks) + 1
        /\ Cutoff # None /\ FirstTick <= Len(ticks) => ticks[FirstTick].time > Cutoff
    <2>1. Len(ticks) \in Nat /\ 1 \in 1 .. Len(ticks) + 1
      BY <1>2, TicksType
    <2>2. PICK s : s = ticks
      OBVIOUS
    <2>3. FirstTick = IF Cutoff = None THEN 1 ELSE FirstLater(s, 1, Cutoff)
      BY <2>2 DEF FirstTick, FromCutoff
    <2> QED
      BY <2>1, <2>2, <2>3, FirstLaterType
  <1>6. /\ FromCutoff(intents) \in 1 .. Len(intents) + 1
        /\ Cutoff # None /\ FromCutoff(intents) <= Len(intents) =>
             intents[FromCutoff(intents)].time > Cutoff
    <2>1. Len(intents) \in Nat /\ 1 \in 1 .. Len(intents) + 1
      BY <1>2, IntentsType
    <2>2. PICK s : s = intents
      OBVIOUS
    <2>3. FromCutoff(s) = IF Cutoff = None THEN 1 ELSE FirstLater(s, 1, Cutoff)
      BY DEF FromCutoff
    <2> QED
      BY <2>1, <2>2, <2>3, FirstLaterType
  <1>7. TypeOK'
    <2>1. position' # None => position'.stop < position'.entry /\ position'.entry < position'.target
      BY <1>1, ResumedPosition
    <2>2. switch' \in {"never", "on", "off"}
      BY <1>1 DEF IInv, TypeOK
    <2> QED
      BY <1>1, <1>2, <1>4, <1>5, <1>6, <2>1, <2>2 DEF TypeOK
  <1>8. ControlInv'
    BY <1>1, <1>2, ResumedPosition DEF ControlInv, Running
  <1>9. TimeInv'
    <2>1. ASSUME NEW i \in DOMAIN events, FirstTick <= Len(ticks)
          PROVE  events[i].time < ticks[FirstTick].time
      <3>1. Cutoff \in Int /\ Cutoff # None /\ events[i].time <= Cutoff
        BY CutoffIsLast
      <3>2. events[i].time \in Int /\ ticks[FirstTick].time \in Int
        BY <1>2, <1>5, <2>1, LinesType, TicksType
      <3> QED
        BY <1>5, <2>1, <3>1, <3>2
    <2> QED
      BY <1>1, <1>2, <2>1 DEF TimeInv
  <1>10. UsedInv'
    <2>1. ASSUME NEW i \in DOMAIN events, events[i].event # "POSITION_CLOSED"
          PROVE  events[i].intent < FromCutoff(intents)
      <3>1. Cutoff \in Int /\ Cutoff # None /\ events[i].time <= Cutoff
        BY CutoffIsLast
      <3>2. PICK n : n = events[i].intent
        OBVIOUS
      <3>3. n \in DOMAIN intents /\ intents[n].time < events[i].time
        BY <2>1, <3>2 DEF IInv, LinesInv
      <3>4. events[i].time \in Int
        BY <1>2, LinesType
      <3>5. PICK f : f = FromCutoff(intents)
        OBVIOUS
      <3>6. ASSUME f <= n PROVE FALSE
        <4>1. f \in DOMAIN intents /\ n \in DOMAIN intents /\ f \in Int /\ n \in Int
          BY <1>2, <1>6, <3>3, <3>5, <3>6, IntentsType
        <4>2. intents[f].time <= intents[n].time
          BY <1>2, <3>6, <4>1, IntentsType
        <4>3. intents[f].time > Cutoff
          BY <1>2, <1>6, <3>1, <3>5, <4>1, IntentsType
        <4>4. intents[f].time \in Int /\ intents[n].time \in Int
          BY <1>2, <4>1, IntentsType
        <4> QED
          BY <3>1, <3>3, <3>4, <4>2, <4>3, <4>4
      <3>7. f \in Int /\ n \in Int
        BY <1>2, <1>6, <3>3, <3>5, IntentsType
      <3> QED
        BY <3>2, <3>5, <3>6, <3>7
    <2> QED
      BY <1>1, <1>2, <2>1 DEF UsedInv
  <1>11. PositionInv'
    BY <1>1, <1>3 DEF PositionInv
  <1> QED
    BY <1>3, <1>7, <1>8, <1>9, <1>10, <1>11 DEF IInv

(* The kill switch is not in the invariant: an operator, who writes        *)
(* nothing else, keeps it as a stutter does.                               *)
LEMMA SwitchKeeps ==
  ASSUME IInv, switch' \in {"never", "on", "off"},
         UNCHANGED <<inputs, events, pc, at, next, pending, turn, position, risk,
                     previous, crashes, strayed>>
  PROVE  IInv'
  <1>1. UNCHANGED <<ticks, intents, events, pc, at, next, pending, turn, position,
                    risk, previous, crashes, strayed>> /\ UNCHANGED inputs
    BY DEF inputs
  <1>2. LinesInv' /\ FilledOnce' /\ OpenInLedger' = OpenInLedger
    BY <1>1, SameLedger DEF IInv
  <1>3. TypeOK'
    BY <1>1 DEF IInv, TypeOK
  <1>4. ControlInv'
    BY <1>1 DEF IInv, ControlInv, Running
  <1>5. TimeInv' /\ UsedInv' /\ PositionInv'
    BY <1>1, <1>2 DEF IInv, TimeInv, UsedInv, PositionInv, Running
  <1> QED
    BY <1>2, <1>3, <1>4, <1>5 DEF IInv

LEMMA OperatorKeeps ==
  ASSUME IInv, Operator
  PROVE  IInv'
  BY SwitchKeeps DEF Operator

LEMMA StutterKeeps ==
  ASSUME IInv, UNCHANGED vars
  PROVE  IInv'
  BY SwitchKeeps DEF vars, IInv, TypeOK

LEMMA Inductive == Spec => []IInv
  <1>1. IInv /\ [Next]_vars => IInv'
    <2> SUFFICES ASSUME IInv, [Next]_vars PROVE IInv'
      OBVIOUS
    <2> QED
      BY NextTickKeeps, NoMoreTurnsKeeps, SubmitTurnKeeps, ProcessKeeps, FinishKeeps,
         CrashKeeps, ResumeKeeps, OperatorKeeps, StutterKeeps DEF Next
  <1> QED
    BY StartHolds, <1>1, PTL DEF Spec

(* The variables of a replay and of its broker have their types in every   *)
(* state, over any number of crashes and resumes; a position it holds lies *)
(* inside its bracket, also one read back from the ledger                  *)
(* (replay.py:80-158, paper.py:69-138).                                    *)
THEOREM ReplayTypeCorrect == Spec => []TypeOK
  BY Inductive, PTL DEF IInv

(* However often the process dies, fills and closes alternate in the       *)
(* ledger and no intent has two lines: a resume starts behind the intents  *)
(* the ledger has used (replay.py:94-152).                                 *)
THEOREM IntentsFillOnce == Spec => []FilledOnce
  BY Inductive, PTL DEF IInv

-----------------------------------------------------------------------------
(* What recovery counts and what the process counts.  The two agree when   *)
(* recovery dates a line as the replay dates its tick: with --timezone     *)
(* left at UTC and ticks stamped in UTC.                                   *)
ZonesAgree ==
  \A s \in Streams : \A i \in DOMAIN s :
    /\ DateOf(s[i].time) = SessionDate(s[i].time)
    /\ StampDate(s[i].time) = SessionDate(s[i].time)

AsOf == Last(ticks).time
LastDate == SessionDate(AsOf)

(* The date the process is in.                                             *)
Session ==
  IF pc = "tick" /\ previous # None THEN SessionDate(ticks[previous].time)
                                    ELSE SessionDate(ticks[at].time)

(* Equity and streak are the same on every date, the counters of the day   *)
(* on the last one: before it recovery has counted nothing for the day.    *)
Agree(f, r, today) ==
  /\ f.equity = r.equity /\ f.streak = r.streak
  /\ today => f.trades = r.trades /\ f.daily = r.daily
                /\ Begun(f).dayStart = r.dayStart
  /\ ~today => ~f.begun /\ f.trades = 0 /\ f.daily = 0

FoldInv ==
  Running /\ ~strayed =>
    Agree(RecoverLines(events, AsOf), risk, Session = LastDate)

LEMMA LastTick ==
  ASSUME ticks \in Streams
  PROVE  /\ AsOf = ticks[Len(ticks)].time /\ Len(ticks) \in DOMAIN ticks
         /\ \A i, j \in DOMAIN ticks : i < j =>
              SessionDate(ticks[i].time) <= SessionDate(ticks[j].time)
         /\ \A i \in DOMAIN ticks : SessionDate(ticks[i].time) \in Int
                                    /\ SessionDate(ticks[i].time) <= LastDate
  <1>1. /\ Len(ticks) \in Nat \ {0} /\ DOMAIN ticks = 1 .. Len(ticks)
        /\ \A i \in DOMAIN ticks : SessionDate(ticks[i].time) \in Int
        /\ \A i, j \in DOMAIN ticks : i < j =>
              SessionDate(ticks[i].time) <= SessionDate(ticks[j].time)
    BY TicksType, ReplayAssumption
  <1>2. AsOf = ticks[Len(ticks)].time /\ Len(ticks) \in DOMAIN ticks
    BY <1>1 DEF AsOf, Last
  <1>3. \A i \in DOMAIN ticks : SessionDate(ticks[i].time) <= LastDate
    <2> TAKE i \in DOMAIN ticks
    <2>1. i = Len(ticks) \/ i < Len(ticks)
      BY <1>1
    <2> QED
      BY <1>1, <1>2, <2>1 DEF LastDate
  <1> QED
    BY <1>1, <1>2, <1>3

(* A line of a tick does to the fold what its event did to the counters.   *)
LEMMA LineCounts ==
  ASSUME ZonesAgree, ticks \in Streams, events \in Seq(Lines),
         NEW t \in DOMAIN ticks, NEW e \in Lines, e.time = ticks[t].time,
         NEW r \in RiskStates, NEW today \in BOOLEAN,
         today <=> SessionDate(ticks[t].time) = LastDate,
         Agree(RecoverLines(events, AsOf), r, today)
  PROVE  /\ e.event = "BUY_FILLED" =>
              Agree(RecoverLines(Append(events, e), AsOf), CountTrade(r), today)
         /\ e.event = "POSITION_CLOSED" =>
              Agree(RecoverLines(Append(events, e), AsOf), RecordClose(r, e.pnl), today)
         /\ e.event = "REJECT" =>
              Agree(RecoverLines(Append(events, e), AsOf), r, today)
  <1>1. PICK f \in FoldStates : f = RecoverLines(events, AsOf)
    BY RecoverLinesType
  <1>2. RecoverLines(Append(events, e), AsOf) = RecoverLine(f, e, AsOf)
    BY <1>1, RecoverOneMore
  <1>3. Agree(f, r, today)
    BY <1>1
  <1>4. /\ DateOf(e.time) = DateOf(AsOf) <=> today
        /\ StampDate(e.time) = StampDate(AsOf) <=> today
    <2>1. /\ DateOf(ticks[t].time) = SessionDate(ticks[t].time)
          /\ StampDate(ticks[t].time) = SessionDate(ticks[t].time)
          /\ DateOf(AsOf) = LastDate /\ StampDate(AsOf) = LastDate
      BY LastTick DEF ZonesAgree, LastDate
    <2> QED
      BY <2>1
  <1>5. /\ f.equity \in Int /\ f.trades \in Nat /\ f.daily \in Int /\ f.streak \in Nat
        /\ r.equity \in Int /\ r.trades \in Nat /\ r.daily \in Int /\ r.streak \in Nat
        /\ e.pnl \in Int
    BY DEF FoldStates, RiskStates, Lines
  <1>6. ASSUME e.event = "BUY_FILLED"
        PROVE  Agree(RecoverBuy(f, e, AsOf), CountTrade(r), today)
    <2>1. PICK g \in FoldStates : g = RecoverBuy(f, e, AsOf)
      BY RecoverBuyType
    <2>2. PICK c : c = CountTrade(r)
      OBVIOUS
    <2>3. /\ c.trades = r.trades + 1 /\ c.equity = r.equity /\ c.streak = r.streak
          /\ c.daily = r.daily /\ c.dayStart = r.dayStart
      BY <2>2, CountTradeType
    <2>4. CASE today
      <3>1. /\ g.begun /\ g.trades = f.trades + 1 /\ g.equity = f.equity
            /\ g.daily = f.daily /\ g.streak = f.streak /\ g.dayStart = Begun(f).dayStart
        BY <1>4, <2>1, <2>4, RecoverBuyType
      <3>2. Begun(g).dayStart = g.dayStart
        BY <3>1, BegunType
      <3>3. Agree(g, c, today)
        BY <1>3, <2>3, <2>4, <3>1, <3>2 DEF Agree
      <3> QED
        BY <2>1, <2>2, <3>3
    <2>5. CASE ~today
      <3>1. g = f
        BY <1>4, <2>1, <2>5, RecoverBuyType
      <3>2. Agree(g, c, today)
        BY <1>3, <2>3, <2>5, <3>1 DEF Agree
      <3> QED
        BY <2>1, <2>2, <3>2
    <2> QED
      BY <2>4, <2>5
  <1>7. ASSUME e.event = "POSITION_CLOSED"
        PROVE  Agree(RecoverClose(f, e, AsOf), RecordClose(r, e.pnl), today)
    <2>1. PICK g \in FoldStates : g = RecoverClose(f, e, AsOf)
      BY <1>5, RecoverCloseType
    <2>2. PICK p \in Int : p = e.pnl
      BY <1>5
    <2>3. PICK c : c = RecordClose(r, p)
      OBVIOUS
    <2>4. /\ c.equity = r.equity + p /\ c.streak = Streak(r.streak, p)
          /\ c.daily = r.daily + p /\ c.trades = r.trades /\ c.dayStart = r.dayStart
      BY <2>3, RecordCloseType
    <2>5. g.equity = f.equity + p /\ g.streak = Streak(f.streak, p) /\ g.trades = f.trades
      BY <1>5, <2>1, <2>2, RecoverCloseType
    <2>6. CASE today
      <3>1. g.begun /\ g.daily = f.daily + p /\ g.dayStart = Begun(f).dayStart
        <4>1. DateOf(e.time) = DateOf(AsOf) /\ StampDate(e.time) = StampDate(AsOf)
          BY <1>4, <2>6
        <4>2. e.pnl \in Int
          BY <1>5
        <4> QED
          BY <2>1, <2>2, <4>1, <4>2, RecoverCloseType
      <3>2. Begun(g).dayStart = g.dayStart
        BY <3>1, BegunType
      <3>3. Agree(g, c, today)
        BY <1>3, <2>4, <2>5, <2>6, <3>1, <3>2 DEF Agree
      <3> QED
        BY <2>1, <2>2, <2>3, <3>3
    <2>7. CASE ~today
      <3>1. g.begun = f.begun /\ g.daily = f.daily
        BY <1>4, <1>5, <2>1, <2>7, RecoverCloseType
      <3>2. Agree(g, c, today)
        BY <1>3, <2>4, <2>5, <2>7, <3>1 DEF Agree
      <3> QED
        BY <2>1, <2>2, <2>3, <3>2
    <2> QED
      BY <2>6, <2>7
  <1>8. /\ e.event = "BUY_FILLED" => RecoverLine(f, e, AsOf) = RecoverBuy(f, e, AsOf)
        /\ e.event = "POSITION_CLOSED" => RecoverLine(f, e, AsOf) = RecoverClose(f, e, AsOf)
        /\ e.event = "REJECT" => RecoverLine(f, e, AsOf) = f
    BY DEF RecoverLine
  <1> QED
    BY <1>2, <1>3, <1>6, <1>7, <1>8

(* A new day: what recovery has not counted is what is reset to nothing.   *)
LEMMA DayBegins ==
  ASSUME NEW f \in FoldStates, NEW r \in RiskStates, Agree(f, r, FALSE),
         NEW today \in BOOLEAN
  PROVE  Agree(f, ResetDay(r), today)
  <1>1. PICK c : c = ResetDay(r)
    OBVIOUS
  <1>2. /\ c.equity = r.equity /\ c.streak = r.streak /\ c.daily = 0 /\ c.trades = 0
        /\ c.dayStart = r.equity
    BY <1>1, ResetDayType
  <1>3. Begun(f).dayStart = f.equity
    BY BegunType DEF Agree
  <1>4. Agree(f, c, today)
    BY <1>2, <1>3 DEF Agree
  <1> QED
    BY <1>1, <1>4

LEMMA FoldAtStart == Init => FoldInv
  <1> SUFFICES ASSUME Init PROVE FoldInv
    OBVIOUS
  <1>1. events = <<>> /\ risk = NewRisk /\ events \in Seq(Lines)
    BY DEF Init
  <1>2. RecoverLines(events, AsOf) = RecoverStart
    BY <1>1, RecoverLinesType
  <1>3. Begun(RecoverStart).dayStart = StartingEquity
    BY RecoverStartType, BegunType DEF RecoverStart
  <1>4. Agree(RecoverStart, NewRisk, Session = LastDate)
    BY <1>3 DEF Agree, RecoverStart, NewRisk
  <1> QED
    BY <1>1, <1>2, <1>4 DEF FoldInv

(* A step within a session that writes one line or none.                   *)
LEMMA SessionGoesOn ==
  ASSUME ZonesAgree, IInv, FoldInv, Running, UNCHANGED <<inputs, strayed>>,
         Session' = Session,
         \/ UNCHANGED <<events, risk>>
         \/ \E t \in DOMAIN ticks, e \in Lines :
              /\ SessionDate(ticks[t].time) = Session /\ e.time = ticks[t].time
              /\ events' = Append(events, e)
              /\ \/ e.event = "BUY_FILLED" /\ risk' = CountTrade(risk)
                 \/ e.event = "POSITION_CLOSED" /\ risk' = RecordClose(risk, e.pnl)
                 \/ e.event = "REJECT" /\ risk' = risk
  PROVE  FoldInv'
  <1>1. ticks' = ticks /\ strayed' = strayed
    BY DEF inputs
  <1>2. AsOf' = AsOf /\ LastDate' = LastDate
    BY <1>1 DEF AsOf, LastDate, Last
  <1> SUFFICES ASSUME ~strayed
               PROVE  Agree(RecoverLines(events', AsOf), risk', Session = LastDate)
    BY <1>1, <1>2 DEF FoldInv
  <1>3. PICK today \in BOOLEAN : today = (Session = LastDate)
    OBVIOUS
  <1>4. Agree(RecoverLines(events, AsOf), risk, today)
    BY <1>3 DEF FoldInv
  <1>5. CASE UNCHANGED <<events, risk>>
    BY <1>3, <1>4, <1>5
  <1>6. CASE ~UNCHANGED <<events, risk>>
    <2>1. PICK t \in DOMAIN ticks, e \in Lines :
              /\ SessionDate(ticks[t].time) = Session /\ e.time = ticks[t].time
              /\ events' = Append(events, e)
              /\ \/ e.event = "BUY_FILLED" /\ risk' = CountTrade(risk)
                 \/ e.event = "POSITION_CLOSED" /\ risk' = RecordClose(risk, e.pnl)
                 \/ e.event = "REJECT" /\ risk' = risk
      BY <1>6
    <2>2. /\ ticks \in Streams /\ events \in Seq(Lines) /\ risk \in RiskStates
          /\ today <=> SessionDate(ticks[t].time) = LastDate
      BY <1>3, <2>1 DEF IInv, ControlInv, TypeOK
    <2>3. /\ e.event = "BUY_FILLED" =>
              Agree(RecoverLines(Append(events, e), AsOf), CountTrade(risk), today)
          /\ e.event = "POSITION_CLOSED" =>
              Agree(RecoverLines(Append(events, e), AsOf), RecordClose(risk, e.pnl), today)
          /\ e.event = "REJECT" =>
              Agree(RecoverLines(Append(events, e), AsOf), risk, today)
      BY <1>4, <2>1, <2>2, LineCounts
    <2> QED
      BY <1>3, <2>1, <2>3
  <1> QED
    BY <1>5, <1>6

LEMMA TurnCounts ==
  ASSUME ZonesAgree, IInv, FoldInv, SubmitTurn
  PROVE  FoldInv'
  <1>1. /\ pc = "intents" /\ Turns # {} /\ pc' \in {"intents", "process"}
        /\ UNCHANGED <<inputs, at, next, previous, crashes, strayed>>
        /\ ticks' = ticks
    BY DEF SubmitTurn, inputs
  <1>2. PICK n : n = Min(Turns)
    OBVIOUS
  <1>3. IF SubmitAllowed(n)
          THEN /\ risk' = CountTrade(risk)
               /\ events' = Append(events, Line("BUY_FILLED", Tick.time, n, 0, None))
          ELSE /\ events' = Append(events, Line("REJECT", Tick.time, n, 0, None))
               /\ risk' = risk
    BY <1>2 DEF SubmitTurn
  <1>4. n \in Nat /\ at \in DOMAIN ticks /\ Tick.time \in Int
    <2>1. pending \subseteq Nat
      BY IntentsType DEF IInv, TypeOK, ControlInv
    <2>2. Turns \in SUBSET Nat
      BY <2>1 DEF Turns
    <2>3. n \in Turns
      BY <1>1, <1>2, <2>2, MinIsLeast
    <2>4. at <= Len(ticks)
      BY <1>1 DEF IInv, ControlInv
    <2> QED
      BY <2>2, <2>3, <2>4, TickAtHand
  <1>5. Session = SessionDate(ticks[at].time) /\ Session' = Session
    BY <1>1 DEF Session
  <1>6. PICK kind \in {"BUY_FILLED", "REJECT"} :
          /\ events' = Append(events, Line(kind, Tick.time, n, 0, None))
          /\ kind = "BUY_FILLED" => risk' = CountTrade(risk)
          /\ kind = "REJECT" => risk' = risk
    BY <1>3
  <1>7. PICK e : e = Line(kind, Tick.time, n, 0, None)
    OBVIOUS
  <1>8. e \in Lines /\ e.event = kind /\ e.time = ticks[at].time
    BY <1>4, <1>7 DEF Line, Lines, LineKinds, Tick
  <1>9. Running /\ events' = Append(events, e)
    BY <1>1, <1>6, <1>7 DEF Running
  <1> QED
    BY <1>1, <1>4, <1>5, <1>6, <1>8, <1>9, SessionGoesOn

LEMMA ProcessCounts ==
  ASSUME ZonesAgree, IInv, FoldInv, Process
  PROVE  FoldInv'
  <1>1. /\ pc = "process" /\ pc' = "tick" /\ previous' = at /\ ticks' = ticks
        /\ UNCHANGED <<inputs, strayed>>
    BY DEF Process, inputs
  <1>2. /\ at \in DOMAIN ticks /\ Tick.time \in Int /\ at # None
    <2>1. at <= Len(ticks)
      BY <1>1 DEF IInv, ControlInv
    <2>2. at \in DOMAIN ticks /\ Tick.time \in Int
      BY <2>1, TickAtHand
    <2>3. at \in Int
      BY <2>2, TicksType DEF IInv, ControlInv
    <2> QED
      BY <2>2, <2>3, RiskAssumption
  <1>3. Session = SessionDate(ticks[at].time) /\ Session' = Session /\ Running
    BY <1>1, <1>2 DEF Session, Running
  <1>4. CASE UNCHANGED <<position, risk, events>>
    BY <1>1, <1>3, <1>4, SessionGoesOn
  <1>5. CASE ~UNCHANGED <<position, risk, events>>
    <2>1. /\ position # None
          /\ \/ CloseAt(Tick.time, position.stop, "LOSS")
             \/ CloseAt(Tick.time, position.target, "WIN")
      BY <1>5 DEF Process
    <2>2. position.stop \in Int /\ position.target \in Int
      BY <2>1 DEF IInv, ControlInv, Positions
    <2>3. PICK price \in Int, result \in {"WIN", "LOSS", "SESSION_END"} :
            CloseAt(Tick.time, price, result)
      BY <2>1, <2>2
    <2>4. PICK e : e = Line("POSITION_CLOSED", Tick.time, position.intent,
                            price - position.entry, result)
      OBVIOUS
    <2>5. events' = Append(events, e) /\ risk' = RecordClose(risk, price - position.entry)
      BY <2>3, <2>4 DEF CloseAt
    <2>6. e \in Lines
      <3>1. \A i \in DOMAIN events : events[i].time <= Tick.time
        BY <1>1 DEF IInv, TimeInv, Tick
      <3> QED
        BY <1>1, <1>2, <2>1, <2>4, <2>5, <3>1, CloseKeeps
    <2>7. /\ e.event = "POSITION_CLOSED" /\ e.time = ticks[at].time
          /\ e.pnl = price - position.entry
      BY <2>4 DEF Line, Tick
    <2> QED
      BY <1>1, <1>2, <1>3, <2>5, <2>6, <2>7, SessionGoesOn
  <1> QED
    BY <1>4, <1>5

(* The boundary is of an earlier date: what it closes counts for none of   *)
(* the last date's counters.                                               *)
LEMMA TickCounts ==
  ASSUME ZonesAgree, IInv, FoldInv, NextTick
  PROVE  FoldInv'
  <1>1. /\ pc = "tick" /\ at <= Len(ticks) /\ pc' \in {"intents", "process"}
        /\ UNCHANGED <<inputs, at, previous, crashes, strayed>> /\ ticks' = ticks
    BY DEF NextTick, inputs
  <1>2. /\ at \in DOMAIN ticks /\ Tick.time \in Int
        /\ previous # None => /\ previous \in DOMAIN ticks /\ previous = at - 1
                              /\ ticks[previous].time \in Int
                              /\ ticks[previous].price \in Int
    BY <1>1, TickAtHand DEF IInv, ControlInv, Running
  <1>3. Running /\ Session' = SessionDate(ticks[at].time)
    BY <1>1 DEF Session, Running
  <1>4. CASE ~Boundary
    <2>1. UNCHANGED <<position, risk, events>>
      BY <1>4 DEF NextTick
    <2>2. Session' = Session
      BY <1>1, <1>3, <1>4 DEF Boundary, Session, Tick
    <2> QED
      BY <1>1, <1>3, <2>1, <2>2, SessionGoesOn
  <1>5. CASE Boundary
    <2>1. /\ previous # None /\ Session = SessionDate(ticks[previous].time)
          /\ SessionDate(ticks[previous].time) # SessionDate(ticks[at].time)
      BY <1>1, <1>5 DEF Boundary, Session, Tick
    <2>2. Session # LastDate
      <3>1. ticks \in Streams /\ at \in Int
        BY <1>2, TicksType DEF IInv, ControlInv
      <3>2. /\ SessionDate(ticks[previous].time) <= SessionDate(ticks[at].time)
            /\ SessionDate(ticks[at].time) <= LastDate
            /\ SessionDate(ticks[previous].time) \in Int
            /\ SessionDate(ticks[at].time) \in Int
            /\ LastDate \in Int
        <4>1. previous < at /\ previous \in DOMAIN ticks
          BY <1>2, <2>1, <3>1
        <4>2. LastDate \in Int
          BY <3>1, LastTick DEF LastDate
        <4> QED
          BY <1>2, <3>1, <4>1, <4>2, LastTick
      <3> QED
        BY <2>1, <3>2
    <2>3. AsOf' = AsOf /\ LastDate' = LastDate
      BY <1>1 DEF AsOf, LastDate, Last
    <2> SUFFICES ASSUME ~strayed
                 PROVE  Agree(RecoverLines(events', AsOf), risk', Session' = LastDate)
      BY <1>1, <2>3 DEF FoldInv
    <2>4. PICK today \in BOOLEAN : today = (Session' = LastDate)
      OBVIOUS
    <2>5. /\ Agree(RecoverLines(events, AsOf), risk, FALSE)
          /\ risk \in RiskStates /\ events \in Seq(Lines) /\ ticks \in Streams
      BY <1>3, <2>2 DEF FoldInv, IInv, TypeOK, ControlInv
    <2>6. CASE position = None
      <3>1. events' = events /\ risk' = ResetDay(risk)
        BY <1>5, <2>6 DEF NextTick
      <3>2. PICK f \in FoldStates : f = RecoverLines(events, AsOf)
        BY <2>5, RecoverLinesType
      <3>3. Agree(f, ResetDay(risk), today)
        BY <2>5, <3>2, DayBegins
      <3> QED
        BY <2>4, <3>1, <3>2, <3>3
    <2>7. CASE position # None
      <3>1. PICK pnl : pnl = ticks[previous].price - position.entry
        OBVIOUS
      <3>2. PICK e : e = Line("POSITION_CLOSED", ticks[previous].time,
                              position.intent, pnl, "SESSION_END")
        OBVIOUS
      <3>3. events' = Append(events, e) /\ risk' = ResetDay(RecordClose(risk, pnl))
        BY <1>5, <2>7, <3>1, <3>2 DEF NextTick
      <3>4. e \in Lines /\ pnl \in Int
        <4>1. \A i \in DOMAIN events : events[i].time <= ticks[previous].time
          BY <1>1, <2>1 DEF IInv, TimeInv
        <4> QED
          BY <1>1, <1>2, <2>1, <2>7, <3>1, <3>2, <3>3, <4>1, CloseKeeps
      <3>5. e.event = "POSITION_CLOSED" /\ e.time = ticks[previous].time /\ e.pnl = pnl
        BY <3>2 DEF Line
      <3>6. Agree(RecoverLines(events', AsOf), RecordClose(risk, pnl), FALSE)
        <4>1. FALSE <=> SessionDate(ticks[previous].time) = LastDate
          BY <2>1, <2>2
        <4>2. previous \in DOMAIN ticks
          BY <1>2, <2>1
        <4> QED
          BY <2>5, <3>3, <3>4, <3>5, <4>1, <4>2, LineCounts
      <3>7. RecordClose(risk, pnl) \in RiskStates
        BY <2>5, <3>4, RecordCloseType
      <3>8. PICK f \in FoldStates : f = RecoverLines(events', AsOf)
        <4>1. events' \in Seq(Lines)
          BY <2>5, <3>3, <3>4
        <4> QED
          BY <4>1, RecoverLinesType
      <3>9. Agree(f, ResetDay(RecordClose(risk, pnl)), today)
        BY <3>6, <3>7, <3>8, DayBegins
      <3> QED
        BY <2>4, <3>3, <3>8, <3>9
    <2> QED
      BY <2>6, <2>7
  <1> QED
    BY <1>4, <1>5

(* A clean resume is on the last date, and takes what recovery counted.    *)
LEMMA ResumeCounts ==
  ASSUME IInv, Resume
  PROVE  FoldInv'
  <1>1. /\ pc' = "tick" /\ at' = FirstTick /\ previous' = previous /\ events' = events
        /\ pc = "off" /\ risk' = RecoverRisk(events, AsOf) /\ ticks' = ticks
        /\ (strayed' = (strayed \/ ~CleanResume))
    BY DEF Resume, inputs, AsOf
  <1>2. AsOf' = AsOf /\ LastDate' = LastDate
    BY <1>1 DEF AsOf, LastDate, Last
  <1> SUFFICES ASSUME CleanResume
               PROVE  Agree(RecoverLines(events, AsOf), risk', Session' = LastDate)
    BY <1>1, <1>2 DEF FoldInv
  <1>3. Session' = LastDate
    BY <1>1 DEF Session, LastDate, AsOf, CleanResume, IInv, ControlInv
  <1>4. PICK f \in FoldStates : f = RecoverLines(events, AsOf)
    BY RecoverLinesType DEF IInv, ControlInv
  <1>5. risk' = [equity |-> f.equity, trades |-> f.trades, daily |-> f.daily,
                 streak |-> f.streak, dayStart |-> Begun(f).dayStart]
    BY <1>1, <1>4 DEF RecoverRisk
  <1>6. Agree(f, risk', TRUE)
    BY <1>5 DEF Agree
  <1> QED
    BY <1>3, <1>4, <1>6

LEMMA CountersAgree ==
  ASSUME ZonesAgree
  PROVE  Spec => []FoldInv
  <1>1. IInv /\ FoldInv /\ [Next]_vars => FoldInv'
    <2> SUFFICES ASSUME IInv, FoldInv, [Next]_vars PROVE FoldInv'
      OBVIOUS
    <2>1. CASE NoMoreTurns
      <3>1. Running /\ UNCHANGED <<inputs, events, risk, strayed>> /\ Session' = Session
        BY <2>1 DEF NoMoreTurns, Running, Session, inputs
      <3> QED
        BY <3>1, SessionGoesOn
    <2>2. CASE Finish
      BY <2>2 DEF Finish, FoldInv, Running
    <2>3. CASE Crash
      BY <2>3 DEF Crash, FoldInv, Running
    <2>4. CASE UNCHANGED vars
      BY <2>4 DEF vars, inputs, FoldInv, Running, AsOf, LastDate, Last, Session
    <2>5. CASE Operator
      BY <2>5 DEF Operator, inputs, FoldInv, Running, AsOf, LastDate, Last, Session
    <2> QED
      BY <2>1, <2>2, <2>3, <2>4, <2>5, TickCounts, TurnCounts, ProcessCounts, ResumeCounts
         DEF Next
  <1> QED
    BY FoldAtStart, <1>1, Inductive, PTL DEF Spec

(* A restart rebuilds the counters the dead process held: on the last date *)
(* of the ticks recovery finds equity, streak, trades, loss and starting   *)
(* equity of the day in the lines, provided it dates them as the replay    *)
(* dates its ticks (safety.py:35-92 against risk.py:45-58).                *)
THEOREM RecoveryAgrees ==
  ASSUME ZonesAgree
  PROVE  Spec => []RecoveredAgrees
  <1>1. IInv /\ FoldInv => RecoveredAgrees
    <2> SUFFICES ASSUME IInv, FoldInv, pc \in {"tick", "process"}, ~strayed,
                        previous # None,
                        SessionDate(ticks[previous].time) = SessionDate(Last(ticks).time)
                 PROVE  RecoverRisk(events, AsOf) = risk
      BY DEF RecoveredAgrees, AsOf
    <2>1. Session = LastDate
      <3>1. CASE pc = "tick"
        BY <3>1 DEF Session, LastDate, AsOf
      <3>2. CASE pc = "process"
        <4>1. at <= Len(ticks) /\ ticks \in Streams /\ previous = at - 1
          BY <3>2 DEF IInv, ControlInv, Running
        <4>2. /\ at \in DOMAIN ticks /\ previous \in DOMAIN ticks /\ previous < at
          BY <4>1, TickAtHand, TicksType
        <4>3. /\ SessionDate(ticks[previous].time) <= SessionDate(ticks[at].time)
              /\ SessionDate(ticks[at].time) <= LastDate
              /\ SessionDate(ticks[previous].time) \in Int
              /\ SessionDate(ticks[at].time) \in Int
          BY <4>1, <4>2, LastTick
        <4>4. SessionDate(ticks[previous].time) = LastDate
          BY DEF LastDate, AsOf
        <4>5. Session = SessionDate(ticks[at].time)
          BY <3>2 DEF Session
        <4> QED
          BY <4>3, <4>4, <4>5
      <3> QED
        BY <3>1, <3>2
    <2>2. PICK f \in FoldStates : f = RecoverLines(events, AsOf)
      BY RecoverLinesType DEF IInv, ControlInv
    <2>3. Agree(f, risk, TRUE)
      BY <2>1, <2>2 DEF FoldInv, Running
    <2>4. RecoverRisk(events, AsOf) =
            [equity |-> f.equity, trades |-> f.trades, daily |-> f.daily,
             streak |-> f.streak, dayStart |-> Begun(f).dayStart]
      BY <2>2 DEF RecoverRisk
    <2>5. risk \in RiskStates
      BY DEF IInv, TypeOK
    <2>6. risk = [equity |-> risk.equity, trades |-> risk.trades, daily |-> risk.daily,
                  streak |-> risk.streak, dayStart |-> risk.dayStart]
      BY <2>5 DEF RiskStates
    <2> QED
      BY <2>3, <2>4, <2>6 DEF Agree
  <1> QED
    BY <1>1, Inductive, CountersAgree, PTL

-----------------------------------------------------------------------------
(* The trades as the documents describe them: TradeAt, Chances, Consider   *)
(* and the limits, for all ticks and intents.                              *)

(* What the documents call the trades of a replay, and what the counters   *)
(* say of them.                                                            *)
Trades == [intent : Nat, entry : Nat, exit : Nat, pnl : Int]

Days(d) == {j \in DOMAIN ticks : SessionDate(ticks[j].time) = d}

Hits(n, k) == ticks[k].price <= intents[n].stop \/ ticks[k].price >= intents[n].target

(* A bounded set of naturals has a greatest element.                       *)
LEMMA MaxIsGreatest ==
  ASSUME NEW n \in Nat, NEW S \in SUBSET (0 .. n), S # {}
  PROVE  Max(S) \in S /\ \A y \in S : y <= Max(S)
  <1> DEFINE T == {k \in 0 .. n : n - k \in S}
  <1>1. T \in SUBSET Nat /\ T # {}
    <2>1. PICK y \in S : TRUE
      OBVIOUS
    <2>2. n - y \in 0 .. n /\ n - (n - y) = y
      BY <2>1
    <2>3. n - y \in T
      BY <2>1, <2>2
    <2>4. T \subseteq 0 .. n
      OBVIOUS
    <2>5. T \subseteq Nat
      BY <2>4
    <2> HIDE DEF T
    <2> QED
      BY <2>3, <2>5
  <1>2. PICK x \in T : \A y \in T : x <= y
    <2> HIDE DEF T
    <2> QED
      BY <1>1, LeastNatural
  <1>3. n - x \in S /\ \A y \in S : n - x >= y
    <2>1. \A y \in S : n - y \in T /\ y \in 0 .. n
      OBVIOUS
    <2>2. \A y \in S : x <= n - y
      BY <1>2, <2>1
    <2> QED
      BY <1>2, <2>1, <2>2
  <1>4. \E z \in S : \A y \in S : z >= y
    BY <1>3
  <1>5. Max(S) \in S /\ \A y \in S : Max(S) >= y
    BY <1>4 DEF Max
  <1> QED
    BY <1>5

(* The rest of what an intent says.                                        *)
LEMMA IntentLevels ==
  ASSUME intents \in IntentLists, NEW n \in DOMAIN intents
  PROVE  /\ intents[n].expiry \in Int /\ intents[n].trigger \in Int
         /\ intents[n].stop \in Int /\ intents[n].target \in Int
         /\ intents[n].time \in Int /\ n \in Nat /\ n \in 1 .. Len(intents)
         /\ SessionDate(intents[n].time) \in Int
  <1> DEFINE T == [time : Int, expiry : Int, trigger : Int, stop : Int, target : Int]
  <1>1. intents \in Seq(T) /\ SessionDate(intents[n].time) \in Int
    BY ReplayAssumption
  <1>2. intents[n] \in T
    <2> HIDE DEF T
    <2> QED
      BY <1>1, ElementsOf
  <1>3. n \in Nat /\ n \in 1 .. Len(intents)
    BY IntentsType
  <1> QED
    BY <1>1, <1>2, <1>3

(* Where a trade entered at tick e ends.                                   *)
LEMMA TradeAtType ==
  ASSUME ticks \in Streams, intents \in IntentLists,
         NEW n \in DOMAIN intents, NEW e \in DOMAIN ticks
  PROVE  /\ TradeAt(n, e) \in Trades /\ TradeAt(n, e).intent = n
         /\ TradeAt(n, e).entry = e
         /\ TradeAt(n, e).exit \in DOMAIN ticks /\ e <= TradeAt(n, e).exit
  <1> DEFINE later == {k \in OnDateOf(ticks[e].time) : k >= e}
             hits  == {k \in later : k > e /\ (\/ ticks[k].price <= intents[n].stop
                                               \/ ticks[k].price >= intents[n].target)}
             exit  == IF hits = {} THEN Max(later) ELSE Min(hits)
             price == IF hits = {} THEN ticks[exit].price
                      ELSE IF ticks[exit].price <= intents[n].stop
                           THEN intents[n].stop ELSE intents[n].target
  <1>1. /\ Len(ticks) \in Nat /\ DOMAIN ticks = 1 .. Len(ticks)
        /\ \A i \in DOMAIN ticks : ticks[i].price \in Int
    BY TicksType
  <1>2. later \in SUBSET (0 .. Len(ticks)) /\ later \subseteq DOMAIN ticks /\ e \in later
        /\ hits \subseteq later /\ \A k \in later : e <= k
    BY <1>1 DEF OnDateOf
  <1>3. exit \in later
    <2>1. later # {} => Max(later) \in later
      <3> HIDE DEF later
      <3> QED
        BY <1>1, <1>2, MaxIsGreatest
    <2>2. hits # {} => Min(hits) \in hits
      <3>1. hits \in SUBSET Nat
        BY <1>1, <1>2
      <3> HIDE DEF hits
      <3> QED
        BY <3>1, MinIsLeast
    <2> HIDE DEF hits, later
    <2> QED
      BY <1>2, <2>1, <2>2
  <1>4. price \in Int
    <2>1. exit \in DOMAIN ticks /\ intents[n].stop \in Int /\ intents[n].target \in Int
      BY <1>2, <1>3, IntentLevels
    <2> HIDE DEF exit, hits
    <2> QED
      BY <1>1, <2>1
  <1>5. TradeAt(n, e) = [intent |-> n, entry |-> e, exit |-> exit,
                         pnl |-> price - ticks[e].price]
    BY DEF TradeAt
  <1>6. exit \in DOMAIN ticks /\ e <= exit /\ exit \in Nat /\ n \in Nat /\ e \in Nat
        /\ ticks[e].price \in Int
    <2> HIDE DEF exit, later, hits
    <2> QED
      BY <1>1, <1>2, <1>3, IntentLevels
  <1> HIDE DEF exit, price, later, hits
  <1> QED
    BY <1>4, <1>5, <1>6 DEF Trades

(* It ends at the first tick of its date that touches its stop or target.  *)
LEMMA TradeAtHit ==
  ASSUME ticks \in Streams, intents \in IntentLists,
         NEW n \in DOMAIN intents, NEW e \in DOMAIN ticks, NEW x \in DOMAIN ticks,
         e < x, SessionDate(ticks[x].time) = SessionDate(ticks[e].time),
         Hits(n, x), \A k \in e + 1 .. x - 1 : ~Hits(n, k)
  PROVE  TradeAt(n, e) =
           [intent |-> n, entry |-> e, exit |-> x,
            pnl |-> (IF ticks[x].price <= intents[n].stop
                     THEN intents[n].stop ELSE intents[n].target) - ticks[e].price]
  <1> DEFINE later == {k \in OnDateOf(ticks[e].time) : k >= e}
             hits  == {k \in later : k > e /\ (\/ ticks[k].price <= intents[n].stop
                                               \/ ticks[k].price >= intents[n].target)}
             exit  == IF hits = {} THEN Max(later) ELSE Min(hits)
  <1>1. Len(ticks) \in Nat /\ DOMAIN ticks = 1 .. Len(ticks)
    BY TicksType
  <1>2. x \in hits
    BY <1>1 DEF OnDateOf, Hits
  <1>3. \A k \in hits : k \in Nat /\ x <= k
    <2> TAKE k \in hits
    <2>1. k \in DOMAIN ticks /\ k > e /\ Hits(n, k)
      BY DEF OnDateOf, Hits
    <2>2. ~(k < x)
      <3> SUFFICES ASSUME k < x PROVE FALSE
        OBVIOUS
      <3>1. k \in e + 1 .. x - 1
        BY <1>1, <2>1
      <3> QED
        BY <2>1, <3>1
    <2> QED
      BY <1>1, <2>1, <2>2
  <1>4. Min(hits) = x
    <2>1. hits \in SUBSET Nat /\ hits # {}
      BY <1>2, <1>3
    <2> HIDE DEF hits
    <2>2. Min(hits) \in hits /\ \A y \in hits : Min(hits) <= y
      BY <2>1, MinIsLeast
    <2> QED
      BY <1>2, <1>3, <2>1, <2>2
  <1>5. exit = x /\ hits # {}
    <2> HIDE DEF hits
    <2> QED
      BY <1>2, <1>4
  <1>6. TradeAt(n, e) = [intent |-> n, entry |-> e, exit |-> exit,
           pnl |-> (IF hits = {} THEN ticks[exit].price
                    ELSE IF ticks[exit].price <= intents[n].stop
                         THEN intents[n].stop ELSE intents[n].target) - ticks[e].price]
    BY DEF TradeAt
  <1> HIDE DEF exit, hits, later
  <1> QED
    BY <1>5, <1>6

(* If none does it ends at the last tick of the date.                      *)
LEMMA TradeAtEnd ==
  ASSUME ticks \in Streams, intents \in IntentLists,
         NEW n \in DOMAIN intents, NEW e \in DOMAIN ticks, NEW x \in DOMAIN ticks,
         e <= x, SessionDate(ticks[x].time) = SessionDate(ticks[e].time),
         \A k \in e + 1 .. x : ~Hits(n, k),
         \A k \in DOMAIN ticks : x < k =>
           SessionDate(ticks[k].time) # SessionDate(ticks[e].time)
  PROVE  TradeAt(n, e) = [intent |-> n, entry |-> e, exit |-> x,
                          pnl |-> ticks[x].price - ticks[e].price]
  <1> DEFINE later == {k \in OnDateOf(ticks[e].time) : k >= e}
             hits  == {k \in later : k > e /\ (\/ ticks[k].price <= intents[n].stop
                                               \/ ticks[k].price >= intents[n].target)}
             exit  == IF hits = {} THEN Max(later) ELSE Min(hits)
  <1>1. Len(ticks) \in Nat /\ DOMAIN ticks = 1 .. Len(ticks)
    BY TicksType
  <1>2. x \in later /\ \A k \in later : k \in 0 .. Len(ticks) /\ k <= x
    BY <1>1 DEF OnDateOf
  <1>3. hits = {}
    <2> SUFFICES ASSUME NEW k \in hits PROVE FALSE
      OBVIOUS
    <2>1. k \in DOMAIN ticks /\ k > e /\ Hits(n, k) /\ k \in later
      BY DEF OnDateOf, Hits
    <2>2. k \in e + 1 .. x
      <3> HIDE DEF later, hits
      <3> QED
        BY <1>1, <1>2, <2>1
    <2> QED
      BY <2>1, <2>2
  <1>4. Max(later) = x
    <2>1. later \in SUBSET (0 .. Len(ticks)) /\ later # {}
      BY <1>2
    <2> HIDE DEF later
    <2>2. Max(later) \in later /\ \A y \in later : y <= Max(later)
      BY <1>1, <2>1, MaxIsGreatest
    <2> QED
      BY <1>1, <1>2, <2>1, <2>2
  <1>5. TradeAt(n, e) = [intent |-> n, entry |-> e, exit |-> exit,
           pnl |-> (IF hits = {} THEN ticks[exit].price
                    ELSE IF ticks[exit].price <= intents[n].stop
                         THEN intents[n].stop ELSE intents[n].target) - ticks[e].price]
    BY DEF TradeAt
  <1> HIDE DEF hits, later
  <1> QED
    BY <1>3, <1>4, <1>5

(* A chance is the index of a tick.                                        *)
LEMMA ChancesType ==
  ASSUME ticks \in Streams, NEW n, NEW trades
  PROVE  Chances(n, trades) \subseteq DOMAIN ticks /\ Chances(n, trades) \in SUBSET Nat
  BY TicksType DEF Chances, OnDateOf

(* An intent adds a trade or none.                                         *)
LEMMA ConsiderType ==
  ASSUME ticks \in Streams, intents \in IntentLists,
         NEW n \in DOMAIN intents, NEW trades \in Seq(Trades)
  PROVE  Consider(n, trades) \in Seq(Trades)
  <1>1. CASE Chances(n, trades) = {}
    BY <1>1 DEF Consider
  <1>2. CASE Chances(n, trades) # {}
    <2>1. PICK j : j = Min(Chances(n, trades))
      OBVIOUS
    <2>2. j \in DOMAIN ticks
      BY <1>2, <2>1, ChancesType, MinIsLeast
    <2>3. TradeAt(n, j) \in Trades
      BY <2>2, TradeAtType
    <2>4. Consider(n, trades) \in {trades, Append(trades, TradeAt(n, j))}
      BY <1>2, <2>1 DEF Consider
    <2> QED
      BY <2>3, <2>4
  <1> QED
    BY <1>1, <1>2

(* The trades of the first n intents, one intent after the other.          *)
LEMMA TradesAfterSteps ==
  ASSUME ticks \in Streams, intents \in IntentLists
  PROVE  /\ TradesAfter[0] = <<>>
         /\ \A n \in 0 .. Len(intents) : TradesAfter[n] \in Seq(Trades)
         /\ \A n \in 1 .. Len(intents) :
              TradesAfter[n] = Consider(n, TradesAfter[n - 1])
  <1> DEFINE N == Len(intents)
             step == [n \in 1 .. N |-> [t \in Seq(Trades) |-> Consider(n, t)]]
             Goes(f) == f = [n \in 0 .. N |->
                               IF n = 0 THEN <<>> ELSE Consider(n, f[n - 1])]
  <1>0. N \in Nat /\ DOMAIN intents = 1 .. N
    BY IntentsType
  <1>1. PICK f : IsRecursion(f, N, Seq(Trades), <<>>, step)
    <2>1. step \in Steps(N, Seq(Trades))
      BY <1>0, ConsiderType DEF Steps
    <2>2. <<>> \in Seq(Trades)
      OBVIOUS
    <2> HIDE DEF step, N
    <2> QED
      BY <1>0, <2>1, <2>2, RecursionHasSolution
  <1>2. \A n \in 1 .. N : n - 1 \in 0 .. N /\ f[n] = Consider(n, f[n - 1])
    <2> TAKE n \in 1 .. N
    <2>1. n - 1 \in 0 .. N
      BY <1>0
    <2>2. f[n] = step[n][f[n - 1]] /\ f[n - 1] \in Seq(Trades)
      BY <1>1, <2>1 DEF IsRecursion
    <2> QED
      BY <2>1, <2>2
  <1>3. Goes(f)
    BY <1>1, <1>2 DEF IsRecursion
  <1>4. Goes(CHOOSE g : Goes(g))
    BY <1>3
  <1>5. Goes(TradesAfter)
    BY <1>4 DEF TradesAfter
  <1>6. /\ TradesAfter[0] = <<>>
        /\ \A n \in 1 .. N : TradesAfter[n] = Consider(n, TradesAfter[n - 1])
    <2>1. 0 \in 0 .. N /\ 1 .. N \subseteq 0 .. N /\ \A n \in 1 .. N : n # 0
      BY <1>0
    <2> HIDE DEF N
    <2> QED
      BY <1>5, <2>1
  <1>7. AgreeUpTo(N, TradesAfter, f)
    <2>1. f[0] = TradesAfter[0]
      BY <1>1, <1>6 DEF IsRecursion
    <2>2. \A n \in 1 .. N : TradesAfter[n - 1] = f[n - 1] => TradesAfter[n] = f[n]
      BY <1>2, <1>6
    <2> HIDE DEF N
    <2> QED
      BY <1>0, <2>1, <2>2, RecursionIsUnique
  <1>8. \A n \in 0 .. N : TradesAfter[n] \in Seq(Trades)
    BY <1>1, <1>7 DEF AgreeUpTo, IsRecursion
  <1> QED
    BY <1>6, <1>8

(* Intents without a chance leave the trades as they are.                  *)
LEMMA NoChanceNoTrade ==
  ASSUME ticks \in Streams, intents \in IntentLists,
         NEW m \in 0 .. Len(intents), NEW n \in m .. Len(intents),
         \A k \in m + 1 .. n : Chances(k, TradesAfter[m]) = {}
  PROVE  TradesAfter[n] = TradesAfter[m]
  <1>0. Len(intents) \in Nat /\ m \in Nat /\ n \in Nat /\ n - m \in Nat
    BY IntentsType
  <1> DEFINE S == {i \in 0 .. n - m : TradesAfter[m + i] = TradesAfter[m]}
  <1>1. 0 \in S
    BY <1>0
  <1>2. ASSUME NEW i \in 1 .. n - m, i - 1 \in S PROVE i \in S
    <2>1. /\ m + i \in m + 1 .. n /\ m + i \in 1 .. Len(intents)
          /\ (m + i) - 1 = m + (i - 1)
      BY <1>0
    <2>2. TradesAfter[m + i] = Consider(m + i, TradesAfter[m + (i - 1)])
      BY <2>1, TradesAfterSteps
    <2>3. TradesAfter[m + (i - 1)] = TradesAfter[m]
      BY <1>2
    <2>4. TradesAfter[m + i] = TradesAfter[m]
      BY <2>1, <2>2, <2>3 DEF Consider
    <2> QED
      BY <2>4
  <1>3. \A i \in 0 .. n - m : i \in S
    <2> HIDE DEF S
    <2> QED
      BY <1>0, <1>1, <1>2, InductionUpTo
  <1>4. n - m \in S /\ m + (n - m) = n
    BY <1>0, <1>3
  <1> QED
    BY <1>4

-----------------------------------------------------------------------------
(* What one more trade adds to the sums over trades.                       *)
LEMMA PnlAppend ==
  ASSUME NEW trades \in Seq(Trades), NEW t \in Trades, NEW js
  PROVE  /\ PnlOf(trades, js) \in Int
         /\ PnlOf(Append(trades, t), js) =
              PnlOf(trades, js) + (IF t.entry \in js THEN t.pnl ELSE 0)
  <1> DEFINE part(x) == IF x.entry \in js THEN x.pnl ELSE 0
             s == [i \in DOMAIN trades |-> part(trades[i])]
             more == Append(trades, t)
             u == [i \in DOMAIN more |-> part(more[i])]
  <1>1. \A x \in Trades : part(x) \in Int
    BY DEF Trades
  <1>2. /\ Len(trades) \in Nat /\ DOMAIN trades = 1 .. Len(trades)
        /\ \A i \in DOMAIN trades : trades[i] \in Trades
    BY ElementsOf
  <1>3. /\ Len(more) = Len(trades) + 1 /\ DOMAIN more = 1 .. Len(trades) + 1
        /\ more[Len(trades) + 1] = t
        /\ \A i \in 1 .. Len(trades) : more[i] = trades[i]
    OBVIOUS
  <1> HIDE DEF part, more
  <1>4. s \in Seq(Int) /\ Len(s) = Len(trades)
    BY <1>1, <1>2
  <1>5. u = Append(s, part(t))
    <2>1. /\ DOMAIN u = 1 .. Len(trades) + 1 /\ u[Len(trades) + 1] = part(t)
          /\ \A i \in 1 .. Len(trades) : u[i] = part(trades[i])
      BY <1>2, <1>3
    <2>2. u \in Seq(Int) /\ Len(u) = Len(trades) + 1
      <3>1. \A i \in 1 .. Len(trades) + 1 : u[i] \in Int
        <4> TAKE i \in 1 .. Len(trades) + 1
        <4>1. CASE i = Len(trades) + 1
          BY <1>1, <2>1, <4>1
        <4>2. CASE i \in 1 .. Len(trades)
          <5>1. trades[i] \in Trades
            BY <1>2, <4>2
          <5> QED
            BY <1>1, <2>1, <4>2, <5>1
        <4> QED
          BY <1>2, <4>1, <4>2
      <3>2. u = [i \in 1 .. Len(trades) + 1 |-> u[i]]
        BY <1>3
      <3> HIDE DEF u
      <3> QED
        BY <1>2, <2>1, <3>1, <3>2
    <2>3. PICK v : v = Append(s, part(t))
      OBVIOUS
    <2>4. /\ v \in Seq(Int) /\ Len(v) = Len(trades) + 1 /\ v[Len(trades) + 1] = part(t)
          /\ \A i \in 1 .. Len(trades) : v[i] = part(trades[i])
      <3>1. \A i \in 1 .. Len(trades) : s[i] = part(trades[i])
        BY <1>2
      <3>2. part(t) \in Int
        BY <1>1
      <3> HIDE DEF s
      <3> QED
        BY <1>2, <1>4, <2>3, <3>1, <3>2
    <2>5. \A i \in 1 .. Len(trades) + 1 : u[i] = v[i]
      <3> TAKE i \in 1 .. Len(trades) + 1
      <3>1. CASE i = Len(trades) + 1
        BY <2>1, <2>4, <3>1
      <3>2. CASE i \in 1 .. Len(trades)
        BY <2>1, <2>4, <3>2
      <3> QED
        BY <1>2, <3>1, <3>2
    <2> HIDE DEF u, s
    <2>6. u = v
      BY <1>2, <2>2, <2>4, <2>5
    <2> QED
      BY <2>3, <2>6
  <1>6. PnlOf(trades, js) = Total(s)
    BY DEF PnlOf, part
  <1>7. PnlOf(more, js) = Total(u)
    BY DEF PnlOf, part
  <1>8. Total(Append(s, part(t))) = Total(s) + part(t) /\ Total(s) \in Int
    <2>1. part(t) \in Int
      BY <1>1
    <2> HIDE DEF s
    <2> QED
      BY <1>4, <2>1, TotalAppend, TotalType
  <1> HIDE DEF s, u
  <1> QED
    BY <1>5, <1>6, <1>7, <1>8 DEF more, part

(* Trades of other ticks do not count.                                     *)
LEMMA PnlOfNone ==
  ASSUME NEW trades \in Seq(Trades), NEW js,
         \A i \in DOMAIN trades : trades[i].entry \notin js
  PROVE  PnlOf(trades, js) = 0
  <1> DEFINE s == [i \in DOMAIN trades |-> IF trades[i].entry \in js THEN trades[i].pnl ELSE 0]
  <1>1. s \in Seq(Int) /\ \A i \in 1 .. Len(s) : s[i] = 0
    <2>1. Len(trades) \in Nat /\ DOMAIN trades = 1 .. Len(trades)
      BY ElementsOf
    <2>2. s = [i \in 1 .. Len(trades) |-> 0]
      BY <2>1
    <2> HIDE DEF s
    <2> QED
      BY <2>1, <2>2
  <1>2. PnlOf(trades, js) = Total(s)
    BY DEF PnlOf
  <1> HIDE DEF s
  <1> QED
    BY <1>1, <1>2, TotalOfZeros

(* Nor does where else the ticks lie.                                      *)
LEMMA PnlOfSame ==
  ASSUME NEW trades \in Seq(Trades), NEW js, NEW ks,
         \A i \in DOMAIN trades : trades[i].entry \in js <=> trades[i].entry \in ks
  PROVE  PnlOf(trades, js) = PnlOf(trades, ks)
  BY DEF PnlOf

(* A sequence of trades and one more.                                      *)
LEMMA SequenceAppend ==
  ASSUME NEW trades \in Seq(Trades), NEW t \in Trades, NEW n, n = Len(trades)
  PROVE  /\ n \in Nat /\ DOMAIN trades = 1 .. n
         /\ Append(trades, t) \in Seq(Trades) /\ Len(Append(trades, t)) = n + 1
         /\ DOMAIN Append(trades, t) = 1 .. n + 1
         /\ Append(trades, t)[n + 1] = t
         /\ \A i \in 1 .. n : Append(trades, t)[i] = trades[i] /\ trades[i] \in Trades
  OBVIOUS

(* The trades entered at some ticks are counted.                           *)
Entered(trades, js) == {i \in DOMAIN trades : trades[i].entry \in js}

(* One more entry, if it lies in the ticks counted.                        *)
LEMMA CountAppend ==
  ASSUME NEW trades \in Seq(Trades), NEW t \in Trades, NEW js
  PROVE  /\ Cardinality(Entered(trades, js)) \in Nat
         /\ Cardinality(Entered(Append(trades, t), js)) =
              Cardinality(Entered(trades, js)) + (IF t.entry \in js THEN 1 ELSE 0)
  <1>1. PICK n : n = Len(trades)
    OBVIOUS
  <1>2. PICK more : more = Append(trades, t)
    OBVIOUS
  <1>3. /\ n \in Nat /\ DOMAIN trades = 1 .. n
        /\ DOMAIN more = 1 .. n + 1 /\ more[n + 1] = t
        /\ \A i \in 1 .. n : more[i] = trades[i]
    BY <1>1, <1>2, SequenceAppend
  <1>4. IsFiniteSet(Entered(trades, js)) /\ n + 1 \notin Entered(trades, js)
    <2>1. IsFiniteSet(1 .. n) /\ Entered(trades, js) \subseteq 1 .. n
      BY <1>3, FS_Interval DEF Entered
    <2>2. IsFiniteSet(Entered(trades, js))
      BY <2>1, FS_Subset
    <2> QED
      BY <1>3, <2>1, <2>2
  <1>5. Entered(more, js) = IF t.entry \in js THEN Entered(trades, js) \cup {n + 1}
                                              ELSE Entered(trades, js)
    BY <1>3 DEF Entered
  <1>6. /\ Cardinality(Entered(trades, js)) \in Nat
        /\ Cardinality(Entered(more, js)) =
             Cardinality(Entered(trades, js)) + (IF t.entry \in js THEN 1 ELSE 0)
    BY <1>4, <1>5, FS_AddElement, FS_CardinalityType
  <1> QED
    BY <1>2, <1>6

Losing(trades) ==
  {i \in DOMAIN trades : /\ trades[i].pnl < 0
                         /\ \A k \in i .. Len(trades) : trades[k].pnl <= 0}

(* The losses since the last win are the streak.                           *)
LEMMA LosingAppend ==
  ASSUME NEW trades \in Seq(Trades), NEW t \in Trades
  PROVE  /\ Cardinality(Losing(trades)) \in Nat
         /\ Cardinality(Losing(Append(trades, t))) =
              Streak(Cardinality(Losing(trades)), t.pnl)
  <1>1. PICK n : n = Len(trades)
    OBVIOUS
  <1>2. PICK more : more = Append(trades, t)
    OBVIOUS
  <1>3. /\ n \in Nat /\ DOMAIN trades = 1 .. n /\ Len(more) = n + 1
        /\ DOMAIN more = 1 .. n + 1 /\ more[n + 1] = t
        /\ \A i \in 1 .. n : more[i] = trades[i] /\ trades[i] \in Trades
    BY <1>1, <1>2, SequenceAppend
  <1>4. t.pnl \in Int /\ \A i \in 1 .. n : trades[i].pnl \in Int
    BY <1>3 DEF Trades
  <1>5. IsFiniteSet(Losing(trades)) /\ n + 1 \notin Losing(trades)
    <2>1. IsFiniteSet(1 .. n) /\ Losing(trades) \subseteq 1 .. n
      BY <1>3, FS_Interval DEF Losing
    <2>2. IsFiniteSet(Losing(trades))
      BY <2>1, FS_Subset
    <2> QED
      BY <1>3, <2>1, <2>2
  <1>6. \A i \in 1 .. n : /\ i .. n + 1 = (i .. n) \cup {n + 1}
                          /\ i .. n \subseteq 1 .. n
    BY <1>3
  <1>7. \A i \in 1 .. n : i \in Losing(more) <=> i \in Losing(trades) /\ t.pnl <= 0
    <2> TAKE i \in 1 .. n
    <2>1. /\ i \in DOMAIN more /\ more[i].pnl = trades[i].pnl
          /\ (\A k \in i .. n + 1 : more[k].pnl <= 0)
               <=> (\A k \in i .. n : trades[k].pnl <= 0) /\ t.pnl <= 0
      BY <1>3, <1>6
    <2> QED
      BY <1>1, <1>3, <2>1 DEF Losing
  <1>8. n + 1 \in Losing(more) <=> t.pnl < 0
    <2>1. (n + 1) .. (n + 1) = {n + 1}
      BY <1>3
    <2> QED
      BY <1>3, <1>4, <2>1 DEF Losing
  <1>9. Losing(more) \subseteq (1 .. n) \cup {n + 1} /\ Losing(trades) \subseteq 1 .. n
    BY <1>3 DEF Losing
  <1>10. Losing(more) = IF t.pnl < 0 THEN Losing(trades) \cup {n + 1}
                        ELSE IF t.pnl > 0 THEN {} ELSE Losing(trades)
    <2>1. CASE t.pnl < 0
      <3>1. t.pnl <= 0
        BY <1>4, <2>1
      <3>2. Losing(more) = Losing(trades) \cup {n + 1}
        BY <1>7, <1>8, <1>9, <2>1, <3>1
      <3> QED
        BY <2>1, <3>2
    <2>2. CASE t.pnl > 0
      <3>1. ~(t.pnl <= 0) /\ ~(t.pnl < 0)
        BY <1>4, <2>2
      <3>2. Losing(more) = {}
        BY <1>7, <1>8, <1>9, <3>1
      <3> QED
        BY <2>2, <3>1, <3>2
    <2>3. CASE t.pnl = 0
      <3>1. t.pnl <= 0 /\ ~(t.pnl < 0) /\ ~(t.pnl > 0)
        BY <2>3
      <3>2. Losing(more) \subseteq 1 .. n
        BY <1>8, <1>9, <3>1
      <3>3. Losing(more) = Losing(trades)
        BY <1>7, <1>9, <3>1, <3>2
      <3> QED
        BY <3>1, <3>3
    <2> QED
      BY <1>4, <2>1, <2>2, <2>3
  <1>11. /\ Cardinality(Losing(trades)) \in Nat
         /\ Cardinality(Losing(more)) = Streak(Cardinality(Losing(trades)), t.pnl)
    <2>1. Cardinality(Losing(trades)) \in Nat /\ Cardinality({}) = 0
      BY <1>5, FS_CardinalityType, FS_EmptySet
    <2>2. Cardinality(Losing(trades) \cup {n + 1}) = Cardinality(Losing(trades)) + 1
      BY <1>5, FS_AddElement
    <2> QED
      BY <1>4, <1>10, <2>1, <2>2 DEF Streak
  <1> QED
    BY <1>2, <1>11

-----------------------------------------------------------------------------
(* The invariant of TradesAsSpecified: what the ledger, the position, the  *)
(* intents and the counters say of the trades of the first m intents.      *)

(* Intent m is the last that any line has used, at a tick before it        *)
(* expired; zero is none.                                                  *)
LastUsed(m) ==
  /\ \A i \in DOMAIN events : events[i].intent <= m
  /\ m = 0 => events = <<>>
  /\ m # 0 => \E i \in DOMAIN events :
       /\ events[i].event # "POSITION_CLOSED" /\ events[i].intent = m
       /\ events[i].time < intents[m].expiry
       /\ \A k \in i + 1 .. Len(events) : events[k].event = "POSITION_CLOSED"

(* The trades the ledger has closed are the trades, all of them or all but *)
(* the one its open fill began; a line tells of every entry and exit.      *)
LedgerTells(m, closed, trades) ==
  /\ TradesInLedger = Range(closed)
  /\ OpenFills(Len(events)) = {} => trades = closed
  /\ \A i \in OpenFills(Len(events)) : \E e \in DOMAIN ticks :
       /\ ticks[e].time = events[i].time /\ events[i].intent = m
       /\ trades = Append(closed, TradeAt(m, e))
  /\ \A i \in DOMAIN trades :
       /\ trades[i].entry \in DOMAIN ticks
       /\ \E k \in DOMAIN events : events[k].time = ticks[trades[i].entry].time
  /\ \A i \in DOMAIN closed :
       /\ closed[i].exit \in DOMAIN ticks
       /\ \E k \in DOMAIN events : events[k].time = ticks[closed[i].exit].time
  /\ events # <<>> /\ events[Len(events)].event = "POSITION_CLOSED" =>
       /\ closed # <<>>
       /\ ticks[closed[Len(closed)].exit].time = events[Len(events)].time

(* The counters are those of the trades, the day being d.                  *)
Counted(r, closed, trades, d) ==
  /\ r.equity = StartingEquity + PnlOf(closed, DOMAIN ticks)
  /\ r.streak = Cardinality(Losing(closed))
  /\ r.trades = Cardinality(Entered(trades, Days(d)))
  /\ r.daily = PnlOf(closed, Days(d))
  /\ r.dayStart = StartingEquity + PnlOf(closed, DOMAIN ticks \ Days(d))

(* The ticks before this one are done with; the last tick looked at.       *)
Handled == IF pc = "process" THEN at + 1 ELSE at
Latest  == IF pc = "tick" THEN at - 1 ELSE at

(* No intent still to come has missed its chance.                          *)
ChancesAhead(m, trades) ==
  \A n \in m + 1 .. Len(intents) : \A j \in Chances(n, trades) : j >= Handled

(* A trade that is closed lies behind ...                                  *)
TradesBehind(trades) ==
  /\ \A i \in DOMAIN trades : trades[i].entry < Handled
  /\ position = None /\ trades # <<>> => trades[Len(trades)].exit < Handled

(* ... and no tick has ended the one that is open.                         *)
StillOpen(m) ==
  position # None => \E e \in DOMAIN ticks :
    /\ ticks[e].time = position.time /\ e <= Latest
    /\ \A k \in e + 1 .. at - 1 : ~Hits(m, k)
    /\ \A k \in e .. Latest : SessionDate(ticks[k].time) = SessionDate(ticks[e].time)
    /\ previous = None => SessionDate(ticks[at].time) = SessionDate(ticks[e].time)

(* Which intents have yet to come, which wait, and which can no longer     *)
(* fill.                                                                   *)
Coming ==
  /\ \A n \in DOMAIN intents : n >= next =>
       \A j \in 1 .. Latest : ticks[j].time < intents[n].time
  /\ at <= Len(ticks) => \A n \in DOMAIN intents :
       n < next => intents[n].time <= ticks[at].time
  /\ previous = None => at <= Len(ticks)

Waiting ==
  /\ \A n \in pending :
       /\ Latest >= 1 /\ intents[n].time <= ticks[Latest].time
       /\ \A j \in 1 .. Latest : intents[n].time <= ticks[j].time =>
            SessionDate(ticks[j].time) = SessionDate(ticks[Latest].time)
       /\ pc \in {"intents", "process"} => ticks[at].time < intents[n].expiry
  /\ pc = "tick" /\ previous = None => pending = {}

Passed(m) ==
  /\ at <= Len(ticks) => \A n \in m + 1 .. next - 1 : n \notin pending =>
       \/ intents[n].expiry <= ticks[at].time
       \/ SessionDate(intents[n].time) < SessionDate(ticks[at].time)
  /\ pc = "intents" /\ turn # 1 => m # 0 /\ ticks[at].time < intents[m].expiry

WhileRunning(m, closed, trades) ==
  /\ ChancesAhead(m, trades) /\ TradesBehind(trades) /\ StillOpen(m)
  /\ Coming /\ Waiting /\ Passed(m)
  /\ Counted(risk, closed, trades, Session)

(* Told so far: the trades of the first m intents.                         *)
Told(m, closed, trades) ==
  /\ LastUsed(m) /\ LedgerTells(m, closed, trades)
  /\ Running => WhileRunning(m, closed, trades)
  /\ pc = "off" => Counted(RecoverRisk(events, AsOf), closed, trades, LastDate)
  /\ pc = "done" => OpenFills(Len(events)) = {} /\ RefTrades = closed

(* Until a tick of its date ends it the trade goes on.                     *)
LEMMA TradeAtOpen ==
  ASSUME ticks \in Streams, intents \in IntentLists,
         NEW n \in DOMAIN intents, NEW e \in DOMAIN ticks, NEW x \in DOMAIN ticks,
         e <= x, SessionDate(ticks[x].time) = SessionDate(ticks[e].time),
         \A k \in e + 1 .. x - 1 : ~Hits(n, k)
  PROVE  x <= TradeAt(n, e).exit
  <1> DEFINE later == {k \in OnDateOf(ticks[e].time) : k >= e}
             hits  == {k \in later : k > e /\ (\/ ticks[k].price <= intents[n].stop
                                               \/ ticks[k].price >= intents[n].target)}
             exit  == IF hits = {} THEN Max(later) ELSE Min(hits)
  <1>1. Len(ticks) \in Nat /\ DOMAIN ticks = 1 .. Len(ticks)
    BY TicksType
  <1>2. x \in later /\ later \in SUBSET (0 .. Len(ticks)) /\ later # {}
    BY <1>1 DEF OnDateOf
  <1>3. \A k \in hits : k \in Nat /\ x <= k
    <2> TAKE k \in hits
    <2>1. k \in DOMAIN ticks /\ k > e /\ Hits(n, k)
      BY DEF OnDateOf, Hits
    <2>2. ~(k < x)
      <3> SUFFICES ASSUME k < x PROVE FALSE
        OBVIOUS
      <3>1. k \in e + 1 .. x - 1
        BY <1>1, <2>1
      <3> QED
        BY <2>1, <3>1
    <2> QED
      BY <1>1, <2>1, <2>2
  <1>4. hits = {} => x <= Max(later)
    <2> HIDE DEF later, hits
    <2> QED
      BY <1>1, <1>2, MaxIsGreatest
  <1>5. hits # {} => x <= Min(hits)
    <2>1. hits \in SUBSET Nat
      BY <1>3
    <2> HIDE DEF hits
    <2> QED
      BY <1>3, <2>1, MinIsLeast
  <1>6. TradeAt(n, e).exit = exit
    BY DEF TradeAt
  <1>7. x <= exit
    <2> HIDE DEF hits, later
    <2> QED
      BY <1>4, <1>5
  <1> QED
    BY <1>6, <1>7

-----------------------------------------------------------------------------
(* The counters of the trades.                                             *)
LEMMA CountedAtStart ==
  ASSUME NEW d
  PROVE  Counted(NewRisk, <<>>, <<>>, d)
  <1>1. <<>> \in Seq(Trades) /\ DOMAIN <<>> = {}
    OBVIOUS
  <1>2. /\ PnlOf(<<>>, DOMAIN ticks) = 0 /\ PnlOf(<<>>, Days(d)) = 0
        /\ PnlOf(<<>>, DOMAIN ticks \ Days(d)) = 0
    BY <1>1, PnlOfNone
  <1>3. PICK empty : empty = <<>>
    OBVIOUS
  <1>4. Losing(empty) = {} /\ Entered(empty, Days(d)) = {}
    BY <1>1, <1>3 DEF Losing, Entered
  <1>5. Cardinality({}) = 0
    BY FS_EmptySet
  <1>6. PICK r : r = NewRisk
    OBVIOUS
  <1>7. /\ r.equity = StartingEquity /\ r.streak = 0 /\ r.trades = 0 /\ r.daily = 0
        /\ r.dayStart = StartingEquity /\ StartingEquity + 0 = StartingEquity
    BY <1>6, RiskAssumption DEF NewRisk
  <1>8. Counted(r, empty, empty, d)
    BY <1>2, <1>3, <1>4, <1>5, <1>7 DEF Counted
  <1> QED
    BY <1>3, <1>6, <1>8

(* A fill is a trade of its day.                                           *)
LEMMA FillCounts ==
  ASSUME NEW r \in RiskStates, NEW closed \in Seq(Trades), NEW trades \in Seq(Trades),
         NEW t \in Trades, NEW d, t.entry \in Days(d), Counted(r, closed, trades, d)
  PROVE  Counted(CountTrade(r), closed, Append(trades, t), d)
  <1>1. PICK c : c = CountTrade(r)
    OBVIOUS
  <1>2. /\ c.trades = r.trades + 1 /\ c.equity = r.equity /\ c.streak = r.streak
        /\ c.daily = r.daily /\ c.dayStart = r.dayStart
    BY <1>1, CountTradeType
  <1>3. PICK more : more = Append(trades, t)
    OBVIOUS
  <1>4. Cardinality(Entered(more, Days(d))) =
          Cardinality(Entered(trades, Days(d))) + 1
    BY <1>3, CountAppend
  <1>5. Counted(c, closed, more, d)
    BY <1>2, <1>4 DEF Counted
  <1> QED
    BY <1>1, <1>3, <1>5

(* A close books what the trade made on its day.                           *)
LEMMA CloseCounts ==
  ASSUME NEW r \in RiskStates, NEW closed \in Seq(Trades), NEW trades,
         NEW t \in Trades, NEW d, t.entry \in Days(d), Counted(r, closed, trades, d)
  PROVE  Counted(RecordClose(r, t.pnl), Append(closed, t), trades, d)
  <1>1. PICK c : c = RecordClose(r, t.pnl)
    OBVIOUS
  <1>2. PICK p \in Int : p = t.pnl
    BY DEF Trades
  <1>3. /\ c.equity = r.equity + p /\ c.streak = Streak(r.streak, p)
        /\ c.daily = r.daily + p /\ c.trades = r.trades /\ c.dayStart = r.dayStart
    BY <1>1, <1>2, RecordCloseType
  <1>4. PICK more : more = Append(closed, t)
    OBVIOUS
  <1>5. t.entry \in DOMAIN ticks /\ t.entry \notin DOMAIN ticks \ Days(d)
    BY DEF Days
  <1>6. /\ PnlOf(more, DOMAIN ticks) = PnlOf(closed, DOMAIN ticks) + p
        /\ PnlOf(more, Days(d)) = PnlOf(closed, Days(d)) + p
        /\ PnlOf(closed, DOMAIN ticks) \in Int
    BY <1>2, <1>4, <1>5, PnlAppend
  <1>7. PnlOf(more, DOMAIN ticks \ Days(d)) = PnlOf(closed, DOMAIN ticks \ Days(d))
    <2>1. /\ PnlOf(more, DOMAIN ticks \ Days(d)) = PnlOf(closed, DOMAIN ticks \ Days(d)) + 0
          /\ PnlOf(closed, DOMAIN ticks \ Days(d)) \in Int
      BY <1>4, <1>5, PnlAppend
    <2> QED
      BY <2>1
  <1>8. Cardinality(Losing(more)) = Streak(Cardinality(Losing(closed)), p)
    BY <1>2, <1>4, LosingAppend
  <1>9. c.equity = StartingEquity + PnlOf(more, DOMAIN ticks)
    <2>1. r.equity = StartingEquity + PnlOf(closed, DOMAIN ticks) /\ StartingEquity \in Int
      BY RiskAssumption DEF Counted
    <2> QED
      BY <1>3, <1>6, <2>1
  <1>10. Counted(c, more, trades, d)
    BY <1>3, <1>6, <1>7, <1>8, <1>9 DEF Counted
  <1> QED
    BY <1>1, <1>4, <1>10

(* A date on which no trade has begun: the counters of the day are reset.  *)
LEMMA DayCounts ==
  ASSUME NEW r \in RiskStates, NEW trades \in Seq(Trades), NEW d, NEW today,
         Counted(r, trades, trades, d),
         \A i \in DOMAIN trades : trades[i].entry \in DOMAIN ticks
                                    /\ trades[i].entry \notin Days(today)
  PROVE  Counted(ResetDay(r), trades, trades, today)
  <1>1. PICK c : c = ResetDay(r)
    OBVIOUS
  <1>2. /\ c.equity = r.equity /\ c.streak = r.streak /\ c.daily = 0 /\ c.trades = 0
        /\ c.dayStart = r.equity
    BY <1>1, ResetDayType
  <1>3. PnlOf(trades, Days(today)) = 0
    BY PnlOfNone
  <1>4. PnlOf(trades, DOMAIN ticks \ Days(today)) = PnlOf(trades, DOMAIN ticks)
    BY PnlOfSame
  <1>5. Cardinality(Entered(trades, Days(today))) = 0
    <2>1. Entered(trades, Days(today)) = {}
      BY DEF Entered
    <2> QED
      BY <2>1, FS_EmptySet
  <1>6. Counted(c, trades, trades, today)
    BY <1>2, <1>3, <1>4, <1>5 DEF Counted
  <1> QED
    BY <1>1, <1>6

(* The counters allow what the limits allow.                               *)
LEMMA LimitsAsCounted ==
  ASSUME NEW r \in RiskStates, NEW trades \in Seq(Trades), NEW j \in DOMAIN ticks,
         Counted(r, trades, trades, SessionDate(ticks[j].time)),
         NEW price, NEW stop
  PROVE  CheckBuy(r, price, stop) <=> stop < price /\ LimitsAllow(trades, j)
  <1>1. PICK days : days = OnDateOf(ticks[j].time)
    OBVIOUS
  <1>2. Days(SessionDate(ticks[j].time)) = days
    BY <1>1 DEF Days, OnDateOf
  <1>3. /\ r.streak = Cardinality(Losing(trades))
        /\ r.trades = Cardinality(Entered(trades, days))
        /\ r.daily = PnlOf(trades, days)
        /\ r.dayStart = StartingEquity + PnlOf(trades, DOMAIN ticks \ days)
    BY <1>2 DEF Counted
  <1>4. LimitsAllow(trades, j) <=>
          /\ Cardinality(Entered(trades, days)) < MaxTrades
          /\ MaxStreak # None => Cardinality(Losing(trades)) < MaxStreak
          /\ LossDen * PnlOf(trades, days)
               > -(LossNum * (StartingEquity + PnlOf(trades, DOMAIN ticks \ days)))
    BY <1>1 DEF LimitsAllow, Losing, Entered
  <1> QED
    BY <1>3, <1>4 DEF CheckBuy

(* What recovery finds is counted as the process has counted: on the last  *)
(* date all of it, before it nothing for the day.                          *)
LEMMA RecoveryCounts ==
  ASSUME NEW r \in RiskStates, NEW closed \in Seq(Trades), NEW trades \in Seq(Trades),
         NEW d, events \in Seq(Lines),
         Agree(RecoverLines(events, AsOf), r, d = LastDate),
         Counted(r, closed, trades, d),
         \A i \in DOMAIN trades : trades[i].entry \in DOMAIN ticks,
         \A i \in DOMAIN closed : closed[i].entry \in DOMAIN ticks,
         d # LastDate =>
           /\ \A i \in DOMAIN trades : trades[i].entry \notin Days(LastDate)
           /\ \A i \in DOMAIN closed : closed[i].entry \notin Days(LastDate)
  PROVE  Counted(RecoverRisk(events, AsOf), closed, trades, LastDate)
  <1>1. PICK f \in FoldStates : f = RecoverLines(events, AsOf)
    BY RecoverLinesType
  <1>2. PICK c : c = RecoverRisk(events, AsOf)
    OBVIOUS
  <1>3. /\ c.equity = f.equity /\ c.trades = f.trades /\ c.daily = f.daily
        /\ c.streak = f.streak /\ c.dayStart = Begun(f).dayStart
    BY <1>1, <1>2 DEF RecoverRisk
  <1>4. Agree(f, r, d = LastDate)
    BY <1>1
  <1>5. CASE d = LastDate
    <2>1. /\ c.equity = r.equity /\ c.trades = r.trades /\ c.daily = r.daily
          /\ c.streak = r.streak /\ c.dayStart = r.dayStart
      BY <1>3, <1>4, <1>5 DEF Agree
    <2>2. Counted(c, closed, trades, LastDate)
      BY <1>5, <2>1 DEF Counted
    <2> QED
      BY <1>2, <2>2
  <1>6. CASE d # LastDate
    <2>1. ~f.begun /\ f.trades = 0 /\ f.daily = 0 /\ f.equity = r.equity
          /\ f.streak = r.streak
      BY <1>4, <1>6 DEF Agree
    <2>2. Begun(f).dayStart = f.equity
      BY <2>1, BegunType
    <2>3. PnlOf(closed, Days(LastDate)) = 0
      BY <1>6, PnlOfNone
    <2>4. PnlOf(closed, DOMAIN ticks \ Days(LastDate)) = PnlOf(closed, DOMAIN ticks)
      BY <1>6, PnlOfSame
    <2>5. Cardinality(Entered(trades, Days(LastDate))) = 0
      <3>1. Entered(trades, Days(LastDate)) = {}
        BY <1>6 DEF Entered
      <3> QED
        BY <3>1, FS_EmptySet
    <2>6. Counted(c, closed, trades, LastDate)
      BY <1>3, <2>1, <2>2, <2>3, <2>4, <2>5 DEF Counted
    <2> QED
      BY <1>2, <2>6
  <1> QED
    BY <1>5, <1>6

-----------------------------------------------------------------------------
(* The arguments stay what they are, and what is said of them.             *)
LEMMA InputsSame ==
  ASSUME UNCHANGED inputs
  PROVE  /\ ticks' = ticks /\ intents' = intents
         /\ TradesAfter' = TradesAfter /\ RefTrades' = RefTrades
         /\ \A n, trades : Chances(n, trades)' = Chances(n, trades)
         /\ \A n, e : TradeAt(n, e)' = TradeAt(n, e)
         /\ Disjoint' = Disjoint /\ ComeUpInTime' = ComeUpInTime
         /\ AsOf' = AsOf /\ LastDate' = LastDate
         /\ \A d : Days(d)' = Days(d)
         /\ \A n, k : Hits(n, k)' = Hits(n, k)
         /\ \A r, closed, trades, d : Counted(r, closed, trades, d)' <=> Counted(r, closed, trades, d)
  <1>1. ticks' = ticks /\ intents' = intents
    BY DEF inputs
  <1>2. \A n, trades : Chances(n, trades)' = Chances(n, trades)
    BY <1>1 DEF Chances, OnDateOf
  <1>3. \A n, e : TradeAt(n, e)' = TradeAt(n, e)
    BY <1>1 DEF TradeAt, OnDateOf
  <1>4. \A trades, j : LimitsAllow(trades, j)' = LimitsAllow(trades, j)
    BY <1>1 DEF LimitsAllow, OnDateOf
  <1>5. \A n, trades : Consider(n, trades)' = Consider(n, trades)
    BY <1>1, <1>2, <1>3, <1>4 DEF Consider
  <1>6. TradesAfter' = TradesAfter
    BY <1>1, <1>5 DEF TradesAfter
  <1>7. RefTrades' = RefTrades
    BY <1>1, <1>6 DEF RefTrades
  <1>8. Disjoint' = Disjoint /\ AsOf' = AsOf /\ LastDate' = LastDate
    BY <1>1 DEF Disjoint, AsOf, LastDate, Last
  <1>9. ComeUpInTime' = ComeUpInTime
    BY <1>1 DEF ComeUpInTime, OnDateOf
  <1>10. /\ \A d : Days(d)' = Days(d)
         /\ \A n, k : Hits(n, k)' = Hits(n, k)
    BY <1>1 DEF Days, Hits
  <1>11. \A r, closed, trades, d : Counted(r, closed, trades, d)' <=> Counted(r, closed, trades, d)
    <2> TAKE r, closed, trades, d
    <2>1. PICK days : days = Days(d)
      OBVIOUS
    <2>2. Days(d)' = days
      BY <1>10, <2>1
    <2> QED
      BY <1>1, <2>1, <2>2 DEF Counted
  <1> QED
    BY <1>1, <1>2, <1>3, <1>6, <1>7, <1>8, <1>9, <1>10, <1>11

-----------------------------------------------------------------------------
(* What one line adds to what the ledger tells.                            *)

(* A line that does not close adds no trade to the ledger, one that closes *)
(* adds the trade of the open fill.                                        *)
LEMMA LedgerGrows ==
  ASSUME IInv, UNCHANGED inputs, NEW e \in Lines, events' = Append(events, e),
         NEW k \in Nat, k = Len(events)
  PROVE  /\ e.event # "POSITION_CLOSED" => TradesInLedger' = TradesInLedger
         /\ e.event = "POSITION_CLOSED" =>
              \A i \in OpenFills(k), b, x \in DOMAIN ticks :
                ticks[b].time = events[i].time /\ ticks[x].time = e.time =>
                  TradesInLedger' = TradesInLedger \cup
                    {[intent |-> e.intent, entry |-> b, exit |-> x, pnl |-> e.pnl]}
  <1>1. /\ Len(events') = k + 1 /\ events'[k + 1] = e
        /\ DOMAIN events' = 1 .. k + 1 /\ DOMAIN events = 1 .. k
        /\ \A i \in 1 .. k : events'[i] = events[i]
        /\ \A n \in 0 .. k : OpenFills(n)' = OpenFills(n)
    BY LineAppended DEF IInv, ControlInv
  <1>2. ticks' = ticks /\ ticks \in Streams
    BY DEF inputs, IInv, ControlInv
  <1>3. ASSUME NEW i \in 1 .. k, events[i].event = "POSITION_CLOSED"
        PROVE  TradeOfClose(i)' = TradeOfClose(i)
    <2>1. i - 1 \in 0 .. k /\ OpenFills(i - 1)' = OpenFills(i - 1) /\ events'[i] = events[i]
      BY <1>1
    <2>2. PICK j : j = CHOOSE h \in OpenFills(i - 1) : TRUE
      OBVIOUS
    <2>3. j \in OpenFills(i - 1)
      <3>1. \E h \in OpenFills(i - 1) : TRUE
        BY <1>1, <1>3 DEF IInv, FilledOnce
      <3> QED
        BY <2>2, <3>1
    <2>4. events'[j] = events[j]
      <3>1. j \in 1 .. k
        BY <2>3 DEF OpenFills
      <3> QED
        BY <1>1, <3>1
    <2>5. (CHOOSE h \in OpenFills(i - 1)' : TRUE) = j
      BY <2>1, <2>2
    <2> QED
      BY <1>2, <2>1, <2>2, <2>4, <2>5 DEF TradeOfClose
  <1>4. PICK old : old = {h \in DOMAIN events : events[h].event = "POSITION_CLOSED"}
    OBVIOUS
  <1>5. TradesInLedger = {TradeOfClose(i) : i \in old}
    BY <1>4 DEF TradesInLedger
  <1>6. \A i \in old : TradeOfClose(i)' = TradeOfClose(i)
    BY <1>1, <1>3, <1>4
  <1>7. PICK new : new = {h \in DOMAIN events' : events'[h].event = "POSITION_CLOSED"}
    OBVIOUS
  <1>8. TradesInLedger' = {TradeOfClose(i)' : i \in new}
    BY <1>7 DEF TradesInLedger
  <1>9. new = IF e.event = "POSITION_CLOSED" THEN old \cup {k + 1} ELSE old
    <2>1. \A h \in 1 .. k + 1 : h \in 1 .. k \/ h = k + 1
      OBVIOUS
    <2>2. k + 1 \notin 1 .. k /\ 1 .. k \subseteq 1 .. k + 1
      OBVIOUS
    <2> QED
      BY <1>1, <1>4, <1>7, <2>1, <2>2
  <1>10. ASSUME e.event # "POSITION_CLOSED" PROVE TradesInLedger' = TradesInLedger
    <2>1. new = old
      BY <1>9, <1>10
    <2> QED
      BY <1>5, <1>6, <1>8, <2>1
  <1>11. ASSUME e.event = "POSITION_CLOSED", NEW i \in OpenFills(k),
                NEW b \in DOMAIN ticks, NEW x \in DOMAIN ticks,
                ticks[b].time = events[i].time, ticks[x].time = e.time
         PROVE  TradesInLedger' = TradesInLedger \cup
                  {[intent |-> e.intent, entry |-> b, exit |-> x, pnl |-> e.pnl]}
    <2>1. PICK t : t = [intent |-> e.intent, entry |-> b, exit |-> x, pnl |-> e.pnl]
      OBVIOUS
    <2>2. TradeOfClose(k + 1)' = t
      <3>1. (k + 1) - 1 = k /\ k \in 0 .. k
        OBVIOUS
      <3>2. OpenFills((k + 1) - 1)' = OpenFills(k)
        BY <1>1, <3>1
      <3>3. (CHOOSE h \in OpenFills(k) : TRUE) = i
        <4>1. \A h \in OpenFills(k) : h = i
          BY OneOpenFill
        <4> QED
          BY <4>1
      <3>4. events'[i] = events[i]
        <4>1. i \in 1 .. k
          BY DEF OpenFills
        <4> QED
          BY <1>1, <4>1
      <3>5. /\ (CHOOSE j \in DOMAIN ticks : ticks[j].time = ticks[b].time) = b
            /\ (CHOOSE j \in DOMAIN ticks : ticks[j].time = ticks[x].time) = x
        BY <1>2, TickOfTime
      <3>6. TradeOfClose(k + 1)' =
              [intent |-> e.intent,
               entry |-> CHOOSE j \in DOMAIN ticks : ticks[j].time = events[i].time,
               exit |-> CHOOSE j \in DOMAIN ticks : ticks[j].time = e.time,
               pnl |-> e.pnl]
        BY <1>1, <1>2, <3>2, <3>3, <3>4 DEF TradeOfClose
      <3> QED
        BY <1>11, <2>1, <3>5, <3>6
    <2>3. new = old \cup {k + 1}
      BY <1>9, <1>11
    <2>4. TradesInLedger' = TradesInLedger \cup {t}
      BY <1>5, <1>6, <1>8, <2>2, <2>3
    <2> QED
      BY <2>1, <2>4
  <1> QED
    BY <1>10, <1>11

(* The last of a sequence is one of its range.                             *)
LEMMA RangeAppend ==
  ASSUME NEW s \in Seq(Trades), NEW t \in Trades
  PROVE  Range(Append(s, t)) = Range(s) \cup {t}
  <1>1. PICK n : n = Len(s)
    OBVIOUS
  <1>2. PICK more : more = Append(s, t)
    OBVIOUS
  <1>3. /\ n \in Nat /\ DOMAIN s = 1 .. n
        /\ DOMAIN more = (1 .. n) \cup {n + 1} /\ more[n + 1] = t
        /\ \A i \in 1 .. n : more[i] = s[i]
    <2>1. /\ n \in Nat /\ DOMAIN s = 1 .. n
          /\ DOMAIN more = 1 .. n + 1 /\ more[n + 1] = t
          /\ \A i \in 1 .. n : more[i] = s[i]
      BY <1>1, <1>2, SequenceAppend
    <2>2. 1 .. n + 1 = (1 .. n) \cup {n + 1}
      BY <2>1
    <2> QED
      BY <2>1, <2>2
  <1>4. Range(more) = Range(s) \cup {t}
    BY <1>3 DEF Range
  <1> QED
    BY <1>2, <1>4

(* A line that uses intent n makes it the last used.                       *)
LEMMA UseIsLast ==
  ASSUME IInv, UNCHANGED inputs, NEW e \in Lines, events' = Append(events, e),
         e.event # "POSITION_CLOSED", NEW m \in Nat, NEW n \in Nat, m < n,
         LastUsed(m), e.intent = n, e.time < intents[n].expiry
  PROVE  LastUsed(n)'
  <1>1. PICK k \in Nat : k = Len(events)
    BY DEF IInv, ControlInv
  <1>2. /\ Len(events') = k + 1 /\ events'[k + 1] = e
        /\ DOMAIN events' = 1 .. k + 1 /\ DOMAIN events = 1 .. k
        /\ \A i \in 1 .. k : events'[i] = events[i]
    BY <1>1, LineAppended DEF IInv, ControlInv
  <1>3. \A i \in DOMAIN events' : events'[i].intent <= n
    <2> TAKE i \in DOMAIN events'
    <2>1. CASE i = k + 1
      BY <1>2, <2>1
    <2>2. CASE i \in 1 .. k
      <3>1. events[i].intent <= m /\ events[i].intent \in Nat
        BY <1>2, <2>2, LinesType DEF LastUsed, IInv, ControlInv
      <3>2. events'[i].intent = events[i].intent
        BY <1>2, <2>2
      <3> QED
        BY <3>1, <3>2
    <2> QED
      BY <1>2, <2>1, <2>2
  <1>4. n # 0 /\ intents' = intents
    BY DEF inputs
  <1>5. k + 1 \in DOMAIN events' /\ (k + 1) + 1 .. k + 1 = {}
    BY <1>2
  <1> QED
    BY <1>2, <1>3, <1>4, <1>5 DEF LastUsed

(* A line that closes leaves it so.                                        *)
LEMMA CloseUsesNone ==
  ASSUME IInv, UNCHANGED inputs, NEW e \in Lines, events' = Append(events, e),
         e.event = "POSITION_CLOSED", NEW m \in Nat, LastUsed(m), e.intent = m, m # 0
  PROVE  LastUsed(m)'
  <1>1. PICK k \in Nat : k = Len(events)
    BY DEF IInv, ControlInv
  <1>2. /\ Len(events') = k + 1 /\ events'[k + 1] = e
        /\ DOMAIN events' = 1 .. k + 1 /\ DOMAIN events = 1 .. k
        /\ \A i \in 1 .. k : events'[i] = events[i]
    BY <1>1, LineAppended DEF IInv, ControlInv
  <1>3. \A i \in DOMAIN events' : events'[i].intent <= m
    <2> TAKE i \in DOMAIN events'
    <2>1. CASE i = k + 1
      BY <1>2, <2>1
    <2>2. CASE i \in 1 .. k
      BY <1>2, <2>2 DEF LastUsed
    <2> QED
      BY <1>2, <2>1, <2>2
  <1>4. PICK i \in 1 .. k :
          /\ events[i].event # "POSITION_CLOSED" /\ events[i].intent = m
          /\ events[i].time < intents[m].expiry
          /\ \A h \in i + 1 .. k : events[h].event = "POSITION_CLOSED"
    BY <1>1, <1>2 DEF LastUsed
  <1>5. /\ i \in DOMAIN events' /\ events'[i] = events[i]
        /\ \A h \in i + 1 .. k + 1 : events'[h].event = "POSITION_CLOSED"
    <2>1. i \in DOMAIN events' /\ events'[i] = events[i]
      BY <1>2
    <2>2. ASSUME NEW h \in i + 1 .. k + 1 PROVE events'[h].event = "POSITION_CLOSED"
      <3>1. CASE h = k + 1
        BY <1>2, <3>1
      <3>2. CASE h # k + 1
        <4>1. h \in i + 1 .. k /\ h \in 1 .. k
          BY <3>2
        <4> QED
          BY <1>2, <1>4, <4>1
      <3> QED
        BY <3>1, <3>2
    <2> QED
      BY <2>1, <2>2
  <1>6. intents' = intents
    BY DEF inputs
  <1> QED
    BY <1>2, <1>3, <1>4, <1>5, <1>6 DEF LastUsed

-----------------------------------------------------------------------------
(* What the ledger tells, and a line more.                                 *)
OldLinesTell(closed, trades) ==
  /\ \A i \in DOMAIN trades :
       /\ trades[i].entry \in DOMAIN ticks
       /\ \E k \in DOMAIN events : events[k].time = ticks[trades[i].entry].time
  /\ \A i \in DOMAIN closed :
       /\ closed[i].exit \in DOMAIN ticks
       /\ \E k \in DOMAIN events : events[k].time = ticks[closed[i].exit].time

(* A line takes nothing from what the lines before it tell.                *)
LEMMA OldLines ==
  ASSUME IInv, UNCHANGED inputs, NEW e \in Lines, events' = Append(events, e),
         NEW m, NEW closed, NEW trades, LedgerTells(m, closed, trades)
  PROVE  OldLinesTell(closed, trades)'
  <1>1. PICK k \in Nat : k = Len(events)
    BY DEF IInv, ControlInv
  <1>2. /\ DOMAIN events \subseteq DOMAIN events' /\ ticks' = ticks
        /\ \A i \in DOMAIN events : events'[i] = events[i]
    <2>1. /\ DOMAIN events' = 1 .. k + 1 /\ DOMAIN events = 1 .. k
          /\ \A i \in 1 .. k : events'[i] = events[i]
      BY <1>1, LineAppended DEF IInv, ControlInv
    <2> QED
      BY <2>1 DEF inputs
  <1>3. /\ \A i \in DOMAIN trades :
             /\ trades[i].entry \in DOMAIN ticks
             /\ \E h \in DOMAIN events' : events'[h].time = ticks[trades[i].entry].time
        /\ \A i \in DOMAIN closed :
             /\ closed[i].exit \in DOMAIN ticks
             /\ \E h \in DOMAIN events' : events'[h].time = ticks[closed[i].exit].time
    BY <1>2 DEF LedgerTells
  <1> QED
    BY <1>2, <1>3 DEF OldLinesTell

(* A rejected intent leaves the trades as they were.                       *)
LEMMA RejectTells ==
  ASSUME IInv, UNCHANGED inputs, NEW e \in Lines, events' = Append(events, e),
         e.event = "REJECT", OpenFills(Len(events)) = {},
         NEW m, NEW n, NEW trades, LedgerTells(m, trades, trades)
  PROVE  LedgerTells(n, trades, trades)'
  <1>1. PICK k \in Nat : k = Len(events)
    BY DEF IInv, ControlInv
  <1>2. /\ Len(events') = k + 1 /\ events'[k + 1] = e
        /\ OpenFills(k + 1)' = {}
    BY <1>1, LineAppended DEF IInv, ControlInv
  <1>3. TradesInLedger' = TradesInLedger
    BY <1>1, LedgerGrows
  <1>4. OldLinesTell(trades, trades)'
    BY OldLines
  <1>5. OpenFills(Len(events))' = {}
    BY <1>2 DEF OpenFills
  <1>6. events'[Len(events')].event # "POSITION_CLOSED"
    BY <1>2
  <1>7. TradesInLedger = Range(trades)
    BY DEF LedgerTells
  <1> QED
    BY <1>3, <1>4, <1>5, <1>6, <1>7 DEF LedgerTells, OldLinesTell

(* A fill opens the trade the documents give its intent.                   *)
LEMMA FillTells ==
  ASSUME IInv, UNCHANGED inputs, NEW e \in Lines, events' = Append(events, e),
         e.event = "BUY_FILLED", OpenFills(Len(events)) = {},
         NEW m, NEW n \in DOMAIN intents, NEW trades \in Seq(Trades),
         LedgerTells(m, trades, trades),
         NEW b \in DOMAIN ticks, ticks[b].time = e.time, e.intent = n,
         NEW more, more = Append(trades, TradeAt(n, b))
  PROVE  LedgerTells(n, trades, more)'
  <1>0. ticks \in Streams /\ intents \in IntentLists /\ ticks' = ticks
    BY DEF IInv, ControlInv, inputs
  <1>1. PICK k \in Nat : k = Len(events)
    BY DEF IInv, ControlInv
  <1>2. /\ Len(events') = k + 1 /\ events'[k + 1] = e /\ k + 1 \in DOMAIN events'
        /\ OpenFills(k + 1)' = {k + 1}
    <2>1. /\ Len(events') = k + 1 /\ events'[k + 1] = e /\ DOMAIN events' = 1 .. k + 1
          /\ OpenFills(k + 1)' = {k + 1}
      BY <1>1, LineAppended DEF IInv, ControlInv
    <2> QED
      BY <2>1
  <1>3. TradesInLedger' = TradesInLedger /\ TradesInLedger = Range(trades)
    BY <1>1, LedgerGrows DEF LedgerTells
  <1>4. OldLinesTell(trades, trades)'
    BY OldLines
  <1>5. OpenFills(Len(events))' = {k + 1}
    BY <1>2 DEF OpenFills
  <1>6. events'[Len(events')].event # "POSITION_CLOSED"
    BY <1>2
  <1>7. PICK t \in Trades : t = TradeAt(n, b) /\ t.entry = b
    BY <1>0, TradeAtType
  <1>8. TradeAt(n, b)' = t
    BY <1>7, InputsSame
  <1>9. more = Append(trades, t)
    BY <1>7
  <1>10. \A i \in DOMAIN more :
           /\ more[i].entry \in DOMAIN ticks
           /\ \E h \in DOMAIN events' : events'[h].time = ticks[more[i].entry].time
    <2>1. PICK s : s = Len(trades)
      OBVIOUS
    <2>2. /\ s \in Nat /\ DOMAIN trades = 1 .. s /\ DOMAIN more = 1 .. s + 1
          /\ more[s + 1] = t /\ \A i \in 1 .. s : more[i] = trades[i]
      BY <1>9, <2>1, SequenceAppend
    <2> TAKE i \in DOMAIN more
    <2>3. CASE i = s + 1
      BY <1>2, <1>7, <2>2, <2>3
    <2>4. CASE i \in 1 .. s
      BY <1>0, <1>4, <2>2, <2>4 DEF OldLinesTell
    <2> QED
      BY <2>2, <2>3, <2>4
  <1>11. \E h \in DOMAIN ticks : /\ ticks[h].time = events'[k + 1].time
                                 /\ events'[k + 1].intent = n
                                 /\ more = Append(trades, TradeAt(n, h)')
    BY <1>2, <1>8, <1>9
  <1>12. \A i \in DOMAIN trades :
           /\ trades[i].exit \in DOMAIN ticks
           /\ \E h \in DOMAIN events' : events'[h].time = ticks[trades[i].exit].time
    BY <1>0, <1>4 DEF OldLinesTell
  <1>13. /\ OpenFills(Len(events))' # {}
         /\ \A i \in OpenFills(Len(events))' : \E h \in DOMAIN ticks' :
              /\ ticks'[h].time = events'[i].time /\ events'[i].intent = n
              /\ more = Append(trades, TradeAt(n, h)')
    BY <1>0, <1>5, <1>11
  <1>14. TradesInLedger' = Range(trades)
    BY <1>3
  <1> QED
    BY <1>0, <1>6, <1>10, <1>12, <1>13, <1>14 DEF LedgerTells

(* A close ends it, with the exit and the profit of that trade.            *)
LEMMA CloseTells ==
  ASSUME IInv, UNCHANGED inputs, NEW e \in Lines, events' = Append(events, e),
         e.event = "POSITION_CLOSED", NEW i \in OpenFills(Len(events)),
         NEW m, NEW closed \in Seq(Trades), NEW trades, NEW t \in Trades,
         LedgerTells(m, closed, trades), trades = Append(closed, t),
         ticks[t.entry].time = events[i].time, t.entry \in DOMAIN ticks,
         t.exit \in DOMAIN ticks, ticks[t.exit].time = e.time,
         t.intent = e.intent, t.pnl = e.pnl
  PROVE  LedgerTells(m, trades, trades)'
  <1>0. ticks' = ticks
    BY DEF inputs
  <1>1. PICK k \in Nat : k = Len(events)
    BY DEF IInv, ControlInv
  <1>2. /\ Len(events') = k + 1 /\ events'[k + 1] = e /\ k + 1 \in DOMAIN events'
        /\ OpenFills(k + 1)' = {}
    <2>1. /\ Len(events') = k + 1 /\ events'[k + 1] = e /\ DOMAIN events' = 1 .. k + 1
          /\ OpenFills(k + 1)' = {}
      BY <1>1, LineAppended DEF IInv, ControlInv
    <2> QED
      BY <2>1
  <1>3. TradesInLedger' = Range(trades)
    <2>1. t = [intent |-> e.intent, entry |-> t.entry, exit |-> t.exit, pnl |-> e.pnl]
      BY DEF Trades
    <2>2. TradesInLedger' = TradesInLedger \cup {t}
      BY <1>1, <2>1, LedgerGrows
    <2>3. TradesInLedger = Range(closed)
      BY DEF LedgerTells
    <2> QED
      BY <2>2, <2>3, RangeAppend
  <1>4. OldLinesTell(closed, trades)'
    BY OldLines
  <1>5. OpenFills(Len(events))' = {}
    BY <1>2 DEF OpenFills
  <1>6. PICK s : s = Len(closed)
    OBVIOUS
  <1>7. /\ s \in Nat /\ DOMAIN closed = 1 .. s /\ DOMAIN trades = 1 .. s + 1
        /\ Len(trades) = s + 1
        /\ trades[s + 1] = t /\ \A h \in 1 .. s : trades[h] = closed[h]
    BY <1>6, SequenceAppend
  <1>8. \A h \in DOMAIN trades :
           /\ trades[h].exit \in DOMAIN ticks
           /\ \E l \in DOMAIN events' : events'[l].time = ticks[trades[h].exit].time
    <2> TAKE h \in DOMAIN trades
    <2>1. CASE h = s + 1
      <3>1. trades[h] = t
        BY <1>7, <2>1
      <3>2. events'[k + 1].time = ticks[t.exit].time
        BY <1>2
      <3> QED
        BY <1>2, <3>1, <3>2
    <2>2. CASE h \in 1 .. s
      <3>1. trades[h] = closed[h] /\ h \in DOMAIN closed
        BY <1>7, <2>2
      <3>2. /\ closed[h].exit \in DOMAIN ticks
            /\ \E l \in DOMAIN events' : events'[l].time = ticks[closed[h].exit].time
        BY <1>0, <1>4, <3>1 DEF OldLinesTell
      <3> QED
        BY <3>1, <3>2
    <2> QED
      BY <1>7, <2>1, <2>2
  <1>9. trades # <<>> /\ ticks[trades[Len(trades)].exit].time = events'[Len(events')].time
    BY <1>2, <1>7
  <1> QED
    BY <1>0, <1>3, <1>4, <1>5, <1>8, <1>9 DEF LedgerTells, OldLinesTell

(* Disjoint holds of any two intents, not of neighbours only.              *)
LEMMA DisjointFar ==
  ASSUME intents \in IntentLists, Disjoint,
         NEW n \in DOMAIN intents, NEW k \in DOMAIN intents, n < k
  PROVE  intents[n].expiry <= intents[k].time
  <1>1. /\ Len(intents) \in Nat /\ DOMAIN intents = 1 .. Len(intents)
    BY IntentsType
  <1>2. n \in 1 .. Len(intents) - 1 /\ n + 1 \in DOMAIN intents /\ (n + 1 = k \/ n + 1 < k)
    BY <1>1
  <1>3. intents[n].expiry <= intents[n + 1].time
    BY <1>2 DEF Disjoint
  <1>4. intents[n + 1].time <= intents[k].time
    BY <1>2, IntentsType
  <1>5. intents[n].expiry \in Int /\ intents[n + 1].time \in Int /\ intents[k].time \in Int
    BY <1>2, IntentLevels
  <1> QED
    BY <1>3, <1>4, <1>5

(* Dates run with the times, of ticks and of intents.                      *)
LEMMA DatesRun ==
  ASSUME ticks \in Streams, intents \in IntentLists
  PROVE  /\ \A i, j \in DOMAIN ticks : i <= j =>
              /\ ticks[i].time <= ticks[j].time
              /\ SessionDate(ticks[i].time) <= SessionDate(ticks[j].time)
         /\ \A i, j \in DOMAIN ticks : ticks[i].time <= ticks[j].time => i <= j
         /\ \A i \in DOMAIN ticks : SessionDate(ticks[i].time) \in Int
         /\ \A i \in DOMAIN ticks, n \in DOMAIN intents :
              /\ intents[n].time <= ticks[i].time =>
                   SessionDate(intents[n].time) <= SessionDate(ticks[i].time)
              /\ SessionDate(intents[n].time) \in Int
  <1>1. /\ DOMAIN ticks = 1 .. Len(ticks) /\ Len(ticks) \in Nat
        /\ \A i \in DOMAIN ticks : ticks[i].time \in Int
        /\ \A i, j \in DOMAIN ticks : i < j => ticks[i].time < ticks[j].time
    BY TicksType
  <1>2. /\ \A i, j \in DOMAIN ticks : i < j =>
              SessionDate(ticks[i].time) <= SessionDate(ticks[j].time)
        /\ \A i \in DOMAIN ticks : SessionDate(ticks[i].time) \in Int
    BY LastTick
  <1>3. ASSUME NEW i \in DOMAIN ticks, NEW j \in DOMAIN ticks, i <= j
        PROVE  /\ ticks[i].time <= ticks[j].time
               /\ SessionDate(ticks[i].time) <= SessionDate(ticks[j].time)
    <2>1. i = j \/ i < j
      BY <1>1, <1>3
    <2>2. CASE i = j
      BY <1>1, <1>2, <2>2
    <2>3. CASE i < j
      <3>1. ticks[i].time < ticks[j].time /\ ticks[i].time \in Int /\ ticks[j].time \in Int
        BY <1>1, <2>3
      <3> QED
        BY <1>2, <2>3, <3>1
    <2> QED
      BY <2>1, <2>2, <2>3
  <1>4. ASSUME NEW i \in DOMAIN ticks, NEW j \in DOMAIN ticks,
               ticks[i].time <= ticks[j].time
        PROVE  i <= j
    <2>1. ticks[i].time \in Int /\ ticks[j].time \in Int /\ i \in Int /\ j \in Int
          /\ (j < i => ticks[j].time < ticks[i].time)
      BY <1>1
    <2> QED
      BY <1>4, <2>1
  <1>5. \A i \in DOMAIN ticks, n \in DOMAIN intents :
          /\ intents[n].time <= ticks[i].time =>
               SessionDate(intents[n].time) <= SessionDate(ticks[i].time)
          /\ SessionDate(intents[n].time) \in Int
    BY ReplayAssumption
  <1> QED
    BY <1>2, <1>3, <1>4, <1>5

(* The trade of the open position: where it began, and that no tick ended  *)
(* it.                                                                     *)
IsOpenTrade(i, b, m, closed, trades) ==
  /\ i \in OpenFills(Len(events)) /\ i \in DOMAIN events /\ b \in DOMAIN ticks
  /\ ticks[b].time = events[i].time /\ m \in DOMAIN intents
  /\ position = [intent |-> m, time |-> ticks[b].time, entry |-> ticks[b].price,
                 stop |-> intents[m].stop, target |-> intents[m].target]
  /\ trades = Append(closed, TradeAt(m, b))

NotYetLeft(b, m) ==
  /\ b <= Latest
  /\ \A k \in b + 1 .. at - 1 : ~Hits(m, k)
  /\ \A k \in b .. Latest : SessionDate(ticks[k].time) = SessionDate(ticks[b].time)
  /\ previous = None => SessionDate(ticks[at].time) = SessionDate(ticks[b].time)

(* The open position is of the last of the trades ...                      *)
LEMMA OpenInTrades ==
  ASSUME IInv, NEW m, NEW closed, NEW trades, LedgerTells(m, closed, trades),
         position = OpenInLedger, position # None
  PROVE  \E i, b : IsOpenTrade(i, b, m, closed, trades)
  <1>1. events \in Seq(Lines) /\ ticks \in Streams
    BY DEF IInv, ControlInv
  <1>2. PICK i : i \in OpenFills(Len(events))
    BY LedgerPosition
  <1>3. PICK b \in DOMAIN ticks :
          /\ ticks[b].time = events[i].time /\ events[i].intent = m
          /\ trades = Append(closed, TradeAt(m, b))
    BY <1>2 DEF LedgerTells
  <1>4. i \in DOMAIN events
    BY <1>1, <1>2 DEF OpenFills
  <1>5. m \in DOMAIN intents
    BY <1>3, <1>4 DEF IInv, LinesInv
  <1>6. position = PositionOf(events[i])
    BY <1>1, <1>2, LedgerPosition
  <1>7. (CHOOSE j \in DOMAIN ticks : ticks[j].time = events[i].time) = b
    BY <1>1, <1>3, TickOfTime
  <1>8. position = [intent |-> m, time |-> ticks[b].time, entry |-> ticks[b].price,
                    stop |-> intents[m].stop, target |-> intents[m].target]
    BY <1>3, <1>6, <1>7 DEF PositionOf
  <1>9. IsOpenTrade(i, b, m, closed, trades)
    BY <1>2, <1>3, <1>4, <1>5, <1>8 DEF IsOpenTrade
  <1> QED
    BY <1>9

(* ... and no tick has ended it so far.                                    *)
LEMMA OpenTrade ==
  ASSUME IInv, Running, position # None, NEW m, NEW closed, NEW trades,
         LedgerTells(m, closed, trades), StillOpen(m)
  PROVE  \E i, b : IsOpenTrade(i, b, m, closed, trades) /\ NotYetLeft(b, m)
  <1>1. position = OpenInLedger /\ ticks \in Streams
    BY DEF IInv, PositionInv, Running, ControlInv
  <1>2. PICK i, b : IsOpenTrade(i, b, m, closed, trades)
    BY <1>1, OpenInTrades
  <1>3. PICK e \in DOMAIN ticks : ticks[e].time = position.time /\ NotYetLeft(e, m)
    BY DEF StillOpen, NotYetLeft
  <1>4. ticks[e].time = ticks[b].time /\ b \in DOMAIN ticks
    BY <1>2, <1>3 DEF IsOpenTrade
  <1>5. e = b
    <2>1. (CHOOSE j \in DOMAIN ticks : ticks[j].time = ticks[b].time) = b
      BY <1>1, <1>4, TickOfTime
    <2>2. (CHOOSE j \in DOMAIN ticks : ticks[j].time = ticks[e].time) = e
      BY <1>1, <1>3, TickOfTime
    <2> QED
      BY <1>4, <2>1, <2>2
  <1> QED
    BY <1>2, <1>3, <1>5

(* While flat every trade is closed.                                       *)
LEMMA FlatTrades ==
  ASSUME IInv, pc # "off", position = None, NEW m, NEW closed, NEW trades,
         LedgerTells(m, closed, trades)
  PROVE  trades = closed /\ OpenFills(Len(events)) = {}
  BY FlatLedger DEF LedgerTells

(* The open position is closed where the trade ends: the ledger then holds *)
(* the trades of the first m intents, and the counters count them.         *)
LEMMA CloseBooks ==
  ASSUME IInv, UNCHANGED inputs, NEW m, NEW closed \in Seq(Trades), NEW trades, NEW i, NEW b,
         LastUsed(m), LedgerTells(m, closed, trades), IsOpenTrade(i, b, m, closed, trades),
         NEW x \in DOMAIN ticks, NEW pnl,
         TradeAt(m, b) = [intent |-> m, entry |-> b, exit |-> x, pnl |-> pnl],
         NEW e \in Lines, events' = Append(events, e), e.event = "POSITION_CLOSED",
         e.time = ticks[x].time, e.intent = m, e.pnl = pnl,
         NEW d, SessionDate(ticks[b].time) = d, Counted(risk, closed, trades, d)
  PROVE  /\ LastUsed(m)' /\ LedgerTells(m, trades, trades)'
         /\ Counted(RecordClose(risk, pnl), trades, trades, d)
         /\ trades[Len(trades)] = [intent |-> m, entry |-> b, exit |-> x, pnl |-> pnl]
         /\ OpenFills(Len(events))' = {}
  <1>1. /\ ticks \in Streams /\ intents \in IntentLists /\ risk \in RiskStates
        /\ m \in DOMAIN intents /\ b \in DOMAIN ticks /\ i \in OpenFills(Len(events))
        /\ ticks[b].time = events[i].time /\ trades = Append(closed, TradeAt(m, b))
    BY DEF IInv, ControlInv, TypeOK, IsOpenTrade
  <1>2. PICK t \in Trades : t = TradeAt(m, b)
    BY <1>1, TradeAtType
  <1>3. t.intent = m /\ t.entry = b /\ t.exit = x /\ t.pnl = pnl
    BY <1>2
  <1>4. m \in Nat /\ m # 0
    BY <1>1, IntentLevels
  <1>5. LastUsed(m)'
    BY <1>4, CloseUsesNone
  <1>6. trades = Append(closed, t)
    BY <1>1, <1>2
  <1>7. LedgerTells(m, trades, trades)'
    BY <1>1, <1>3, <1>6, CloseTells
  <1>8. t.entry \in Days(d)
    BY <1>1, <1>3 DEF Days
  <1>9. Counted(RecordClose(risk, t.pnl), Append(closed, t), trades, d)
    BY <1>1, <1>8, CloseCounts
  <1>10. trades[Len(trades)] = t
    <2>1. PICK s : s = Len(closed)
      OBVIOUS
    <2>2. Len(trades) = s + 1 /\ trades[s + 1] = t
      BY <1>6, <2>1, SequenceAppend
    <2> QED
      BY <2>2
  <1>11. OpenFills(Len(events))' = {}
    <2>1. PICK k \in Nat : k = Len(events)
      BY DEF IInv, ControlInv
    <2>2. Len(events') = k + 1 /\ OpenFills(k + 1)' = {}
      BY <2>1, LineAppended DEF IInv, ControlInv
    <2> QED
      BY <2>2 DEF OpenFills
  <1> QED
    BY <1>2, <1>3, <1>5, <1>6, <1>7, <1>9, <1>10, <1>11

-----------------------------------------------------------------------------
(* The steps, each of which keeps it.                                      *)

(* The fields of a trade.                                                  *)
LEMMA TradesType ==
  ASSUME NEW trades \in Seq(Trades), NEW i \in DOMAIN trades
  PROVE  /\ trades[i] \in Trades /\ trades[i].entry \in Nat
         /\ trades[i].exit \in Nat /\ trades[i].pnl \in Int
  <1>1. trades[i] \in Trades
    OBVIOUS
  <1> QED
    BY <1>1 DEF Trades

(* The last of some trades.                                                *)
LEMMA LastTrade ==
  ASSUME NEW trades \in Seq(Trades), trades # <<>>
  PROVE  /\ Len(trades) \in DOMAIN trades /\ trades[Len(trades)] \in Trades
         /\ trades[Len(trades)].exit \in Nat /\ Last(trades) = trades[Len(trades)]
  <1>1. Len(trades) \in DOMAIN trades /\ trades[Len(trades)] \in Trades
    OBVIOUS
  <1> QED
    BY <1>1 DEF Trades, Last

(* A step that writes nothing tells nothing new.                           *)
LEMMA LedgerStays ==
  ASSUME UNCHANGED <<inputs, events>>, NEW m, NEW closed, NEW trades
  PROVE  /\ LastUsed(m) => LastUsed(m)'
         /\ LedgerTells(m, closed, trades) => LedgerTells(m, closed, trades)'
         /\ OpenFills(Len(events))' = OpenFills(Len(events))
  <1>1. ticks' = ticks /\ intents' = intents /\ events' = events
    BY DEF inputs
  <1>2. \A n : OpenFills(n)' = OpenFills(n)
    BY <1>1 DEF OpenFills
  <1>3. TradesInLedger' = TradesInLedger
    BY <1>1, <1>2 DEF TradesInLedger, TradeOfClose
  <1>4. LastUsed(m) => LastUsed(m)'
    BY <1>1 DEF LastUsed
  <1>5. \A e : TradeAt(m, e)' = TradeAt(m, e)
    BY InputsSame
  <1>6. OpenFills(Len(events))' = OpenFills(Len(events))
    BY <1>1, <1>2
  <1>7. LedgerTells(m, closed, trades) => LedgerTells(m, closed, trades)'
    BY <1>1, <1>3, <1>5, <1>6 DEF LedgerTells
  <1> QED
    BY <1>4, <1>6, <1>7

(* No intent fills at the tick at hand that has not its turn at it.        *)
LEMMA NoChanceWithoutTurn ==
  ASSUME IInv, Disjoint, pc = "intents", NEW m \in Nat, NEW trades,
         Coming, Waiting, Passed(m),
         NEW n \in m + 1 .. Len(intents), at \in Chances(n, trades)
  PROVE  n \in Turns
  <1>1. /\ ticks \in Streams /\ intents \in IntentLists /\ at \in DOMAIN ticks
        /\ at <= Len(ticks) /\ next \in 1 .. Len(intents) + 1
        /\ Len(intents) \in Nat /\ at \in 1 .. at
    <2>1. /\ ticks \in Streams /\ intents \in IntentLists /\ at <= Len(ticks)
          /\ next \in 1 .. Len(intents) + 1
      BY DEF IInv, ControlInv, TypeOK
    <2>2. at \in DOMAIN ticks
      BY <2>1, TickAtHand
    <2> QED
      BY <2>1, <2>2, TicksType, IntentsType
  <1>2. n \in DOMAIN intents /\ n \in Nat /\ n # 0 /\ m < n
    BY <1>1, IntentsType
  <1>3. /\ SessionDate(ticks[at].time) = SessionDate(intents[n].time)
        /\ intents[n].time < ticks[at].time /\ ticks[at].time < intents[n].expiry
        /\ ticks[at].price >= intents[n].trigger
    BY DEF Chances, OnDateOf
  <1>4. /\ ticks[at].time \in Int /\ intents[n].time \in Int /\ intents[n].expiry \in Int
        /\ SessionDate(ticks[at].time) \in Int
    BY <1>1, <1>2, IntentLevels, TicksType, LastTick
  <1>5. n < next
    <2> SUFFICES ASSUME n >= next PROVE FALSE
      BY <1>1, <1>2
    <2>1. ticks[at].time < intents[n].time
      BY <1>1, <1>2 DEF Coming, Latest
    <2> QED
      BY <1>3, <1>4, <2>1
  <1>6. n \in pending
    <2> SUFFICES ASSUME n \notin pending PROVE FALSE
      OBVIOUS
    <2>1. n \in m + 1 .. next - 1
      BY <1>1, <1>2, <1>5
    <2>2. \/ intents[n].expiry <= ticks[at].time
          \/ SessionDate(intents[n].time) < SessionDate(ticks[at].time)
      BY <1>1, <2>1 DEF Passed
    <2> QED
      BY <1>3, <1>4, <2>2
  <1>7. Reached(n)
    BY <1>3, <1>4 DEF Reached, Tick
  <1>8. n >= turn
    <2>1. CASE turn = 1
      BY <1>2, <2>1
    <2>2. CASE turn # 1
      <3>1. m # 0 /\ ticks[at].time < intents[m].expiry
        BY <2>2 DEF Passed
      <3>2. m \in DOMAIN intents
        BY <1>1, <1>2, <3>1, IntentsType
      <3>3. intents[m].expiry <= intents[n].time
        BY <1>1, <1>2, <3>2, DisjointFar
      <3>4. intents[m].expiry \in Int
        BY <1>1, <3>2, IntentLevels
      <3> QED
        BY <1>3, <1>4, <3>1, <3>3, <3>4
    <2> QED
      BY <2>1, <2>2
  <1> QED
    BY <1>6, <1>7, <1>8 DEF Turns

(* With no turn left no intent has its chance at this tick.                *)
LEMMA NoMoreTurnsTold ==
  ASSUME IInv, Disjoint, NEW m \in Nat, NEW closed, NEW trades \in Seq(Trades),
         Told(m, closed, trades), NoMoreTurns
  PROVE  Told(m, closed, trades)'
  <1>1. /\ pc = "intents" /\ pc' = "process" /\ Turns = {} /\ UNCHANGED inputs
        /\ ticks' = ticks /\ intents' = intents
        /\ UNCHANGED <<events, at, next, pending, turn, position, risk,
                       previous, crashes, strayed>>
    BY DEF NoMoreTurns, inputs
  <1>2. WhileRunning(m, closed, trades) /\ LastUsed(m) /\ LedgerTells(m, closed, trades)
    BY <1>1 DEF Told, Running
  <1>3. LastUsed(m)' /\ LedgerTells(m, closed, trades)'
    BY <1>1, <1>2, LedgerStays
  <1>4. Latest' = Latest /\ Latest = at /\ Handled = at /\ Handled' = at + 1
    BY <1>1 DEF Latest, Handled
  <1>5. at \in Nat /\ position = None /\ ticks \in Streams
    BY <1>1, TicksType DEF IInv, ControlInv, TypeOK
  <1>6. ChancesAhead(m, trades)'
    <2>1. ASSUME NEW n \in m + 1 .. Len(intents), NEW j \in Chances(n, trades)
          PROVE  j >= at + 1
      <3>1. j >= at /\ j \in Nat
        BY <1>2, <1>4, <1>5, ChancesType DEF WhileRunning, ChancesAhead
      <3>2. j # at
        BY <1>1, <1>2, NoChanceWithoutTurn DEF WhileRunning
      <3> QED
        BY <1>5, <3>1, <3>2
    <2>2. \A n : Chances(n, trades)' = Chances(n, trades)
      BY <1>1, InputsSame
    <2> QED
      BY <1>1, <1>4, <2>1, <2>2 DEF ChancesAhead
  <1>7. TradesBehind(trades)'
    <2>1. TradesBehind(trades) /\ position' = None
      BY <1>1, <1>2, <1>5 DEF WhileRunning
    <2>2. \A i \in DOMAIN trades : trades[i].entry < at + 1
      <3> TAKE i \in DOMAIN trades
      <3>1. trades[i].entry < at
        BY <1>4, <2>1 DEF TradesBehind
      <3>2. trades[i].entry \in Nat
        BY TradesType
      <3> QED
        BY <1>5, <3>1, <3>2
    <2>3. trades # <<>> => trades[Len(trades)].exit < at + 1
      <3> HAVE trades # <<>>
      <3>1. trades[Len(trades)].exit < at /\ trades[Len(trades)].exit \in Nat
        BY <1>4, <1>5, <2>1, LastTrade DEF TradesBehind
      <3> QED
        BY <1>5, <3>1
    <2> QED
      BY <1>4, <2>1, <2>2, <2>3 DEF TradesBehind
  <1>8. StillOpen(m)'
    BY <1>1, <1>5 DEF StillOpen
  <1>9. Coming' /\ Waiting' /\ Passed(m)'
    <2>1. Coming /\ Waiting /\ Passed(m)
      BY <1>2 DEF WhileRunning
    <2>2. Coming'
      BY <1>1, <1>4, <2>1 DEF Coming
    <2>3. Waiting'
      BY <1>1, <1>4, <2>1 DEF Waiting
    <2>4. Passed(m)'
      BY <1>1, <1>4, <2>1 DEF Passed
    <2> QED
      BY <2>2, <2>3, <2>4
  <1>10. Counted(risk, closed, trades, Session)'
    <2>1. PICK d : d = Session
      OBVIOUS
    <2>2. Session' = d /\ risk' = risk
      BY <1>1, <2>1 DEF Session
    <2>3. Counted(risk, closed, trades, d)
      BY <1>2, <2>1 DEF WhileRunning
    <2> QED
      BY <1>1, <2>2, <2>3 DEF Counted, Days
  <1>11. WhileRunning(m, closed, trades)'
    BY <1>6, <1>7, <1>8, <1>9, <1>10 DEF WhileRunning
  <1> QED
    BY <1>1, <1>3, <1>11 DEF Told

(* An intent with its turn fills here or never: the ones before it have no *)
(* chance left, and this tick is the first of its own.                     *)
LEMMA FirstChance ==
  ASSUME IInv, Disjoint, ComeUpInTime, pc = "intents",
         NEW m \in 0 .. Len(intents), NEW trades \in Seq(Trades),
         LastUsed(m), WhileRunning(m, trades, trades), NEW n \in Turns
  PROVE  /\ n \in DOMAIN intents /\ n \in Nat /\ m < n /\ n < next /\ n \in pending
         /\ intents[n].time < ticks[at].time /\ ticks[at].time < intents[n].expiry
         /\ at \in Chances(n, trades) /\ Min(Chances(n, trades)) = at
         /\ \A k \in m + 1 .. n - 1 : Chances(k, trades) = {}
  <1>1. /\ ticks \in Streams /\ intents \in IntentLists /\ at <= Len(ticks)
        /\ events \in Seq(Lines)
        /\ next \in 1 .. Len(intents) + 1 /\ pending \subseteq 1 .. next - 1
        /\ position = None /\ Len(intents) \in Nat /\ m \in Nat
    BY IntentsType DEF IInv, ControlInv, TypeOK
  <1>2. at \in DOMAIN ticks /\ at \in Nat /\ ticks[at].time \in Int
    <2>1. at \in DOMAIN ticks
      BY <1>1, TickAtHand
    <2> QED
      BY <1>1, <2>1, TicksType
  <1>3. /\ n \in pending /\ ticks[at].time > intents[n].time
        /\ ticks[at].price >= intents[n].trigger
    BY DEF Turns, Reached, Tick
  <1>4. n \in Nat /\ n < next /\ n \in DOMAIN intents /\ n \in 1 .. Len(intents)
    <2>1. n \in 1 .. next - 1
      BY <1>1, <1>3
    <2>2. n \in Nat /\ n < next /\ n \in 1 .. Len(intents)
      BY <1>1, <2>1
    <2> QED
      BY <1>1, <2>2, IntentsType
  <1>5. intents[n].time \in Int /\ intents[n].expiry \in Int
    BY <1>1, <1>4, IntentLevels
  <1>6. ticks[at].time < intents[n].expiry
    BY <1>3 DEF WhileRunning, Waiting
  <1>7. m < n
    <2>1. CASE m = 0
      BY <1>4, <2>1
    <2>2. CASE m # 0
      <3>1. PICK i \in DOMAIN events : /\ events[i].event # "POSITION_CLOSED"
                                       /\ events[i].intent = m
        BY <2>2 DEF LastUsed
      <3>2. m \notin pending /\ intents[m].time < events[i].time /\ m \in DOMAIN intents
            /\ events[i].time <= ticks[at].time
        BY <1>1, <3>1 DEF IInv, UsedInv, Running, LinesInv, TimeInv
      <3>3. events[i].time \in Int /\ intents[m].time \in Int
        BY <1>1, <3>1, <3>2, LinesType, IntentLevels
      <3>4. ~(n < m)
        <4> SUFFICES ASSUME n < m PROVE FALSE
          OBVIOUS
        <4>1. intents[n].expiry <= intents[m].time
          BY <1>1, <1>4, <3>2, DisjointFar
        <4> QED
          BY <1>2, <1>5, <1>6, <3>2, <3>3, <4>1
      <3> QED
        BY <1>1, <1>3, <1>4, <3>2, <3>4
    <2> QED
      BY <2>1, <2>2
  <1>8. at \in OnDateOf(intents[n].time)
    <2> SUFFICES ASSUME at \notin OnDateOf(intents[n].time) PROVE FALSE
      OBVIOUS
    <2>1. PICK j \in OnDateOf(intents[n].time) : intents[n].time <= ticks[j].time
      BY <1>2, <1>3, <1>4, <1>5, <1>6 DEF ComeUpInTime
    <2>2. j \in DOMAIN ticks /\ SessionDate(ticks[j].time) = SessionDate(intents[n].time)
      BY <2>1 DEF OnDateOf
    <2>3. SessionDate(ticks[at].time) # SessionDate(intents[n].time)
      BY <1>2 DEF OnDateOf
    <2>4. j \in Nat
      BY <1>1, <2>2, TicksType
    <2>5. CASE j <= at
      <3>1. j \in 1 .. at
        BY <1>1, <1>2, <2>2, <2>5, TicksType
      <3>2. SessionDate(ticks[j].time) = SessionDate(ticks[at].time)
        <4>1. Latest = at
          BY DEF Latest
        <4>2. /\ n \in pending
              /\ \A i \in 1 .. Latest : intents[n].time <= ticks[i].time =>
                   SessionDate(ticks[i].time) = SessionDate(ticks[Latest].time)
          BY <1>3 DEF WhileRunning, Waiting
        <4> QED
          BY <2>1, <3>1, <4>1, <4>2
      <3> QED
        BY <2>2, <2>3, <3>2
    <2>6. CASE at <= j
      <3>1. SessionDate(intents[n].time) <= SessionDate(ticks[at].time)
        BY <1>1, <1>2, <1>3, <1>4, <1>5, DatesRun
      <3>2. SessionDate(ticks[at].time) <= SessionDate(ticks[j].time)
        BY <1>1, <1>2, <2>2, <2>6, DatesRun
      <3>3. SessionDate(ticks[at].time) \in Int /\ SessionDate(ticks[j].time) \in Int
        BY <1>1, <1>2, <2>2, DatesRun
      <3> QED
        BY <2>2, <2>3, <3>1, <3>2, <3>3
    <2> QED
      BY <1>2, <2>4, <2>5, <2>6
  <1>9. Handled = at
    BY DEF Handled
  <1>10. at \in Chances(n, trades)
    <2>1. trades # <<>> => at > Last(trades).exit
      <3> HAVE trades # <<>>
      <3>1. trades[Len(trades)].exit < at
        BY <1>1, <1>9 DEF WhileRunning, TradesBehind
      <3> QED
        BY <1>2, <3>1, LastTrade
    <2>2. intents[n].time < ticks[at].time
      BY <1>2, <1>3, <1>5
    <2> QED
      BY <1>3, <1>6, <1>8, <2>1, <2>2 DEF Chances
  <1>11. \A k \in m + 1 .. n : k \in m + 1 .. Len(intents)
    BY <1>1, <1>4
  <1>12. \A k \in m + 1 .. n : \A j \in Chances(k, trades) : j >= at /\ j \in Nat
    BY <1>1, <1>9, <1>11, ChancesType DEF WhileRunning, ChancesAhead
  <1>13. Min(Chances(n, trades)) = at
    <2>1. n \in m + 1 .. n
      BY <1>1, <1>4, <1>7
    <2>2. Min(Chances(n, trades)) \in Chances(n, trades)
          /\ \A y \in Chances(n, trades) : Min(Chances(n, trades)) <= y
      BY <1>1, <1>10, ChancesType, MinIsLeast
    <2> QED
      BY <1>2, <1>10, <1>12, <2>1, <2>2
  <1>14. ASSUME NEW k \in m + 1 .. n - 1 PROVE Chances(k, trades) = {}
    <2> SUFFICES ASSUME NEW j \in Chances(k, trades) PROVE FALSE
      OBVIOUS
    <2>1. k \in m + 1 .. n /\ k < n /\ k \in 1 .. Len(intents)
      BY <1>1, <1>4
    <2>2. j >= at /\ j \in DOMAIN ticks /\ ticks[j].time < intents[k].expiry
      BY <1>1, <1>12, <2>1, ChancesType DEF Chances
    <2>3. k \in DOMAIN intents
      BY <1>1, <2>1, IntentsType
    <2>4. intents[k].expiry <= intents[n].time /\ intents[k].expiry \in Int
      BY <1>1, <1>4, <2>1, <2>3, DisjointFar, IntentLevels
    <2>5. ticks[at].time <= ticks[j].time /\ ticks[j].time \in Int
      <3>1. at <= j
        BY <1>1, <1>2, <2>2, TicksType
      <3> QED
        BY <1>1, <1>2, <2>2, <3>1, DatesRun, TicksType
    <2> QED
      BY <1>2, <1>3, <1>5, <2>2, <2>4, <2>5
  <1> QED
    BY <1>2, <1>3, <1>4, <1>5, <1>6, <1>7, <1>10, <1>13, <1>14

(* So it trades if the broker accepts it; with the switch off and no       *)
(* position in the ledger, that is up to its bracket and the limits.       *)
LEMMA TurnTrades ==
  ASSUME IInv, Disjoint, ComeUpInTime, pc = "intents", switch # "on",
         NEW m \in 0 .. Len(intents), NEW trades \in Seq(Trades), trades = TradesAfter[m],
         LastUsed(m), WhileRunning(m, trades, trades), NEW n \in Turns
  PROVE  TradesAfter[n] = IF SubmitAllowed(n) THEN Append(trades, TradeAt(n, at)) ELSE trades
  <1>1. /\ ticks \in Streams /\ intents \in IntentLists /\ risk \in RiskStates
        /\ at <= Len(ticks)
    BY DEF IInv, ControlInv, TypeOK
  <1>2. /\ n \in DOMAIN intents /\ n \in Nat /\ m < n
        /\ at \in Chances(n, trades) /\ Min(Chances(n, trades)) = at
        /\ \A k \in m + 1 .. n - 1 : Chances(k, trades) = {}
    BY FirstChance
  <1>3. /\ n - 1 \in m .. Len(intents) /\ n \in 1 .. Len(intents) /\ m \in Nat
    BY <1>1, <1>2, IntentsType
  <1>4. TradesAfter[n - 1] = trades
    BY <1>1, <1>2, <1>3, NoChanceNoTrade
  <1>5. TradesAfter[n] = Consider(n, trades)
    BY <1>1, <1>3, <1>4, TradesAfterSteps
  <1>6. at \in DOMAIN ticks
    BY <1>1, TickAtHand
  <1>7. Counted(risk, trades, trades, SessionDate(ticks[at].time))
    BY DEF WhileRunning, Session
  <1>8. CheckBuy(risk, ticks[at].price, intents[n].stop)
          <=> intents[n].stop < ticks[at].price /\ LimitsAllow(trades, at)
    BY <1>1, <1>6, <1>7, LimitsAsCounted
  <1>9. SubmitAllowed(n) <=> /\ intents[n].stop < ticks[at].price
                             /\ ticks[at].price < intents[n].target
                             /\ LimitsAllow(trades, at)
    <2>1. LedgerAllows
      BY DEF LedgerAllows, IInv, ControlInv, PositionInv
    <2> QED
      BY <1>8, <2>1 DEF SubmitAllowed, Tick
  <1>10. Consider(n, trades) =
           IF /\ intents[n].stop < ticks[at].price
              /\ ticks[at].price < intents[n].target
              /\ LimitsAllow(trades, at)
             THEN Append(trades, TradeAt(n, at)) ELSE trades
    BY <1>2 DEF Consider
  <1> QED
    BY <1>5, <1>9, <1>10

(* A refused intent: its line and nothing more.                            *)
LEMMA RejectTold ==
  ASSUME IInv, Disjoint, ComeUpInTime, pc = "intents",
         NEW m \in 0 .. Len(intents), NEW trades \in Seq(Trades),
         LastUsed(m), LedgerTells(m, trades, trades), WhileRunning(m, trades, trades),
         NEW n \in Turns, UNCHANGED <<inputs, at, next, previous, position, risk, pc>>,
         events' = Append(events, Line("REJECT", Tick.time, n, 0, None)),
         pending' = pending \ {n}
  PROVE  Told(n, trades, trades)'
  <1>1. /\ ticks' = ticks /\ intents' = intents /\ position = None /\ at \in DOMAIN ticks
        /\ ticks \in Streams /\ Tick.time \in Int
    BY TickAtHand DEF inputs, IInv, ControlInv
  <1>2. /\ n \in DOMAIN intents /\ n \in Nat /\ m < n /\ m \in Nat /\ n # 0
        /\ ticks[at].time < intents[n].expiry
    <2>1. /\ n \in DOMAIN intents /\ n \in Nat /\ m < n
          /\ ticks[at].time < intents[n].expiry
      BY FirstChance
    <2>2. m \in Nat
      BY IntentsType DEF IInv, ControlInv
    <2> QED
      BY <2>1, <2>2
  <1>3. PICK e \in Lines : /\ e = Line("REJECT", Tick.time, n, 0, None)
                           /\ e.event = "REJECT" /\ e.intent = n /\ e.time = ticks[at].time
    <2>1. PICK time \in Int : time = Tick.time
      BY <1>1
    <2>2. PICK l : l = Line("REJECT", time, n, 0, None)
      OBVIOUS
    <2>3. /\ l \in Lines /\ l.event = "REJECT" /\ l.intent = n /\ l.time = time
      BY <1>2, <2>2 DEF Line, Lines, LineKinds
    <2> QED
      BY <2>1, <2>2, <2>3 DEF Tick
  <1>4. OpenFills(Len(events)) = {} /\ events' = Append(events, e)
    BY <1>1, <1>3, FlatLedger
  <1>5. LastUsed(n)' /\ LedgerTells(n, trades, trades)'
    <2>1. e.time < intents[n].expiry /\ e.event # "POSITION_CLOSED"
      BY <1>2, <1>3
    <2>2. LastUsed(n)'
      BY <1>2, <1>3, <1>4, <2>1, UseIsLast
    <2>3. LedgerTells(n, trades, trades)'
      BY <1>3, <1>4, RejectTells
    <2> QED
      BY <2>2, <2>3
  <1>6. Latest' = Latest /\ Handled' = Handled
    BY DEF Latest, Handled
  <1>7. ChancesAhead(n, trades)'
    <2>1. \A k \in n + 1 .. Len(intents) : k \in m + 1 .. Len(intents)
      BY <1>1, <1>2, IntentsType DEF IInv, ControlInv
    <2>2. \A k : Chances(k, trades)' = Chances(k, trades)
      BY InputsSame
    <2> QED
      BY <1>1, <1>6, <2>1, <2>2 DEF ChancesAhead, WhileRunning
  <1>8. TradesBehind(trades)' /\ StillOpen(n)'
    BY <1>1, <1>6 DEF TradesBehind, StillOpen, WhileRunning
  <1>9. Coming' /\ Waiting'
    BY <1>1, <1>6 DEF Coming, Waiting, WhileRunning
  <1>10. Passed(n)'
    <2>1. \A k \in n + 1 .. next - 1 : /\ k \in m + 1 .. next - 1
                                       /\ k \notin pending' => k \notin pending
      <3>1. next \in Int
        BY IntentsType DEF IInv, ControlInv, TypeOK
      <3> QED
        BY <1>2, <3>1
    <2> QED
      BY <1>1, <1>2, <2>1 DEF Passed, WhileRunning
  <1>11. Counted(risk, trades, trades, Session)'
    <2>1. PICK d : d = Session
      OBVIOUS
    <2>2. Session' = d /\ risk' = risk
      BY <1>1, <2>1 DEF Session
    <2>3. Counted(risk, trades, trades, d)
      BY <2>1 DEF WhileRunning
    <2> QED
      BY <1>1, <2>2, <2>3 DEF Counted, Days
  <1>12. WhileRunning(n, trades, trades)'
    BY <1>7, <1>8, <1>9, <1>10, <1>11 DEF WhileRunning
  <1> QED
    BY <1>5, <1>12 DEF Told

(* A filled one: its trade is the next.                                    *)
LEMMA FillTold ==
  ASSUME IInv, Disjoint, ComeUpInTime, pc = "intents",
         NEW m \in 0 .. Len(intents), NEW trades \in Seq(Trades),
         LastUsed(m), LedgerTells(m, trades, trades), WhileRunning(m, trades, trades),
         NEW n \in Turns, UNCHANGED <<inputs, at, next, previous>>,
         Open(n), risk' = CountTrade(risk), pc' = "process",
         events' = Append(events, Line("BUY_FILLED", Tick.time, n, 0, None)),
         pending' = pending \ {n}, NEW more, more = Append(trades, TradeAt(n, at))
  PROVE  Told(n, trades, more)'
  <1>1. /\ ticks' = ticks /\ intents' = intents /\ position = None /\ at \in DOMAIN ticks
        /\ ticks \in Streams /\ intents \in IntentLists /\ Tick.time \in Int
        /\ at \in Nat /\ risk \in RiskStates
    <2>1. /\ ticks' = ticks /\ intents' = intents /\ position = None /\ at <= Len(ticks)
          /\ ticks \in Streams /\ intents \in IntentLists /\ risk \in RiskStates
      BY DEF inputs, IInv, ControlInv, TypeOK
    <2>2. at \in DOMAIN ticks /\ Tick.time \in Int
      BY <2>1, TickAtHand
    <2> QED
      BY <2>1, <2>2, TicksType
  <1>2. /\ n \in DOMAIN intents /\ n \in Nat /\ m < n /\ m \in Nat /\ n # 0
        /\ ticks[at].time < intents[n].expiry
    <2>1. /\ n \in DOMAIN intents /\ n \in Nat /\ m < n
          /\ ticks[at].time < intents[n].expiry
      BY FirstChance
    <2>2. m \in Nat
      BY IntentsType DEF IInv, ControlInv
    <2> QED
      BY <2>1, <2>2
  <1>3. PICK e \in Lines : /\ e = Line("BUY_FILLED", Tick.time, n, 0, None)
                           /\ e.event = "BUY_FILLED" /\ e.intent = n /\ e.time = ticks[at].time
    <2>1. PICK time \in Int : time = Tick.time
      BY <1>1
    <2>2. PICK l : l = Line("BUY_FILLED", time, n, 0, None)
      OBVIOUS
    <2>3. /\ l \in Lines /\ l.event = "BUY_FILLED" /\ l.intent = n /\ l.time = time
      BY <1>2, <2>2 DEF Line, Lines, LineKinds
    <2> QED
      BY <2>1, <2>2, <2>3 DEF Tick
  <1>4. OpenFills(Len(events)) = {} /\ events' = Append(events, e)
    BY <1>1, <1>3, FlatLedger
  <1>5. PICK t \in Trades : t = TradeAt(n, at) /\ t.entry = at /\ at <= t.exit
    BY <1>1, <1>2, TradeAtType
  <1>6. more = Append(trades, t)
    BY <1>5
  <1>7. PICK s : s = Len(trades)
    OBVIOUS
  <1>8. /\ s \in Nat /\ DOMAIN trades = 1 .. s /\ Len(more) = s + 1
        /\ DOMAIN more = 1 .. s + 1 /\ more[s + 1] = t
        /\ \A i \in 1 .. s : more[i] = trades[i]
        /\ more # <<>> /\ more \in Seq(Trades)
    BY <1>6, <1>7, SequenceAppend
  <1>9. LastUsed(n)' /\ LedgerTells(n, trades, more)'
    <2>1. e.time < intents[n].expiry /\ e.event # "POSITION_CLOSED"
      BY <1>2, <1>3
    <2>2. LastUsed(n)'
      BY <1>2, <1>3, <1>4, <2>1, UseIsLast
    <2>3. LedgerTells(n, trades, more)'
      <3>1. PICK b \in DOMAIN ticks : b = at
        BY <1>1
      <3>2. ticks[b].time = e.time /\ more = Append(trades, TradeAt(n, b))
        BY <1>3, <1>5, <1>6, <3>1
      <3> QED
        BY <1>2, <1>3, <1>4, <3>2, FillTells
    <2> QED
      BY <2>2, <2>3
  <1>10. Latest' = at /\ Latest = at /\ Handled' = at + 1 /\ Handled = at
    BY DEF Latest, Handled
  <1>11. ChancesAhead(n, more)'
    <2>1. ASSUME NEW k, NEW j \in Chances(k, more) PROVE j >= at + 1
      <3>1. j > Last(more).exit /\ j \in Nat
        BY <1>1, <1>8, ChancesType DEF Chances
      <3>2. Last(more) = t
        BY <1>8, LastTrade
      <3>3. t.exit \in Nat
        BY DEF Trades
      <3> QED
        BY <1>1, <1>5, <3>1, <3>2, <3>3
    <2>2. \A k : Chances(k, more)' = Chances(k, more)
      BY InputsSame
    <2> QED
      BY <1>10, <2>1, <2>2 DEF ChancesAhead
  <1>12. position' # None /\ position'.time = ticks[at].time
    <2>1. position' = [intent |-> n, time |-> Tick.time, entry |-> Tick.price,
                       stop |-> intents[n].stop, target |-> intents[n].target]
      BY DEF Open
    <2>2. Tick.price \in Int /\ intents[n].stop \in Int /\ intents[n].target \in Int
      BY <1>1, <1>2, TicksType, IntentLevels DEF Tick
    <2>3. position' \in Positions
      BY <1>1, <1>2, <2>1, <2>2 DEF Positions
    <2>4. position' # None
      BY <2>3, ReplayAssumption DEF Positions
    <2> QED
      BY <2>1, <2>4 DEF Tick
  <1>13. TradesBehind(more)'
    <2>1. ASSUME NEW i \in DOMAIN more PROVE more[i].entry < at + 1
      <3>1. CASE i = s + 1
        BY <1>1, <1>5, <1>8, <3>1
      <3>2. CASE i \in 1 .. s
        <4>1. trades[i].entry < at
          BY <1>8, <1>10, <3>2 DEF WhileRunning, TradesBehind
        <4>2. trades[i].entry \in Nat
          BY <1>8, <3>2, TradesType
        <4> QED
          BY <1>1, <1>8, <3>2, <4>1, <4>2
      <3> QED
        BY <1>8, <3>1, <3>2
    <2> QED
      BY <1>10, <1>12, <2>1 DEF TradesBehind
  <1>14. StillOpen(n)'
    <2>1. \A k \in at + 1 .. at - 1 : FALSE
      BY <1>1
    <2>2. \A k \in at .. at : k = at
      BY <1>1
    <2>3. /\ at' = at /\ at \in DOMAIN ticks' /\ at <= Latest'
          /\ ticks'[at].time = position'.time
      BY <1>1, <1>10, <1>12
    <2> QED
      BY <1>1, <1>10, <2>1, <2>2, <2>3 DEF StillOpen
  <1>15. Coming' /\ Waiting'
    BY <1>1, <1>10 DEF Coming, Waiting, WhileRunning
  <1>16. Passed(n)'
    <2>1. \A k \in n + 1 .. next - 1 : /\ k \in m + 1 .. next - 1
                                       /\ k \notin pending' => k \notin pending
      <3>1. next \in Int
        BY IntentsType DEF IInv, ControlInv, TypeOK
      <3> QED
        BY <1>2, <3>1
    <2> QED
      BY <1>1, <1>2, <2>1 DEF Passed, WhileRunning
  <1>17. Counted(risk, trades, more, Session)'
    <2>1. PICK d : d = Session
      OBVIOUS
    <2>2. Session' = d /\ d = SessionDate(ticks[at].time)
      BY <1>1, <2>1 DEF Session
    <2>3. Counted(risk, trades, trades, d)
      BY <2>1 DEF WhileRunning
    <2>4. t.entry \in Days(d)
      BY <1>1, <1>5, <2>2 DEF Days
    <2>5. Counted(CountTrade(risk), trades, more, d)
      BY <1>1, <1>6, <2>3, <2>4, FillCounts
    <2> QED
      BY <1>1, <2>2, <2>5 DEF Counted, Days
  <1>18. WhileRunning(n, trades, more)'
    BY <1>11, <1>13, <1>14, <1>15, <1>16, <1>17 DEF WhileRunning
  <1> QED
    BY <1>9, <1>18 DEF Told

(* What has been read is told: the trades of the first intents.            *)
IsTold ==
  \E m \in 0 .. Len(intents), closed, trades \in Seq(Trades) :
    trades = TradesAfter[m] /\ Told(m, closed, trades)

(* An intent that gets its turn is considered as the documents do.         *)
LEMMA SubmitTurnTold ==
  ASSUME IInv, Disjoint, ComeUpInTime, IsTold, SubmitTurn, switch # "on"
  PROVE  IsTold'
  <1>1. /\ pc = "intents" /\ Turns # {} /\ UNCHANGED <<inputs, at, next, previous>>
        /\ intents' = intents /\ ticks \in Streams /\ intents \in IntentLists
    BY DEF SubmitTurn, inputs, IInv, ControlInv
  <1>2. PICK n : n = Min(Turns)
    OBVIOUS
  <1>3. n \in Turns
    <2>1. Turns \in SUBSET Nat
      <3>1. pending \subseteq Nat
        BY IntentsType DEF IInv, TypeOK, ControlInv
      <3> QED
        BY <3>1 DEF Turns
    <2> QED
      BY <1>1, <1>2, <2>1, MinIsLeast
  <1>4. PICK m \in 0 .. Len(intents), closed \in Seq(Trades), trades \in Seq(Trades) :
          trades = TradesAfter[m] /\ Told(m, closed, trades)
    BY DEF IsTold
  <1>5. /\ LastUsed(m) /\ LedgerTells(m, closed, trades) /\ WhileRunning(m, closed, trades)
        /\ position = None
    BY <1>1, <1>4 DEF Told, Running, IInv, ControlInv
  <1>6. closed = trades
    BY <1>1, <1>5, FlatTrades
  <1>7. TradesAfter[n] = IF SubmitAllowed(n) THEN Append(trades, TradeAt(n, at)) ELSE trades
    BY <1>1, <1>3, <1>4, <1>5, <1>6, TurnTrades
  <1>8. n \in 0 .. Len(intents') /\ TradesAfter' = TradesAfter
        /\ TradesAfter[n] \in Seq(Trades)
    <2>1. n \in DOMAIN intents
      BY <1>1, <1>3, <1>4, <1>5, <1>6, FirstChance
    <2>2. n \in 0 .. Len(intents)
      BY <1>1, <2>1, IntentsType
    <2> QED
      BY <1>1, <2>2, InputsSame, TradesAfterSteps
  <1>9. CASE SubmitAllowed(n)
    <2>1. /\ Open(n) /\ risk' = CountTrade(risk) /\ pc' = "process"
          /\ events' = Append(events, Line("BUY_FILLED", Tick.time, n, 0, None))
          /\ pending' = pending \ {n}
      BY <1>2, <1>9 DEF SubmitTurn
    <2>2. PICK more : more = TradesAfter[n]
      OBVIOUS
    <2>3. more = Append(trades, TradeAt(n, at))
      BY <1>7, <1>9, <2>2
    <2>4. Told(n, trades, more)'
      BY <1>1, <1>3, <1>4, <1>5, <1>6, <2>1, <2>3, FillTold
    <2> QED
      BY <1>8, <2>2, <2>4 DEF IsTold
  <1>10. CASE ~SubmitAllowed(n)
    <2>1. /\ UNCHANGED <<position, risk, pc>>
          /\ events' = Append(events, Line("REJECT", Tick.time, n, 0, None))
          /\ pending' = pending \ {n}
      BY <1>2, <1>10 DEF SubmitTurn
    <2>2. Told(n, trades, trades)'
      BY <1>1, <1>3, <1>4, <1>5, <1>6, <2>1, RejectTold
    <2>3. trades = TradesAfter[n]
      BY <1>7, <1>10
    <2> QED
      BY <1>8, <2>2, <2>3 DEF IsTold
  <1> QED
    BY <1>9, <1>10

(* What is behind the first later one is not later, the rest is.           *)
LEMMA FirstLaterBounds ==
  ASSUME NEW s, Len(s) \in Nat, \A i \in 1 .. Len(s) : s[i].time \in Int,
         \A i, j \in 1 .. Len(s) : i < j => s[i].time <= s[j].time,
         NEW from \in 1 .. Len(s) + 1, NEW time \in Int, NEW f, f = FirstLater(s, from, time)
  PROVE  /\ f \in from .. Len(s) + 1
         /\ \A i \in from .. Len(s) : i < f => s[i].time <= time
         /\ \A i \in 1 .. Len(s) : i >= f => s[i].time > time
  <1> DEFINE S == {i \in from .. Len(s) : s[i].time > time} \cup {Len(s) + 1}
  <1>1. S \in SUBSET Nat /\ S # {}
    OBVIOUS
  <1>2. f \in S /\ \A y \in S : f <= y
    <2>1. f = Min(S)
      BY DEF FirstLater
    <2> HIDE DEF S
    <2>2. S \in SUBSET Nat /\ S # {} => Min(S) \in S /\ \A y \in S : Min(S) <= y
      BY MinIsLeast
    <2> QED
      BY <1>1, <2>1, <2>2
  <1>3. f \in from .. Len(s) + 1 /\ (f <= Len(s) => s[f].time > time)
    BY <1>2
  <1>4. ASSUME NEW i \in from .. Len(s), i < f PROVE s[i].time <= time
    <2>1. i \notin S
      <3> HIDE DEF S
      <3> QED
        BY <1>2, <1>3, <1>4
    <2>2. ~(s[i].time > time) /\ i \in 1 .. Len(s)
      BY <2>1
    <2> QED
      BY <2>2
  <1>5. ASSUME NEW i \in 1 .. Len(s), i >= f PROVE s[i].time > time
    <2>1. f \in 1 .. Len(s) /\ f <= Len(s) /\ (i = f \/ f < i)
      BY <1>3, <1>5
    <2>2. s[f].time \in Int /\ s[i].time \in Int
      BY <2>1
    <2>3. f < i => s[f].time <= s[i].time
      BY <2>1
    <2> QED
      BY <1>3, <2>1, <2>2, <2>3
  <1> QED
    BY <1>3, <1>4, <1>5

(* The intents that arrive with a tick, wait on or are dropped.            *)
LEMMA Arrivals ==
  ASSUME IInv, NextTick, NEW m \in Nat, Coming, Waiting, Passed(m)
  PROVE  Coming' /\ Waiting' /\ Passed(m)'
  <1>1. /\ pc = "tick" /\ at <= Len(ticks) /\ turn' = 1 /\ next' = NextToArrive
        /\ pc' \in {"intents", "process"} /\ UNCHANGED <<inputs, at, previous>>
        /\ ticks' = ticks /\ intents' = intents
        /\ pending' = {n \in (IF Boundary THEN {} ELSE pending) \cup Arrived : ~Expired(n)}
    BY DEF NextTick, inputs
  <1>2. /\ ticks \in Streams /\ intents \in IntentLists
        /\ next \in 1 .. Len(intents) + 1 /\ pending \subseteq 1 .. next - 1
        /\ Len(intents) \in Nat /\ DOMAIN intents = 1 .. Len(intents)
        /\ at \in DOMAIN ticks /\ at \in Nat /\ at >= 1 /\ ticks[at].time \in Int
        /\ Tick.time = ticks[at].time
    <2>1. /\ ticks \in Streams /\ intents \in IntentLists
          /\ next \in 1 .. Len(intents) + 1 /\ pending \subseteq 1 .. next - 1
      BY DEF IInv, ControlInv, TypeOK
    <2>2. at \in DOMAIN ticks
      BY <1>1, TickAtHand
    <2> QED
      BY <2>1, <2>2, IntentsType, TicksType DEF Tick
  <1>3. Latest' = at /\ Latest = at - 1
    BY <1>1 DEF Latest
  <1>4. PICK f : f = NextToArrive
    OBVIOUS
  <1>5. /\ f \in next .. Len(intents) + 1
        /\ \A i \in next .. Len(intents) : i < f => intents[i].time <= ticks[at].time
        /\ \A i \in DOMAIN intents : i >= f => intents[i].time > ticks[at].time
    <2>1. f = FirstLater(intents, next, ticks[at].time)
      BY <1>2, <1>4 DEF NextToArrive
    <2>2. /\ \A i \in 1 .. Len(intents) : intents[i].time \in Int
          /\ \A i, j \in 1 .. Len(intents) : i < j => intents[i].time <= intents[j].time
      BY <1>2, IntentsType
    <2> QED
      BY <1>2, <2>1, <2>2, FirstLaterBounds
  <1>6. \A n \in DOMAIN intents :
          /\ n < f => intents[n].time <= ticks[at].time
          /\ n \in Int /\ intents[n].time \in Int /\ intents[n].expiry \in Int
    <2> TAKE n \in DOMAIN intents
    <2>1. n < next => intents[n].time <= ticks[at].time
      BY <1>1 DEF Coming
    <2>2. n >= next => n \in next .. Len(intents)
      BY <1>2
    <2>3. n \in Int /\ intents[n].time \in Int /\ intents[n].expiry \in Int
      BY <1>2, IntentLevels
    <2> QED
      BY <1>2, <1>5, <2>1, <2>2, <2>3
  <1>7. \A j \in 1 .. at : j = at \/ j \in 1 .. at - 1
    BY <1>2
  <1>8. \A j \in 1 .. at : j \in DOMAIN ticks /\ ticks[j].time \in Int
                           /\ ticks[j].time <= ticks[at].time
                           /\ SessionDate(ticks[j].time) <= SessionDate(ticks[at].time)
    <2> TAKE j \in 1 .. at
    <2>1. j \in DOMAIN ticks /\ j <= at
      BY <1>2, TicksType
    <2> QED
      BY <1>2, <2>1, TicksType, DatesRun
  <1>9. Coming'
    <2>1. ASSUME NEW n \in DOMAIN intents, n >= f, NEW j \in 1 .. at
          PROVE  ticks[j].time < intents[n].time
      BY <1>2, <1>5, <1>6, <1>8, <2>1
    <2>2. previous' = None => at' <= Len(ticks')
      BY <1>1
    <2> QED
      BY <1>1, <1>3, <1>4, <1>6, <2>1, <2>2 DEF Coming
  <1>10. ASSUME NEW n \in pending'
         PROVE  /\ intents[n].time <= ticks[at].time
                /\ \A j \in 1 .. at : intents[n].time <= ticks[j].time =>
                     SessionDate(ticks[j].time) = SessionDate(ticks[at].time)
                /\ ticks[at].time < intents[n].expiry
    <2>1. ~Expired(n) /\ (n \in Arrived \/ (n \in pending /\ ~Boundary))
      BY <1>1
    <2>2. n \in DOMAIN intents /\ n \in Nat
      <3>1. n \in 1 .. Len(intents)
        <4>1. CASE n \in Arrived
          BY <1>2, <1>4, <1>5, <4>1 DEF Arrived
        <4>2. CASE n \in pending
          <5>1. n \in 1 .. next - 1
            BY <1>2, <4>2
          <5> QED
            BY <1>2, <5>1
        <4> QED
          BY <2>1, <4>1, <4>2
      <3> QED
        BY <1>2, <3>1
    <2>3. ticks[at].time < intents[n].expiry
      BY <1>2, <1>6, <2>1, <2>2 DEF Expired
    <2>4. CASE n \in Arrived
      <3>1. n < f /\ n >= next
        BY <1>2, <1>4, <1>5, <2>4 DEF Arrived
      <3>2. \A j \in 1 .. at - 1 : ticks[j].time < intents[n].time
        BY <1>3, <2>2, <3>1 DEF Coming
      <3>3. \A j \in 1 .. at : intents[n].time <= ticks[j].time => j = at
        BY <1>6, <1>7, <1>8, <2>2, <3>2
      <3> QED
        BY <1>6, <2>2, <2>3, <3>1, <3>3
    <2>5. CASE n \in pending /\ ~Boundary
      <3>1. /\ at - 1 >= 1 /\ intents[n].time <= ticks[at - 1].time
            /\ \A j \in 1 .. at - 1 : intents[n].time <= ticks[j].time =>
                 SessionDate(ticks[j].time) = SessionDate(ticks[at - 1].time)
        BY <1>3, <2>5 DEF Waiting
      <3>2. previous # None
        BY <1>1, <2>5 DEF Waiting
      <3>3. previous = at - 1
        BY <1>1, <3>2 DEF IInv, ControlInv, Running
      <3>4. SessionDate(ticks[at - 1].time) = SessionDate(ticks[at].time)
        BY <1>2, <2>5, <3>2, <3>3 DEF Boundary
      <3>5. intents[n].time <= ticks[at].time
        <4>1. at - 1 \in 1 .. at
          BY <1>2, <3>1
        <4> QED
          BY <1>2, <1>6, <1>8, <2>2, <3>1, <4>1
      <3> QED
        BY <1>7, <2>3, <3>1, <3>4, <3>5
    <2> QED
      BY <2>1, <2>4, <2>5
  <1>11. Waiting'
    BY <1>1, <1>2, <1>3, <1>10 DEF Waiting
  <1>12. Passed(m)'
    <2>1. ASSUME NEW n \in m + 1 .. f - 1, n \notin pending'
          PROVE  \/ intents[n].expiry <= ticks[at].time
                 \/ SessionDate(intents[n].time) < SessionDate(ticks[at].time)
      <3>1. n \in DOMAIN intents /\ n \in Int
        BY <1>2, <1>5
      <3>2. Expired(n) => intents[n].expiry <= ticks[at].time
        BY <1>2, <1>6, <3>1 DEF Expired
      <3>3. CASE n >= next
        <4>1. n \in Arrived
          BY <1>2, <1>4, <1>5, <3>1, <3>3 DEF Arrived
        <4> QED
          BY <1>1, <2>1, <3>2, <4>1
      <3>4. CASE n < next /\ n \notin pending
        <4>1. n \in m + 1 .. next - 1
          BY <1>2, <3>1, <3>4
        <4> QED
          BY <1>1, <3>4, <4>1 DEF Passed
      <3>5. CASE n \in pending /\ ~Boundary
        BY <1>1, <2>1, <3>2, <3>5
      <3>6. CASE n \in pending /\ Boundary
        <4>1. previous # None /\ previous = at - 1
              /\ SessionDate(ticks[at - 1].time) # SessionDate(ticks[at].time)
          BY <1>1, <1>2, <3>6 DEF Boundary, IInv, ControlInv, Running
        <4>2. at - 1 >= 1 /\ intents[n].time <= ticks[at - 1].time
          BY <1>3, <3>6 DEF Waiting
        <4>3. at - 1 \in 1 .. at
          BY <1>2, <4>2
        <4>4. /\ at - 1 \in DOMAIN ticks
              /\ SessionDate(ticks[at - 1].time) <= SessionDate(ticks[at].time)
          BY <1>8, <4>3
        <4>5. /\ SessionDate(intents[n].time) <= SessionDate(ticks[at - 1].time)
              /\ SessionDate(intents[n].time) \in Int
              /\ SessionDate(ticks[at - 1].time) \in Int /\ SessionDate(ticks[at].time) \in Int
          BY <1>2, <3>1, <4>2, <4>4, DatesRun
        <4> QED
          BY <4>1, <4>4, <4>5
      <3> QED
        BY <1>2, <3>1, <3>3, <3>4, <3>5, <3>6
    <2> QED
      BY <1>1, <1>4, <2>1 DEF Passed
  <1> QED
    BY <1>9, <1>11, <1>12

(* What is told of the same intents is told.                               *)
LEMMA StillTold ==
  ASSUME intents \in IntentLists, UNCHANGED inputs, NEW m \in 0 .. Len(intents), NEW closed \in Seq(Trades),
         NEW trades \in Seq(Trades), trades = TradesAfter[m], Told(m, closed, trades)'
  PROVE  IsTold'
  <1>1. intents' = intents /\ TradesAfter' = TradesAfter
    BY InputsSame
  <1> QED
    BY <1>1 DEF IsTold

(* An empty ledger tells of no trades.                                     *)
LEMMA InitTold == Init => IsTold
  <1> SUFFICES ASSUME Init PROVE IsTold
    OBVIOUS
  <1>1. /\ ticks \in Streams /\ intents \in IntentLists /\ events = <<>> /\ pc = "tick"
        /\ at = 1 /\ next = 1 /\ pending = {} /\ position = None /\ risk = NewRisk
        /\ previous = None
    BY DEF Init
  <1>2. <<>> \in Seq(Trades) /\ 0 \in 0 .. Len(intents) /\ TradesAfter[0] = <<>>
        /\ Len(intents) \in Nat /\ DOMAIN intents = 1 .. Len(intents)
        /\ Len(ticks) \in Nat \ {0} /\ DOMAIN ticks = 1 .. Len(ticks)
    BY <1>1, TradesAfterSteps, IntentsType, TicksType
  <1>3. LastUsed(0)
    BY <1>1 DEF LastUsed
  <1>4. LedgerTells(0, <<>>, <<>>)
    <2>1. DOMAIN events = {} /\ Len(events) = 0 /\ DOMAIN <<>> = {} /\ Len(<<>>) = 0
      BY <1>1
    <2>2. OpenFills(Len(events)) = {}
      BY <2>1 DEF OpenFills
    <2>3. TradesInLedger = {}
      BY <2>1 DEF TradesInLedger
    <2>4. Range(<<>>) = {}
      BY <2>1 DEF Range
    <2> QED
      BY <1>1, <2>1, <2>2, <2>3, <2>4 DEF LedgerTells
  <1>5. Latest = 0 /\ Handled = 1
    BY <1>1 DEF Latest, Handled
  <1>6. ChancesAhead(0, <<>>)
    <2>1. ASSUME NEW n, NEW j \in Chances(n, <<>>) PROVE j >= 1
      BY <1>1, <1>2, ChancesType
    <2> QED
      BY <1>5, <2>1 DEF ChancesAhead
  <1>7. TradesBehind(<<>>) /\ StillOpen(0)
    BY <1>1 DEF TradesBehind, StillOpen
  <1>8. Coming
    <2>1. \A j \in 1 .. 0 : FALSE
      OBVIOUS
    <2>2. \A n \in DOMAIN intents : ~(n < 1)
      BY <1>2
    <2> QED
      BY <1>1, <1>2, <1>5, <2>1, <2>2 DEF Coming
  <1>9. Waiting
    BY <1>1 DEF Waiting
  <1>10. Passed(0)
    <2>1. \A n \in 0 + 1 .. 1 - 1 : FALSE
      OBVIOUS
    <2> QED
      BY <1>1, <2>1 DEF Passed
  <1>11. Counted(risk, <<>>, <<>>, Session)
    <2>1. PICK d : d = Session
      OBVIOUS
    <2> QED
      BY <1>1, <2>1, CountedAtStart
  <1>12. Told(0, <<>>, <<>>)
    BY <1>1, <1>3, <1>4, <1>6, <1>7, <1>8, <1>9, <1>10, <1>11 DEF Told, WhileRunning
  <1> QED
    BY <1>2, <1>12 DEF IsTold

(* The session goes on with the next tick, at which an open position has   *)
(* not left yet.                                                           *)
LEMMA TickOfSession ==
  ASSUME IInv, pc = "tick", at <= Len(ticks), ~Boundary, position # None,
         NEW m, NEW closed, NEW trades, LedgerTells(m, closed, trades), StillOpen(m),
         closed \in Seq(Trades), trades \in Seq(Trades)
  PROVE  /\ trades # <<>> /\ at <= trades[Len(trades)].exit
         /\ \E e \in DOMAIN ticks :
              /\ ticks[e].time = position.time /\ e <= at
              /\ \A k \in e + 1 .. at - 1 : ~Hits(m, k)
              /\ \A k \in e .. at : SessionDate(ticks[k].time) = SessionDate(ticks[e].time)
  <1>1. PICK i, b : IsOpenTrade(i, b, m, closed, trades) /\ NotYetLeft(b, m)
    BY OpenTrade DEF Running
  <1>2. /\ ticks \in Streams /\ intents \in IntentLists
        /\ b \in DOMAIN ticks /\ m \in DOMAIN intents /\ at \in DOMAIN ticks
        /\ trades = Append(closed, TradeAt(m, b)) /\ position.time = ticks[b].time
        /\ at \in Nat /\ b \in Nat /\ b <= at - 1 /\ b <= at
        /\ \A k \in b + 1 .. at - 1 : ~Hits(m, k)
        /\ \A k \in b .. at - 1 : SessionDate(ticks[k].time) = SessionDate(ticks[b].time)
        /\ previous = None => SessionDate(ticks[at].time) = SessionDate(ticks[b].time)
    <2>1. /\ ticks \in Streams /\ intents \in IntentLists /\ at \in DOMAIN ticks
      BY TickAtHand DEF IInv, ControlInv
    <2>2. /\ b \in DOMAIN ticks /\ m \in DOMAIN intents
          /\ trades = Append(closed, TradeAt(m, b)) /\ position.time = ticks[b].time
      BY <1>1 DEF IsOpenTrade
    <2>3. Latest = at - 1
      BY DEF Latest
    <2>4. at \in Nat /\ b \in Nat
      BY <2>1, <2>2, TicksType
    <2>5. /\ b <= at - 1
          /\ \A k \in b + 1 .. at - 1 : ~Hits(m, k)
          /\ \A k \in b .. at - 1 : SessionDate(ticks[k].time) = SessionDate(ticks[b].time)
          /\ previous = None => SessionDate(ticks[at].time) = SessionDate(ticks[b].time)
      BY <1>1, <2>3 DEF NotYetLeft
    <2> QED
      BY <2>1, <2>2, <2>4, <2>5
  <1>3. SessionDate(ticks[at].time) = SessionDate(ticks[b].time)
    <2>1. CASE previous # None
      <3>1. previous = at - 1 /\ SessionDate(ticks[at - 1].time) = SessionDate(ticks[at].time)
        BY <2>1 DEF Boundary, Tick, IInv, ControlInv, Running
      <3>2. at - 1 \in b .. at - 1
        BY <1>2
      <3> QED
        BY <1>2, <3>1, <3>2
    <2> QED
      BY <1>2, <2>1
  <1>4. at <= TradeAt(m, b).exit
    <2>1. PICK x \in DOMAIN ticks : x = at
      BY <1>2
    <2>2. \A k \in b + 1 .. x - 1 : ~Hits(m, k)
      BY <1>2, <2>1
    <2>3. b <= x /\ SessionDate(ticks[x].time) = SessionDate(ticks[b].time)
      BY <1>2, <1>3, <2>1
    <2>4. x <= TradeAt(m, b).exit
      BY <1>2, <2>2, <2>3, TradeAtOpen
    <2> QED
      BY <2>1, <2>4
  <1>5. trades # <<>> /\ trades[Len(trades)] = TradeAt(m, b)
    <2>1. PICK s : s = Len(closed)
      OBVIOUS
    <2>2. TradeAt(m, b) \in Trades
      BY <1>2, TradeAtType
    <2> QED
      BY <1>2, <2>1, <2>2, SequenceAppend
  <1>6. \A k \in b .. at : SessionDate(ticks[k].time) = SessionDate(ticks[b].time)
    <2>1. \A k \in b .. at : k = at \/ k \in b .. at - 1
      BY <1>2
    <2> QED
      BY <1>2, <1>3, <2>1
  <1>7. /\ b \in DOMAIN ticks /\ ticks[b].time = position.time /\ b <= at
        /\ \A k \in b + 1 .. at - 1 : ~Hits(m, k)
    BY <1>2
  <1>8. trades # <<>> /\ at <= trades[Len(trades)].exit
    BY <1>4, <1>5
  <1> QED
    BY <1>6, <1>7, <1>8

(* A tick of the same session.                                             *)
LEMMA TickGoesOn ==
  ASSUME IInv, NextTick, ~Boundary, NEW m \in Nat, NEW closed \in Seq(Trades),
         NEW trades \in Seq(Trades), Told(m, closed, trades)
  PROVE  Told(m, closed, trades)'
  <1>1. /\ pc = "tick" /\ at <= Len(ticks) /\ UNCHANGED <<inputs, at, previous>>
        /\ ticks' = ticks /\ intents' = intents
        /\ pc' = (IF position = None THEN "intents" ELSE "process")
        /\ UNCHANGED <<position, risk, events>>
    BY DEF NextTick, inputs
  <1>2. /\ LastUsed(m) /\ LedgerTells(m, closed, trades) /\ ChancesAhead(m, trades)
        /\ TradesBehind(trades) /\ StillOpen(m) /\ Coming /\ Waiting /\ Passed(m)
        /\ Counted(risk, closed, trades, Session)
    BY <1>1 DEF Told, Running, WhileRunning
  <1>3. /\ ticks \in Streams /\ at \in DOMAIN ticks /\ at \in Nat
    BY <1>1, TickAtHand, TicksType DEF IInv, ControlInv
  <1>4. Coming' /\ Waiting' /\ Passed(m)'
    BY <1>2, Arrivals
  <1>5. LastUsed(m)' /\ LedgerTells(m, closed, trades)'
    BY <1>1, <1>2, LedgerStays
  <1>6. /\ Latest' = at /\ Latest = at - 1 /\ Handled = at
        /\ Handled' = IF position = None THEN at ELSE at + 1
    BY <1>1 DEF Latest, Handled
  <1>7. ChancesAhead(m, trades)'
    <2>1. \A k : Chances(k, trades)' = Chances(k, trades)
      BY <1>1, InputsSame
    <2>2. ASSUME NEW n \in m + 1 .. Len(intents), NEW j \in Chances(n, trades)
          PROVE  j >= Handled'
      <3>1. j >= at /\ j \in Nat
        BY <1>2, <1>3, <1>6, ChancesType DEF ChancesAhead
      <3>2. CASE position # None
        <4>1. trades # <<>> /\ at <= trades[Len(trades)].exit
          BY <1>1, <1>2, <3>2, TickOfSession
        <4>2. j > Last(trades).exit /\ Last(trades) = trades[Len(trades)]
              /\ trades[Len(trades)].exit \in Nat
          BY <4>1, LastTrade DEF Chances
        <4> QED
          BY <1>3, <1>6, <3>1, <3>2, <4>1, <4>2
      <3> QED
        BY <1>6, <3>1, <3>2
    <2> QED
      BY <1>1, <2>1, <2>2 DEF ChancesAhead
  <1>8. TradesBehind(trades)'
    <2>1. \A i \in DOMAIN trades : trades[i].entry \in Nat /\ trades[i].entry < at
      BY <1>2, <1>6, TradesType DEF TradesBehind
    <2>2. \A i \in DOMAIN trades : trades[i].entry < Handled'
      BY <1>3, <1>6, <2>1
    <2> QED
      BY <1>1, <1>2, <1>6, <2>2 DEF TradesBehind
  <1>9. StillOpen(m)'
    <2>1. CASE position # None
      <3>1. PICK e \in DOMAIN ticks :
              /\ ticks[e].time = position.time /\ e <= at
              /\ \A k \in e + 1 .. at - 1 : ~Hits(m, k)
              /\ \A k \in e .. at : SessionDate(ticks[k].time) = SessionDate(ticks[e].time)
        BY <1>1, <1>2, <2>1, TickOfSession
      <3>2. at \in e .. at
        BY <1>3, <3>1, TicksType
      <3>3. \A n, k : Hits(n, k)' = Hits(n, k)
        BY <1>1, InputsSame
      <3> QED
        BY <1>1, <1>6, <3>1, <3>2, <3>3 DEF StillOpen
    <2> QED
      BY <1>1, <2>1 DEF StillOpen
  <1>10. Counted(risk, closed, trades, Session)'
    <2>1. PICK d : d = Session
      OBVIOUS
    <2>2. Session' = d
      BY <1>1, <2>1 DEF Session, Boundary, Tick
    <2>3. Counted(risk, closed, trades, d)
      BY <1>2, <2>1
    <2> QED
      BY <1>1, <2>2, <2>3 DEF Counted, Days
  <1>11. WhileRunning(m, closed, trades)'
    BY <1>4, <1>7, <1>8, <1>9, <1>10 DEF WhileRunning
  <1> QED
    BY <1>1, <1>5, <1>11 DEF Told

(* A new session begins flat: its counters start again.                    *)
LEMMA SessionBegins ==
  ASSUME IInv, NextTick, Boundary, NEW m \in Nat, NEW trades \in Seq(Trades),
         ChancesAhead(m, trades), Coming, Waiting, Passed(m),
         \A i \in DOMAIN trades : trades[i].entry \in DOMAIN ticks /\ trades[i].entry < at,
         trades # <<>> => trades[Len(trades)].exit < at,
         LastUsed(m)', LedgerTells(m, trades, trades)',
         NEW r \in RiskStates, risk' = ResetDay(r),
         Counted(r, trades, trades, SessionDate(ticks[at - 1].time))
  PROVE  Told(m, trades, trades)'
  <1>1. /\ pc = "tick" /\ at <= Len(ticks) /\ UNCHANGED <<inputs, at, previous>>
        /\ ticks' = ticks /\ intents' = intents /\ position' = None /\ pc' = "intents"
    BY DEF NextTick, inputs
  <1>2. /\ ticks \in Streams /\ intents \in IntentLists
        /\ at \in DOMAIN ticks /\ at - 1 \in DOMAIN ticks /\ at \in Nat
        /\ SessionDate(ticks[at - 1].time) # SessionDate(ticks[at].time)
    <2>1. previous = at - 1 /\ at \in DOMAIN ticks /\ previous \in DOMAIN ticks
      BY <1>1, TickAtHand DEF Boundary, IInv, ControlInv, Running
    <2> QED
      BY <1>1, <2>1, TicksType DEF Boundary, Tick, IInv, ControlInv
  <1>3. Coming' /\ Waiting' /\ Passed(m)'
    BY Arrivals
  <1>4. Latest' = at /\ Handled = at /\ Handled' = at
    BY <1>1 DEF Latest, Handled
  <1>5. ChancesAhead(m, trades)'
    <2>1. \A k : Chances(k, trades)' = Chances(k, trades)
      BY <1>1, InputsSame
    <2> QED
      BY <1>1, <1>4, <2>1 DEF ChancesAhead
  <1>6. TradesBehind(trades)' /\ StillOpen(m)'
    BY <1>1, <1>4 DEF TradesBehind, StillOpen
  <1>7. Counted(risk, trades, trades, Session)'
    <2>1. PICK today : today = SessionDate(ticks[at].time)
      OBVIOUS
    <2>2. Session' = today
      BY <1>1, <2>1 DEF Session
    <2>3. ASSUME NEW i \in DOMAIN trades
          PROVE  trades[i].entry \in DOMAIN ticks /\ trades[i].entry \notin Days(today)
      <3>1. /\ trades[i].entry \in DOMAIN ticks /\ trades[i].entry \in Nat
            /\ trades[i].entry <= at - 1
        BY <1>2, TradesType
      <3>2. /\ SessionDate(ticks[trades[i].entry].time) <= SessionDate(ticks[at - 1].time)
            /\ SessionDate(ticks[at - 1].time) <= SessionDate(ticks[at].time)
            /\ SessionDate(ticks[trades[i].entry].time) \in Int
            /\ SessionDate(ticks[at - 1].time) \in Int /\ SessionDate(ticks[at].time) \in Int
        <4>1. at - 1 <= at
          BY <1>2
        <4> QED
          BY <1>2, <3>1, <4>1, DatesRun
      <3>3. SessionDate(ticks[trades[i].entry].time) # today
        BY <1>2, <2>1, <3>2
      <3> QED
        BY <3>1, <3>3 DEF Days
    <2>4. Counted(ResetDay(r), trades, trades, today)
      BY <2>3, DayCounts
    <2> QED
      BY <1>1, <2>2, <2>4 DEF Counted, Days
  <1>8. WhileRunning(m, trades, trades)'
    BY <1>3, <1>5, <1>6, <1>7 DEF WhileRunning
  <1> QED
    BY <1>1, <1>8 DEF Told

(* A flat session ends.                                                    *)
LEMMA FlatSessionEnds ==
  ASSUME IInv, NextTick, Boundary, position = None, NEW m \in Nat,
         NEW closed \in Seq(Trades), NEW trades \in Seq(Trades), Told(m, closed, trades)
  PROVE  Told(m, trades, trades)'
  <1>1. /\ pc = "tick" /\ UNCHANGED inputs /\ UNCHANGED events /\ risk' = ResetDay(risk)
        /\ risk \in RiskStates
    BY DEF NextTick, IInv, TypeOK
  <1>2. /\ LastUsed(m) /\ LedgerTells(m, closed, trades) /\ ChancesAhead(m, trades)
        /\ TradesBehind(trades) /\ Coming /\ Waiting /\ Passed(m)
        /\ Counted(risk, closed, trades, Session)
    BY <1>1 DEF Told, Running, WhileRunning
  <1>3. closed = trades
    BY <1>1, <1>2, FlatTrades
  <1>4. LastUsed(m)' /\ LedgerTells(m, trades, trades)'
    BY <1>1, <1>2, <1>3, LedgerStays
  <1>5. /\ \A i \in DOMAIN trades : trades[i].entry \in DOMAIN ticks /\ trades[i].entry < at
        /\ trades # <<>> => trades[Len(trades)].exit < at
    <2>1. Handled = at
      BY <1>1 DEF Handled
    <2> QED
      BY <1>2, <2>1 DEF TradesBehind, LedgerTells
  <1>6. Session = SessionDate(ticks[at - 1].time)
    <2>1. previous # None /\ previous = at - 1
      BY <1>1 DEF Boundary, IInv, ControlInv, Running
    <2> QED
      BY <1>1, <2>1 DEF Session
  <1>7. Counted(risk, trades, trades, SessionDate(ticks[at - 1].time))
    BY <1>2, <1>3, <1>6
  <1> QED
    BY <1>1, <1>2, <1>4, <1>5, <1>7, SessionBegins

(* A position leaves at a tick, for a price.                               *)
LEMMA Leaves ==
  ASSUME IInv, UNCHANGED inputs, NEW m \in Nat, NEW closed \in Seq(Trades), NEW trades,
         NEW i, NEW b, LastUsed(m), LedgerTells(m, closed, trades),
         IsOpenTrade(i, b, m, closed, trades),
         NEW x \in DOMAIN ticks, NEW price \in Int,
         NEW result \in {"WIN", "LOSS", "SESSION_END"},
         NEW pnl \in Int, pnl = price - ticks[b].price,
         TradeAt(m, b) = [intent |-> m, entry |-> b, exit |-> x, pnl |-> pnl],
         events' = Append(events, Line("POSITION_CLOSED", ticks[x].time, position.intent,
                                       price - position.entry, result)),
         NEW d, SessionDate(ticks[b].time) = d, Counted(risk, closed, trades, d)
  PROVE  /\ LastUsed(m)' /\ LedgerTells(m, trades, trades)'
         /\ Counted(RecordClose(risk, pnl), trades, trades, d)
         /\ trades[Len(trades)] = [intent |-> m, entry |-> b, exit |-> x, pnl |-> pnl]
         /\ OpenFills(Len(events))' = {} /\ price - position.entry = pnl
  <1>1. position.intent = m /\ position.entry = ticks[b].price
    BY DEF IsOpenTrade
  <1>2. ticks[x].time \in Int
    BY TicksType DEF IInv, ControlInv
  <1>3. PICK e : e = Line("POSITION_CLOSED", ticks[x].time, m, pnl, result)
    OBVIOUS
  <1>4. /\ e \in Lines /\ e.event = "POSITION_CLOSED"
        /\ e.time = ticks[x].time /\ e.intent = m /\ e.pnl = pnl
    BY <1>2, <1>3 DEF Line, Lines, LineKinds
  <1>5. events' = Append(events, e)
    BY <1>1, <1>3
  <1> QED
    BY <1>1, <1>4, <1>5, CloseBooks

(* An open position leaves at the last tick of its session.                *)
LEMMA SessionCloses ==
  ASSUME IInv, NextTick, Boundary, position # None, NEW m \in Nat,
         NEW closed \in Seq(Trades), NEW trades \in Seq(Trades), Told(m, closed, trades)
  PROVE  Told(m, trades, trades)'
  <1>1. /\ pc = "tick" /\ UNCHANGED inputs /\ risk \in RiskStates /\ at <= Len(ticks)
        /\ events' = Append(events,
                       Line("POSITION_CLOSED", ticks[previous].time, position.intent,
                            ticks[previous].price - position.entry, "SESSION_END"))
        /\ risk' = ResetDay(RecordClose(risk, ticks[previous].price - position.entry))
    BY DEF NextTick, IInv, TypeOK
  <1>2. /\ LastUsed(m) /\ LedgerTells(m, closed, trades) /\ ChancesAhead(m, trades)
        /\ TradesBehind(trades) /\ StillOpen(m) /\ Coming /\ Waiting /\ Passed(m)
        /\ Counted(risk, closed, trades, Session)
    BY <1>1 DEF Told, Running, WhileRunning
  <1>3. PICK i, b : IsOpenTrade(i, b, m, closed, trades) /\ NotYetLeft(b, m)
    BY <1>1, <1>2, OpenTrade DEF Running
  <1>4. PICK x \in DOMAIN ticks : x = at - 1 /\ previous = x
    <2>1. previous = at - 1 /\ previous \in DOMAIN ticks
      BY <1>1, TickAtHand DEF Boundary, IInv, ControlInv, Running
    <2> QED
      BY <2>1
  <1>5. /\ ticks \in Streams /\ intents \in IntentLists /\ at \in DOMAIN ticks
        /\ at \in Nat /\ b \in Nat /\ x \in Nat
        /\ b \in DOMAIN ticks /\ m \in DOMAIN intents /\ m \in Nat /\ m # 0
        /\ position.intent = m /\ position.entry = ticks[b].price
        /\ ticks[x].time \in Int /\ ticks[x].price \in Int
    <2>1. ticks \in Streams /\ intents \in IntentLists /\ at \in DOMAIN ticks
      BY <1>1, TickAtHand DEF IInv, ControlInv
    <2>2. b \in DOMAIN ticks /\ m \in DOMAIN intents
          /\ position.intent = m /\ position.entry = ticks[b].price
      BY <1>3 DEF IsOpenTrade
    <2>3. at \in Nat /\ b \in Nat /\ x \in Nat /\ ticks[x].time \in Int /\ ticks[x].price \in Int
      <3>1. DOMAIN ticks \subseteq Nat
        BY <2>1, TicksType
      <3> QED
        BY <2>1, <2>2, <3>1, TicksType
    <2>4. m # 0
      BY <2>1, <2>2, IntentsType
    <2> QED
      BY <2>1, <2>2, <2>3, <2>4
  <1>6. /\ b <= x /\ \A k \in b + 1 .. x : ~Hits(m, k)
        /\ SessionDate(ticks[x].time) = SessionDate(ticks[b].time)
    <2>1. Latest = x /\ x = at - 1
      BY <1>1, <1>4 DEF Latest
    <2>2. /\ b <= x /\ \A k \in b + 1 .. x : ~Hits(m, k)
          /\ \A k \in b .. x : SessionDate(ticks[k].time) = SessionDate(ticks[b].time)
      BY <1>3, <2>1 DEF NotYetLeft
    <2>3. x \in b .. x
      BY <1>5, <2>2
    <2> QED
      BY <2>2, <2>3
  <1>7. \A k \in DOMAIN ticks : x < k =>
          SessionDate(ticks[k].time) # SessionDate(ticks[b].time)
    <2> SUFFICES ASSUME NEW k \in DOMAIN ticks, x < k
                 PROVE  SessionDate(ticks[k].time) # SessionDate(ticks[b].time)
      OBVIOUS
    <2>1. at <= k /\ x <= at
      <3>1. k \in Nat
        BY <1>5, TicksType
      <3> QED
        BY <1>4, <1>5, <3>1
    <2>2. SessionDate(ticks[x].time) # SessionDate(ticks[at].time)
      BY <1>4 DEF Boundary, Tick
    <2>3. /\ SessionDate(ticks[x].time) <= SessionDate(ticks[at].time)
          /\ SessionDate(ticks[at].time) <= SessionDate(ticks[k].time)
          /\ SessionDate(ticks[x].time) \in Int /\ SessionDate(ticks[at].time) \in Int
          /\ SessionDate(ticks[k].time) \in Int
      BY <1>5, <2>1, DatesRun
    <2> QED
      BY <1>6, <2>2, <2>3
  <1>8. PICK pnl \in Int : pnl = ticks[x].price - ticks[b].price
    <2>1. ticks[b].price \in Int
      BY <1>5, TicksType
    <2> QED
      BY <1>5, <2>1
  <1>9. TradeAt(m, b) = [intent |-> m, entry |-> b, exit |-> x, pnl |-> pnl]
    BY <1>5, <1>6, <1>7, <1>8, TradeAtEnd
  <1>10. events' = Append(events, Line("POSITION_CLOSED", ticks[x].time, position.intent,
                                       ticks[x].price - position.entry, "SESSION_END"))
    BY <1>1, <1>4
  <1>11. PICK d : d = SessionDate(ticks[b].time)
    OBVIOUS
  <1>12. Counted(risk, closed, trades, d)
    <2>1. Session = SessionDate(ticks[x].time)
      BY <1>1, <1>4 DEF Session, Boundary
    <2> QED
      BY <1>2, <1>6, <1>11, <2>1
  <1>13. /\ LastUsed(m)' /\ LedgerTells(m, trades, trades)'
         /\ Counted(RecordClose(risk, pnl), trades, trades, d)
         /\ trades[Len(trades)] = [intent |-> m, entry |-> b, exit |-> x, pnl |-> pnl]
    <2>1. UNCHANGED inputs /\ ticks[x].price \in Int
      BY <1>1, <1>5
    <2> QED
      BY <1>2, <1>3, <1>8, <1>9, <1>10, <1>11, <1>12, <2>1, Leaves
  <1>14. /\ \A k \in DOMAIN trades : trades[k].entry \in DOMAIN ticks /\ trades[k].entry < at
         /\ trades # <<>> => trades[Len(trades)].exit < at
    <2>1. Handled = at
      BY <1>1 DEF Handled
    <2>2. x < at
      BY <1>4, <1>5
    <2> QED
      BY <1>2, <1>13, <2>1, <2>2 DEF TradesBehind, LedgerTells
  <1>15. PICK r \in RiskStates : r = RecordClose(risk, pnl)
    BY <1>1, RecordCloseType
  <1>16. risk' = ResetDay(r)
    BY <1>1, <1>4, <1>5, <1>8, <1>15
  <1>17. Counted(r, trades, trades, SessionDate(ticks[at - 1].time))
    BY <1>4, <1>6, <1>11, <1>13, <1>15
  <1> QED
    BY <1>2, <1>13, <1>14, <1>16, <1>17, SessionBegins

(* A tick of any session.                                                  *)
LEMMA NextTickTold ==
  ASSUME IInv, IsTold, NextTick
  PROVE  IsTold'
  <1>1. UNCHANGED inputs /\ intents \in IntentLists
    BY DEF NextTick, IInv, ControlInv
  <1>2. PICK m \in 0 .. Len(intents), closed \in Seq(Trades), trades \in Seq(Trades) :
          trades = TradesAfter[m] /\ Told(m, closed, trades)
    BY DEF IsTold
  <1>3. m \in Nat
    BY <1>1, IntentsType
  <1>4. CASE ~Boundary
    <2>1. Told(m, closed, trades)'
      BY <1>2, <1>3, <1>4, TickGoesOn
    <2> QED
      BY <1>1, <1>2, <2>1, StillTold
  <1>5. CASE Boundary
    <2>1. Told(m, trades, trades)'
      BY <1>2, <1>3, <1>5, FlatSessionEnds, SessionCloses
    <2> QED
      BY <1>1, <1>2, <2>1, StillTold
  <1> QED
    BY <1>4, <1>5

(* What waits and what has passed once a tick is done with.                *)
LEMMA TickDone ==
  ASSUME IInv, Process, NEW m \in Nat, Coming, Waiting, Passed(m)
  PROVE  Coming' /\ Waiting' /\ Passed(m)'
  <1>1. /\ pc = "process" /\ pc' = "tick" /\ at' = at + 1 /\ previous' = at
        /\ UNCHANGED <<next, pending>> /\ ticks' = ticks /\ intents' = intents
    BY DEF Process, inputs
  <1>2. /\ ticks \in Streams /\ intents \in IntentLists /\ at <= Len(ticks)
        /\ at \in DOMAIN ticks /\ at \in Nat /\ previous' # None
        /\ Len(ticks) \in Nat /\ DOMAIN ticks = 1 .. Len(ticks)
        /\ next \in Nat /\ DOMAIN intents = 1 .. Len(intents) /\ Len(intents) \in Nat
        /\ next <= Len(intents) + 1
    <2>1. ticks \in Streams /\ intents \in IntentLists /\ at <= Len(ticks)
          /\ next \in 1 .. Len(intents) + 1
      BY <1>1 DEF IInv, ControlInv, TypeOK
    <2>2. at \in DOMAIN ticks /\ at \in Nat
      BY <2>1, TickAtHand, TicksType
    <2>3. at # None
      BY <2>2, RiskAssumption
    <2> QED
      BY <1>1, <2>1, <2>2, <2>3, TicksType, IntentsType
  <1>3. Latest = at /\ Latest' = at
    BY <1>1, <1>2 DEF Latest
  <1>4. ASSUME at + 1 <= Len(ticks)
        PROVE  /\ ticks[at].time <= ticks[at + 1].time
               /\ SessionDate(ticks[at].time) <= SessionDate(ticks[at + 1].time)
               /\ ticks[at].time \in Int /\ ticks[at + 1].time \in Int
               /\ SessionDate(ticks[at].time) \in Int
               /\ SessionDate(ticks[at + 1].time) \in Int
    <2>1. at + 1 \in DOMAIN ticks /\ at <= at + 1
      BY <1>2, <1>4
    <2> QED
      BY <1>2, <2>1, DatesRun, TicksType
  <1>5. Coming'
    <2>1. ASSUME at + 1 <= Len(ticks), NEW n \in DOMAIN intents, n < next
          PROVE  intents[n].time <= ticks[at + 1].time
      <3>1. intents[n].time <= ticks[at].time
        BY <1>2, <2>1 DEF Coming
      <3>2. intents[n].time \in Int
        BY <1>2, IntentLevels
      <3> QED
        BY <1>4, <2>1, <3>1, <3>2
    <2> QED
      BY <1>1, <1>2, <1>3, <2>1 DEF Coming
  <1>6. Waiting'
    BY <1>1, <1>2, <1>3 DEF Waiting
  <1>7. Passed(m)'
    <2>1. ASSUME at + 1 <= Len(ticks), NEW n \in m + 1 .. next - 1, n \notin pending
          PROVE  \/ intents[n].expiry <= ticks[at + 1].time
                 \/ SessionDate(intents[n].time) < SessionDate(ticks[at + 1].time)
      <3>1. n \in DOMAIN intents
        BY <1>2
      <3>2. intents[n].expiry \in Int /\ SessionDate(intents[n].time) \in Int
        BY <1>2, <3>1, IntentLevels
      <3>3. \/ intents[n].expiry <= ticks[at].time
            \/ SessionDate(intents[n].time) < SessionDate(ticks[at].time)
        BY <1>2, <2>1 DEF Passed
      <3> QED
        BY <1>4, <2>1, <3>2, <3>3
    <2> QED
      BY <1>1, <2>1 DEF Passed
  <1> QED
    BY <1>5, <1>6, <1>7

(* Process changes neither what is handled nor the session.                *)
LEMMA ProcessStays ==
  ASSUME IInv, Process
  PROVE  /\ pc = "process" /\ pc' = "tick" /\ at' = at + 1 /\ previous' = at
         /\ UNCHANGED inputs /\ ticks' = ticks /\ intents' = intents
         /\ ticks \in Streams /\ intents \in IntentLists /\ at \in DOMAIN ticks
         /\ at \in Nat /\ Latest = at /\ Latest' = at /\ Handled = at + 1
         /\ Handled' = at + 1 /\ risk \in RiskStates /\ previous' # None
         /\ Session = SessionDate(ticks[at].time) /\ Session' = SessionDate(ticks[at].time)
  <1>1. /\ pc = "process" /\ pc' = "tick" /\ at' = at + 1 /\ previous' = at
        /\ UNCHANGED inputs /\ ticks' = ticks /\ intents' = intents
    BY DEF Process, inputs
  <1>2. /\ ticks \in Streams /\ intents \in IntentLists /\ at \in DOMAIN ticks
        /\ at \in Nat /\ risk \in RiskStates
    BY <1>1, TickAtHand, TicksType DEF IInv, ControlInv, TypeOK
  <1>3. at # None
    BY <1>2, RiskAssumption
  <1>4. Latest = at /\ Latest' = at /\ Handled = at + 1 /\ Handled' = at + 1
    BY <1>1, <1>2 DEF Latest, Handled
  <1>5. Session = SessionDate(ticks[at].time) /\ Session' = SessionDate(ticks[at].time)
    BY <1>1, <1>3 DEF Session
  <1> QED
    BY <1>1, <1>2, <1>3, <1>4, <1>5

(* A tick at which the position, if any, stays.                            *)
LEMMA ProcessHolds ==
  ASSUME IInv, Process, UNCHANGED <<position, risk, events>>,
         position # None /\ Tick.time > position.time =>
           position.stop < Tick.price /\ Tick.price < position.target,
         NEW m \in Nat, NEW closed \in Seq(Trades), NEW trades \in Seq(Trades),
         Told(m, closed, trades)
  PROVE  Told(m, closed, trades)'
  <1>1. /\ pc = "process" /\ pc' = "tick" /\ at' = at + 1 /\ previous' = at
        /\ UNCHANGED inputs /\ ticks' = ticks /\ intents' = intents
        /\ ticks \in Streams /\ intents \in IntentLists /\ at \in DOMAIN ticks
        /\ at \in Nat /\ Latest = at /\ Latest' = at /\ Handled = at + 1
        /\ Handled' = at + 1 /\ previous' # None
    BY ProcessStays
  <1>2. /\ LastUsed(m) /\ LedgerTells(m, closed, trades) /\ ChancesAhead(m, trades)
        /\ TradesBehind(trades) /\ StillOpen(m) /\ Coming /\ Waiting /\ Passed(m)
        /\ Counted(risk, closed, trades, Session)
    BY <1>1 DEF Told, Running, WhileRunning
  <1>3. LastUsed(m)' /\ LedgerTells(m, closed, trades)'
    BY <1>1, <1>2, LedgerStays
  <1>4. Coming' /\ Waiting' /\ Passed(m)'
    BY <1>2, TickDone
  <1>5. ChancesAhead(m, trades)'
    <2>1. \A k : Chances(k, trades)' = Chances(k, trades)
      BY <1>1, InputsSame
    <2> QED
      BY <1>1, <1>2, <2>1 DEF ChancesAhead
  <1>6. TradesBehind(trades)'
    BY <1>1, <1>2 DEF TradesBehind
  <1>7. StillOpen(m)'
    <2> SUFFICES ASSUME position # None PROVE StillOpen(m)'
      BY DEF StillOpen
    <2>1. PICK i, b : IsOpenTrade(i, b, m, closed, trades) /\ NotYetLeft(b, m)
      BY <1>1, <1>2, OpenTrade DEF Running
    <2>2. /\ b \in DOMAIN ticks /\ b \in Nat /\ m \in DOMAIN intents
          /\ position.time = ticks[b].time
          /\ position.stop = intents[m].stop /\ position.target = intents[m].target
      BY <1>1, <2>1, TicksType DEF IsOpenTrade
    <2>3. /\ b <= at /\ \A k \in b + 1 .. at - 1 : ~Hits(m, k)
          /\ \A k \in b .. at : SessionDate(ticks[k].time) = SessionDate(ticks[b].time)
      BY <1>1, <2>1 DEF NotYetLeft
    <2>4. b < at => ~Hits(m, at)
      <3> SUFFICES ASSUME b < at PROVE ~Hits(m, at)
        OBVIOUS
      <3>1. ticks[b].time < ticks[at].time /\ ticks[b].time \in Int /\ ticks[at].time \in Int
            /\ ticks[at].price \in Int
        BY <1>1, <2>2, TicksType
      <3>2. intents[m].stop \in Int /\ intents[m].target \in Int
        BY <1>1, <2>2, IntentLevels
      <3>3. intents[m].stop < ticks[at].price /\ ticks[at].price < intents[m].target
        BY <2>2, <3>1 DEF Tick
      <3> QED
        BY <3>1, <3>2, <3>3 DEF Hits
    <2>5. \A k \in b + 1 .. at : ~Hits(m, k)
      <3> TAKE k \in b + 1 .. at
      <3>1. (k = at /\ b < at) \/ k \in b + 1 .. at - 1
        BY <1>1, <2>2
      <3> QED
        BY <2>3, <2>4, <3>1
    <2>6. \A k \in b + 1 .. at + 1 - 1 : k \in b + 1 .. at
      BY <1>1, <2>2
    <2>7. \A n, k : Hits(n, k)' = Hits(n, k)
      BY <1>1, InputsSame
    <2>8. \A k \in b + 1 .. at' - 1 : ~Hits(m, k)'
      BY <1>1, <2>5, <2>6, <2>7
    <2> QED
      BY <1>1, <2>2, <2>3, <2>8 DEF StillOpen
  <1>8. Counted(risk, closed, trades, Session)'
    <2>1. PICK d : d = Session
      OBVIOUS
    <2>2. Session' = d
      BY <2>1, ProcessStays
    <2>3. Counted(risk, closed, trades, d)
      BY <1>2, <2>1
    <2> QED
      BY <1>1, <2>2, <2>3 DEF Counted, Days
  <1>9. WhileRunning(m, closed, trades)'
    BY <1>4, <1>5, <1>6, <1>7, <1>8 DEF WhileRunning
  <1> QED
    BY <1>1, <1>3, <1>9 DEF Told

(* A tick at which it leaves, at its stop or its target.                   *)
LEMMA ProcessLeaves ==
  ASSUME IInv, Process, position # None, Tick.time > position.time,
         NEW price, NEW result \in {"WIN", "LOSS"}, CloseAt(Tick.time, price, result),
         \/ Tick.price <= position.stop /\ price = position.stop
         \/ Tick.price > position.stop /\ Tick.price >= position.target
              /\ price = position.target,
         NEW m \in Nat, NEW closed \in Seq(Trades), NEW trades \in Seq(Trades),
         Told(m, closed, trades)
  PROVE  Told(m, trades, trades)'
  <1>1. /\ pc = "process" /\ pc' = "tick" /\ at' = at + 1 /\ previous' = at
        /\ UNCHANGED inputs /\ ticks' = ticks /\ intents' = intents
        /\ ticks \in Streams /\ intents \in IntentLists /\ at \in DOMAIN ticks
        /\ at \in Nat /\ Latest = at /\ Latest' = at /\ Handled = at + 1
        /\ Handled' = at + 1 /\ previous' # None
    BY ProcessStays
  <1>2. /\ LastUsed(m) /\ LedgerTells(m, closed, trades) /\ ChancesAhead(m, trades)
        /\ TradesBehind(trades) /\ StillOpen(m) /\ Coming /\ Waiting /\ Passed(m)
        /\ Counted(risk, closed, trades, Session)
    BY <1>1 DEF Told, Running, WhileRunning
  <1>3. PICK i, b : IsOpenTrade(i, b, m, closed, trades) /\ NotYetLeft(b, m)
    BY <1>1, <1>2, OpenTrade DEF Running
  <1>4. /\ b \in DOMAIN ticks /\ b \in Nat /\ m \in DOMAIN intents
        /\ position.time = ticks[b].time /\ position.entry = ticks[b].price
        /\ position.stop = intents[m].stop /\ position.target = intents[m].target
    BY <1>1, <1>3, TicksType DEF IsOpenTrade
  <1>5. /\ intents[m].stop \in Int /\ intents[m].target \in Int
        /\ ticks[at].time \in Int /\ ticks[at].price \in Int
        /\ ticks[b].time \in Int /\ ticks[b].price \in Int
    BY <1>1, <1>4, IntentLevels, TicksType
  <1>6. /\ b <= at /\ \A k \in b + 1 .. at - 1 : ~Hits(m, k)
        /\ SessionDate(ticks[at].time) = SessionDate(ticks[b].time)
    <2>1. /\ b <= at /\ \A k \in b + 1 .. at - 1 : ~Hits(m, k)
          /\ \A k \in b .. at : SessionDate(ticks[k].time) = SessionDate(ticks[b].time)
      BY <1>1, <1>3 DEF NotYetLeft
    <2>2. at \in b .. at
      BY <1>1, <1>4, <2>1
    <2> QED
      BY <2>1, <2>2
  <1>7. b < at
    <2>1. b # at
      BY <1>4, <1>5 DEF Tick
    <2> QED
      BY <1>1, <1>4, <1>6, <2>1
  <1>8. Hits(m, at)
    BY <1>4, <1>5 DEF Hits, Tick
  <1>9. /\ price \in Int
        /\ price = IF ticks[at].price <= intents[m].stop
                   THEN intents[m].stop ELSE intents[m].target
    BY <1>4, <1>5 DEF Tick
  <1>10. PICK pnl \in Int : pnl = price - ticks[b].price
    BY <1>5, <1>9
  <1>11. PICK x \in DOMAIN ticks : x = at
    BY <1>1
  <1>12. TradeAt(m, b) = [intent |-> m, entry |-> b, exit |-> x, pnl |-> pnl]
    <2>1. /\ b < x /\ SessionDate(ticks[x].time) = SessionDate(ticks[b].time)
          /\ Hits(m, x) /\ \A k \in b + 1 .. x - 1 : ~Hits(m, k)
      BY <1>6, <1>7, <1>8, <1>11
    <2>2. TradeAt(m, b) =
            [intent |-> m, entry |-> b, exit |-> x,
             pnl |-> (IF ticks[x].price <= intents[m].stop
                      THEN intents[m].stop ELSE intents[m].target) - ticks[b].price]
      BY <1>1, <1>4, <2>1, TradeAtHit
    <2> QED
      BY <1>9, <1>10, <1>11, <2>2
  <1>13. /\ events' = Append(events, Line("POSITION_CLOSED", ticks[x].time, position.intent,
                                          price - position.entry, result))
         /\ risk' = RecordClose(risk, price - position.entry) /\ position' = None
    BY <1>11 DEF CloseAt, Tick
  <1>14. PICK d : d = SessionDate(ticks[b].time)
    OBVIOUS
  <1>15. Session = d /\ Session' = d
    BY <1>6, <1>14, ProcessStays
  <1>16. /\ LastUsed(m)' /\ LedgerTells(m, trades, trades)'
         /\ Counted(RecordClose(risk, pnl), trades, trades, d)
         /\ trades[Len(trades)] = [intent |-> m, entry |-> b, exit |-> x, pnl |-> pnl]
         /\ price - position.entry = pnl
    <2>1. Counted(risk, closed, trades, d) /\ UNCHANGED inputs
      BY <1>1, <1>2, <1>15
    <2> QED
      BY <1>2, <1>3, <1>9, <1>10, <1>12, <1>13, <1>14, <2>1, Leaves
  <1>17. Coming' /\ Waiting' /\ Passed(m)'
    BY <1>2, TickDone
  <1>18. ChancesAhead(m, trades)'
    <2>1. \A k : Chances(k, trades)' = Chances(k, trades)
      BY <1>1, InputsSame
    <2> QED
      BY <1>1, <1>2, <2>1 DEF ChancesAhead
  <1>19. TradesBehind(trades)'
    <2>1. trades[Len(trades)].exit < at + 1
      BY <1>1, <1>11, <1>16
    <2> QED
      BY <1>1, <1>2, <2>1 DEF TradesBehind
  <1>20. StillOpen(m)'
    BY <1>13 DEF StillOpen
  <1>21. Counted(risk, trades, trades, Session)'
    BY <1>1, <1>13, <1>15, <1>16 DEF Counted, Days
  <1>22. WhileRunning(m, trades, trades)'
    BY <1>17, <1>18, <1>19, <1>20, <1>21 DEF WhileRunning
  <1> QED
    BY <1>1, <1>16, <1>22 DEF Told

(* The position leaves at a tick or stays.                                 *)
LEMMA ProcessTold ==
  ASSUME IInv, IsTold, Process
  PROVE  IsTold'
  <1>1. UNCHANGED inputs /\ intents \in IntentLists
    BY ProcessStays
  <1>2. PICK m \in 0 .. Len(intents), closed \in Seq(Trades), trades \in Seq(Trades) :
          trades = TradesAfter[m] /\ Told(m, closed, trades)
    BY DEF IsTold
  <1>3. m \in Nat
    BY <1>1, IntentsType
  <1>4. CASE /\ position # None /\ Tick.time > position.time
             /\ \E price, result : /\ result \in {"WIN", "LOSS"}
                                   /\ CloseAt(Tick.time, price, result)
                                   /\ \/ Tick.price <= position.stop /\ price = position.stop
                                      \/ /\ Tick.price > position.stop
                                         /\ Tick.price >= position.target
                                         /\ price = position.target
    <2>1. Told(m, trades, trades)'
      BY <1>2, <1>3, <1>4, ProcessLeaves
    <2> QED
      BY <1>1, <1>2, <2>1, StillTold
  <1>5. CASE /\ position # None /\ Tick.time > position.time =>
                  position.stop < Tick.price /\ Tick.price < position.target
             /\ UNCHANGED <<position, risk, events>>
    <2>1. Told(m, closed, trades)'
      BY <1>2, <1>3, <1>5, ProcessHolds
    <2> QED
      BY <1>1, <1>2, <2>1, StillTold
  <1> QED
    BY <1>4, <1>5 DEF Process

(* With the last tick handled no chance is left.                           *)
LEMMA NoneLeft ==
  ASSUME ticks \in Streams, intents \in IntentLists, NEW m \in 0 .. Len(intents),
         Handled = Len(ticks) + 1, ChancesAhead(m, TradesAfter[m])
  PROVE  RefTrades = TradesAfter[m]
  <1>1. /\ Len(intents) \in Nat /\ Len(ticks) \in Nat /\ DOMAIN ticks = 1 .. Len(ticks)
    BY IntentsType, TicksType
  <1>2. ASSUME NEW k \in m + 1 .. Len(intents) PROVE Chances(k, TradesAfter[m]) = {}
    <2>1. \A j \in Chances(k, TradesAfter[m]) : j >= Len(ticks) + 1
      BY DEF ChancesAhead
    <2>2. Chances(k, TradesAfter[m]) \subseteq 1 .. Len(ticks)
      BY <1>1, ChancesType
    <2>3. \A j \in 1 .. Len(ticks) : ~(j >= Len(ticks) + 1)
      BY <1>1
    <2> QED
      BY <2>1, <2>2, <2>3
  <1>3. PICK n \in m .. Len(intents) : n = Len(intents)
    BY <1>1
  <1>4. TradesAfter[n] = TradesAfter[m]
    BY <1>2, <1>3, NoChanceNoTrade
  <1> QED
    BY <1>3, <1>4 DEF RefTrades

(* The last position leaves at the last tick, and nothing is left.         *)
LEMMA FinishTold ==
  ASSUME IInv, IsTold, Finish
  PROVE  IsTold'
  <1>1. /\ pc = "tick" /\ at > Len(ticks) /\ pc' = "done" /\ UNCHANGED inputs
        /\ ticks' = ticks /\ intents' = intents
        /\ ticks \in Streams /\ intents \in IntentLists /\ at \in 1 .. Len(ticks) + 1
        /\ risk \in RiskStates
    BY DEF Finish, inputs, IInv, ControlInv, TypeOK
  <1>2. PICK m \in 0 .. Len(intents), closed \in Seq(Trades), trades \in Seq(Trades) :
          trades = TradesAfter[m] /\ Told(m, closed, trades)
    BY DEF IsTold
  <1>3. /\ LastUsed(m) /\ LedgerTells(m, closed, trades) /\ ChancesAhead(m, trades)
        /\ StillOpen(m) /\ Coming /\ Counted(risk, closed, trades, Session)
    BY <1>1, <1>2 DEF Told, Running, WhileRunning
  <1>4. /\ Len(ticks) \in Nat \ {0} /\ at = Len(ticks) + 1 /\ m \in Nat
        /\ DOMAIN ticks = 1 .. Len(ticks)
    BY <1>1, <1>2, TicksType, IntentsType
  <1>5. PICK x \in DOMAIN ticks : x = at - 1 /\ x = Len(ticks) /\ previous = x
    <2>1. previous # None
      BY <1>3, <1>4 DEF Coming
    <2> QED
      BY <1>1, <1>4, <2>1 DEF IInv, ControlInv, Running
  <1>6. previous # None
    BY <1>4, <1>5, RiskAssumption
  <1>7. RefTrades = trades
    <2>1. Handled = Len(ticks) + 1
      BY <1>1, <1>4 DEF Handled
    <2> QED
      BY <1>1, <1>2, <1>3, <2>1, NoneLeft
  <1>8. RefTrades' = RefTrades
    BY <1>1, InputsSame
  <1>9. CASE position = None
    <2>1. trades = closed /\ OpenFills(Len(events)) = {}
      BY <1>1, <1>3, <1>9, FlatTrades
    <2>2. UNCHANGED events
      BY <1>9 DEF Finish
    <2>3. LastUsed(m)' /\ LedgerTells(m, closed, trades)' /\ OpenFills(Len(events))' = {}
      BY <1>1, <1>3, <2>1, <2>2, LedgerStays
    <2>4. Told(m, closed, trades)'
      BY <1>1, <1>7, <1>8, <2>1, <2>3 DEF Told, Running
    <2> QED
      BY <1>1, <1>2, <2>4, StillTold
  <1>10. CASE position # None
    <2>1. PICK i, b : IsOpenTrade(i, b, m, closed, trades) /\ NotYetLeft(b, m)
      BY <1>1, <1>3, <1>10, OpenTrade DEF Running
    <2>2. /\ b \in DOMAIN ticks /\ b \in Nat /\ m \in DOMAIN intents
          /\ ticks[b].price \in Int /\ ticks[x].price \in Int
      <3>1. b \in DOMAIN ticks /\ m \in DOMAIN intents
        BY <2>1 DEF IsOpenTrade
      <3>2. b \in Nat
        BY <1>4, <3>1
      <3> QED
        BY <1>1, <3>1, <3>2, TicksType
    <2>3. /\ b <= x /\ \A k \in b + 1 .. x : ~Hits(m, k)
          /\ SessionDate(ticks[x].time) = SessionDate(ticks[b].time)
      <3>1. Latest = x /\ x = at - 1
        BY <1>1, <1>5 DEF Latest
      <3>2. /\ b <= x /\ \A k \in b + 1 .. x : ~Hits(m, k)
            /\ \A k \in b .. x : SessionDate(ticks[k].time) = SessionDate(ticks[b].time)
        BY <2>1, <3>1 DEF NotYetLeft
      <3>3. x \in b .. x
        BY <1>4, <1>5, <2>2, <3>2
      <3> QED
        BY <3>2, <3>3
    <2>4. \A k \in DOMAIN ticks : ~(x < k)
      BY <1>4, <1>5
    <2>5. PICK pnl \in Int : pnl = ticks[x].price - ticks[b].price
      BY <2>2
    <2>6. TradeAt(m, b) = [intent |-> m, entry |-> b, exit |-> x, pnl |-> pnl]
      BY <1>1, <2>2, <2>3, <2>4, <2>5, TradeAtEnd
    <2>7. events' = Append(events, Line("POSITION_CLOSED", ticks[x].time, position.intent,
                                        ticks[x].price - position.entry, "SESSION_END"))
      BY <1>5, <1>6, <1>10 DEF Finish, CloseAt
    <2>8. PICK d : d = SessionDate(ticks[b].time)
      OBVIOUS
    <2>9. Counted(risk, closed, trades, d)
      <3>1. Session = SessionDate(ticks[x].time)
        BY <1>1, <1>5, <1>6 DEF Session
      <3> QED
        BY <1>3, <2>3, <2>8, <3>1
    <2>10. LastUsed(m)' /\ LedgerTells(m, trades, trades)' /\ OpenFills(Len(events))' = {}
      <3>1. UNCHANGED inputs /\ m \in Nat /\ LastUsed(m) /\ LedgerTells(m, closed, trades)
            /\ IsOpenTrade(i, b, m, closed, trades) /\ ticks[x].price \in Int
        BY <1>1, <1>3, <1>4, <2>1, <2>2
      <3> QED
        BY <2>5, <2>6, <2>7, <2>8, <2>9, <3>1, Leaves
    <2>11. Told(m, trades, trades)'
      BY <1>1, <1>7, <1>8, <2>10 DEF Told, Running
    <2> QED
      BY <1>1, <1>2, <2>11, StillTold
  <1> QED
    BY <1>9, <1>10

(* What has closed began as the trades did.                                *)
LEMMA ClosedAreTrades ==
  ASSUME IInv, NEW m, NEW closed \in Seq(Trades), NEW trades \in Seq(Trades),
         LedgerTells(m, closed, trades)
  PROVE  \A i \in DOMAIN closed : i \in DOMAIN trades /\ closed[i] = trades[i]
  <1>1. CASE OpenFills(Len(events)) = {}
    BY <1>1 DEF LedgerTells
  <1>2. CASE OpenFills(Len(events)) # {}
    <2>1. PICK i \in OpenFills(Len(events)) : TRUE
      BY <1>2
    <2>2. PICK e \in DOMAIN ticks : events[i].intent = m /\ trades = Append(closed, TradeAt(m, e))
      BY <2>1 DEF LedgerTells
    <2>3. ticks \in Streams /\ intents \in IntentLists /\ m \in DOMAIN intents
      <3>1. i \in DOMAIN events
        BY LinesType DEF OpenFills, IInv, ControlInv
      <3> QED
        BY <2>2, <3>1 DEF IInv, ControlInv, LinesInv
    <2>4. PICK t \in Trades : t = TradeAt(m, e)
      BY <2>3, TradeAtType
    <2>5. PICK n : n = Len(closed)
      OBVIOUS
    <2>6. /\ n \in Nat /\ DOMAIN closed = 1 .. n
          /\ DOMAIN Append(closed, t) = 1 .. n + 1
          /\ \A k \in 1 .. n : Append(closed, t)[k] = closed[k]
      BY <2>5, SequenceAppend
    <2> QED
      BY <2>2, <2>4, <2>6
  <1> QED
    BY <1>1, <1>2

(* What a recovery would count is what the trades say.                     *)
LEMMA CrashTold ==
  ASSUME IInv, FoldInv, ~strayed, IsTold, Crash
  PROVE  IsTold'
  <1>1. /\ Running /\ pc' = "off" /\ UNCHANGED <<inputs, events>> /\ UNCHANGED inputs
        /\ events' = events /\ ticks' = ticks
        /\ ticks \in Streams /\ intents \in IntentLists /\ events \in Seq(Lines)
        /\ risk \in RiskStates
    BY DEF Crash, inputs, IInv, ControlInv, TypeOK, Running
  <1>2. PICK m \in 0 .. Len(intents), closed \in Seq(Trades), trades \in Seq(Trades) :
          trades = TradesAfter[m] /\ Told(m, closed, trades)
    BY DEF IsTold
  <1>3. /\ LastUsed(m) /\ LedgerTells(m, closed, trades) /\ TradesBehind(trades) /\ Coming
        /\ Counted(risk, closed, trades, Session)
    BY <1>1, <1>2 DEF Told, WhileRunning
  <1>4. LastUsed(m)' /\ LedgerTells(m, closed, trades)'
    BY <1>1, <1>3, LedgerStays
  <1>5. PICK h \in DOMAIN ticks : /\ Session = SessionDate(ticks[h].time)
                                  /\ \A j \in DOMAIN ticks : j < Handled => j <= h
    <2>1. DOMAIN ticks = 1 .. Len(ticks) /\ Len(ticks) \in Nat /\ at \in Nat
      BY <1>1, TicksType DEF IInv, TypeOK
    <2>2. CASE pc = "tick" /\ previous # None
      <3>1. previous = at - 1 /\ previous \in DOMAIN ticks /\ Handled = at
            /\ Session = SessionDate(ticks[previous].time)
        BY <1>1, <2>1, <2>2 DEF IInv, ControlInv, TypeOK, Handled, Session
      <3>2. \A j \in DOMAIN ticks : j < at => j <= previous
        BY <2>1, <3>1
      <3> QED
        BY <3>1, <3>2
    <2>3. CASE ~(pc = "tick" /\ previous # None)
      <3>1. at <= Len(ticks)
        <4>1. CASE pc = "tick"
          BY <1>3, <2>3, <4>1 DEF Coming
        <4>2. CASE pc # "tick"
          BY <1>1, <4>2 DEF Running, IInv, ControlInv
        <4> QED
          BY <4>1, <4>2
      <3>2. at \in DOMAIN ticks /\ Session = SessionDate(ticks[at].time)
            /\ Handled \in {at, at + 1}
        BY <2>3, <3>1, TickAtHand DEF Session, Handled
      <3>3. \A j \in DOMAIN ticks : j < Handled => j <= at
        BY <2>1, <3>2
      <3> QED
        BY <3>2, <3>3
    <2> QED
      BY <2>2, <2>3
  <1>6. \A i \in DOMAIN trades : trades[i].entry \in DOMAIN ticks /\ trades[i].entry <= h
    BY <1>3, <1>5 DEF LedgerTells, TradesBehind
  <1>7. PICK d : d = Session
    OBVIOUS
  <1>8. d # LastDate => \A i \in DOMAIN trades : trades[i].entry \notin Days(LastDate)
    <2> SUFFICES ASSUME d # LastDate, NEW i \in DOMAIN trades
                 PROVE  trades[i].entry \notin Days(LastDate)
      OBVIOUS
    <2>1. /\ SessionDate(ticks[trades[i].entry].time) <= SessionDate(ticks[h].time)
          /\ SessionDate(ticks[trades[i].entry].time) \in Int
          /\ SessionDate(ticks[h].time) \in Int
      BY <1>1, <1>6, DatesRun
    <2>2. SessionDate(ticks[h].time) <= LastDate /\ SessionDate(ticks[h].time) # LastDate
          /\ LastDate \in Int
      <3>1. LastDate \in Int
        BY <1>1, LastTick, DatesRun DEF LastDate
      <3> QED
        BY <1>1, <1>5, <1>7, <3>1, LastTick
    <2>3. SessionDate(ticks[trades[i].entry].time) # LastDate
      BY <2>1, <2>2
    <2> QED
      BY <2>3 DEF Days
  <1>9. \A i \in DOMAIN closed : i \in DOMAIN trades /\ closed[i] = trades[i]
    BY <1>3, ClosedAreTrades
  <1>10. Counted(RecoverRisk(events, AsOf), closed, trades, LastDate)
    <2>1. Agree(RecoverLines(events, AsOf), risk, d = LastDate)
      BY <1>1, <1>7 DEF FoldInv
    <2>2. Counted(risk, closed, trades, d)
      BY <1>3, <1>7
    <2>3. /\ \A i \in DOMAIN trades : trades[i].entry \in DOMAIN ticks
          /\ \A i \in DOMAIN closed : closed[i].entry \in DOMAIN ticks
      BY <1>6, <1>9
    <2>4. d # LastDate =>
            /\ \A i \in DOMAIN trades : trades[i].entry \notin Days(LastDate)
            /\ \A i \in DOMAIN closed : closed[i].entry \notin Days(LastDate)
      BY <1>8, <1>9
    <2> QED
      BY <1>1, <2>1, <2>2, <2>3, <2>4, RecoveryCounts
  <1>11. Counted(RecoverRisk(events, AsOf), closed, trades, LastDate)'
    <2>1. PICK r, d2 : r = RecoverRisk(events, AsOf) /\ d2 = LastDate
      OBVIOUS
    <2>2. RecoverRisk(events, AsOf)' = r /\ LastDate' = d2
      BY <1>1, <2>1, InputsSame
    <2>3. Counted(r, closed, trades, d2)
      BY <1>10, <2>1
    <2> QED
      BY <1>1, <2>2, <2>3 DEF Counted, Days
  <1>12. Told(m, closed, trades)'
    BY <1>1, <1>4, <1>11 DEF Told, Running
  <1> QED
    BY <1>1, <1>2, <1>12, StillTold

(* Where a resume goes on: what is not later than the last line lies       *)
(* behind it, the rest ahead.                                              *)
LEMMA FromCutoffBounds ==
  ASSUME IInv, NEW s, Len(s) \in Nat, \A i \in 1 .. Len(s) : s[i].time \in Int,
         \A i, j \in 1 .. Len(s) : i < j => s[i].time <= s[j].time,
         NEW f, f = FromCutoff(s)
  PROVE  /\ f \in 1 .. Len(s) + 1
         /\ \A i \in 1 .. Len(s) : i < f =>
              events # <<>> /\ Cutoff \in Int /\ s[i].time <= Cutoff
         /\ \A i \in 1 .. Len(s) : i >= f /\ events # <<>> => Cutoff < s[i].time
  <1>1. CASE events = <<>>
    <2>1. f = 1
      BY <1>1, CutoffIsLast DEF FromCutoff
    <2> QED
      BY <1>1, <2>1
  <1>2. CASE events # <<>>
    <2>1. PICK c \in Int : c = Cutoff
      BY <1>2, CutoffIsLast
    <2>2. c # None
      BY RiskAssumption
    <2>3. f = FirstLater(s, 1, c)
      BY <2>1, <2>2 DEF FromCutoff
    <2>4. 1 \in 1 .. Len(s) + 1
      OBVIOUS
    <2>5. /\ f \in 1 .. Len(s) + 1
          /\ \A i \in 1 .. Len(s) : i < f => s[i].time <= c
          /\ \A i \in 1 .. Len(s) : i >= f => s[i].time > c
      BY <2>3, <2>4, FirstLaterBounds
    <2> QED
      BY <1>2, <2>1, <2>5
  <1> QED
    BY <1>1, <1>2

(* A clean resume: at the tick f and the intent g.                         *)
ResumesAt(f, g) ==
  /\ f \in DOMAIN ticks /\ f \in Nat /\ g \in Nat /\ g <= Len(intents) + 1
  /\ f = FirstTick /\ g = FromCutoff(intents)
  /\ \A j \in DOMAIN ticks : j < f =>
       events # <<>> /\ Cutoff \in Int /\ ticks[j].time <= Cutoff
  /\ \A j \in DOMAIN ticks : j >= f /\ events # <<>> => Cutoff < ticks[j].time
  /\ \A n \in DOMAIN intents : n < g =>
       events # <<>> /\ Cutoff \in Int /\ intents[n].time <= Cutoff
  /\ \A n \in DOMAIN intents : n >= g /\ events # <<>> => Cutoff < intents[n].time

(* There is such a tick and such an intent.                                *)
LEMMA ResumeBounds ==
  ASSUME IInv, CleanResume
  PROVE  \E f, g : ResumesAt(f, g)
  <1>1. /\ ticks \in Streams /\ intents \in IntentLists
    BY DEF IInv, ControlInv
  <1>2. PICK f, g : f = FirstTick /\ g = FromCutoff(intents)
    OBVIOUS
  <1>3. /\ Len(ticks) \in Nat /\ DOMAIN ticks = 1 .. Len(ticks)
        /\ \A i \in 1 .. Len(ticks) : ticks[i].time \in Int
        /\ \A i, j \in 1 .. Len(ticks) : i < j => ticks[i].time <= ticks[j].time
    <2>1. /\ Len(ticks) \in Nat /\ DOMAIN ticks = 1 .. Len(ticks)
          /\ \A i \in DOMAIN ticks : ticks[i].time \in Int
      BY <1>1, TicksType
    <2>2. ASSUME NEW i \in DOMAIN ticks, NEW j \in DOMAIN ticks, i < j
          PROVE  ticks[i].time <= ticks[j].time
      <3>1. i \in Nat /\ j \in Nat /\ i <= j
        BY <2>1, <2>2
      <3> QED
        BY <1>1, <3>1, DatesRun
    <2> QED
      BY <2>1, <2>2
  <1>4. /\ f \in 1 .. Len(ticks) + 1
        /\ \A i \in 1 .. Len(ticks) : i < f =>
             events # <<>> /\ Cutoff \in Int /\ ticks[i].time <= Cutoff
        /\ \A i \in 1 .. Len(ticks) : i >= f /\ events # <<>> => Cutoff < ticks[i].time
    <2>1. f = FromCutoff(ticks)
      BY <1>2 DEF FirstTick
    <2> QED
      BY <1>3, <2>1, FromCutoffBounds
  <1>5. /\ Len(intents) \in Nat /\ DOMAIN intents = 1 .. Len(intents)
        /\ \A i \in 1 .. Len(intents) : intents[i].time \in Int
        /\ \A i, j \in 1 .. Len(intents) : i < j => intents[i].time <= intents[j].time
    BY <1>1, IntentsType
  <1>6. /\ g \in 1 .. Len(intents) + 1
        /\ \A i \in 1 .. Len(intents) : i < g =>
             events # <<>> /\ Cutoff \in Int /\ intents[i].time <= Cutoff
        /\ \A i \in 1 .. Len(intents) : i >= g /\ events # <<>> => Cutoff < intents[i].time
    BY <1>2, <1>5, FromCutoffBounds
  <1>7. f <= Len(ticks)
    BY <1>2 DEF CleanResume
  <1> QED
    BY <1>2, <1>3, <1>4, <1>5, <1>6, <1>7 DEF ResumesAt

(* No intent after the last one used had its chance before the last line.  *)
LEMMA NoChanceBehind ==
  ASSUME IInv, Disjoint, NEW f, NEW g, ResumesAt(f, g), NEW m \in 0 .. Len(intents),
         NEW closed \in Seq(Trades), NEW trades \in Seq(Trades),
         LastUsed(m), LedgerTells(m, closed, trades),
         NEW n \in m + 1 .. Len(intents), NEW j \in Chances(n, trades)
  PROVE  j >= f
  <1> SUFFICES ASSUME ~(j >= f) PROVE FALSE
    OBVIOUS
  <1>1. /\ ticks \in Streams /\ intents \in IntentLists /\ events \in Seq(Lines)
        /\ Len(intents) \in Nat /\ DOMAIN intents = 1 .. Len(intents)
    BY IntentsType DEF IInv, ControlInv
  <1>2. /\ j \in DOMAIN ticks /\ j \in Nat /\ ticks[j].time \in Int
        /\ n \in DOMAIN intents /\ intents[n].time \in Int /\ intents[n].time < ticks[j].time
        /\ trades # <<>> => j > Last(trades).exit
    <2>1. j \in DOMAIN ticks /\ j \in Nat
      BY <1>1, ChancesType
    <2>2. n \in DOMAIN intents
      BY <1>1
    <2> QED
      BY <1>1, <2>1, <2>2, TicksType, IntentsType DEF Chances
  <1>3. events # <<>> /\ Cutoff \in Int /\ ticks[j].time <= Cutoff
    BY <1>2 DEF ResumesAt
  <1>4. PICK l : l = Len(events)
    OBVIOUS
  <1>5. /\ l \in Nat /\ l \in DOMAIN events /\ DOMAIN events = 1 .. l
        /\ Cutoff = events[l].time
    BY <1>1, <1>3, <1>4, LinesType DEF Cutoff, Last
  <1>6. CASE events[l].event = "POSITION_CLOSED"
    <2>1. closed # <<>> /\ ticks[closed[Len(closed)].exit].time = Cutoff
      BY <1>3, <1>4, <1>5, <1>6 DEF LedgerTells
    <2>2. OpenFills(l) = {}
      <3>1. ASSUME NEW i \in OpenFills(l) PROVE FALSE
        <4>1. /\ i \in 1 .. l /\ events[i].event = "BUY_FILLED"
              /\ \A k \in i + 1 .. l : events[k].event = "REJECT"
          BY <3>1 DEF OpenFills
        <4>2. i # l
          BY <1>6, <4>1
        <4>3. l \in i + 1 .. l
          BY <1>5, <4>1, <4>2
        <4> QED
          BY <1>6, <4>1, <4>3
      <3> QED
        BY <3>1
    <2>3. trades = closed
      BY <1>4, <2>2 DEF LedgerTells
    <2>4. PICK x : x = trades[Len(trades)].exit
      OBVIOUS
    <2>5. /\ x = Last(trades).exit /\ x \in Nat /\ x \in DOMAIN ticks
          /\ ticks[x].time = Cutoff
      <3>1. Len(trades) \in DOMAIN trades /\ Last(trades) = trades[Len(trades)] /\ x \in Nat
        BY <2>1, <2>3, <2>4, LastTrade
      <3>2. x \in DOMAIN ticks
        BY <2>3, <2>4, <3>1 DEF LedgerTells
      <3> QED
        BY <2>1, <2>3, <2>4, <3>1, <3>2
    <2>6. x < j
      BY <1>2, <2>1, <2>3, <2>5
    <2>7. ticks[x].time < ticks[j].time
      BY <1>1, <1>2, <2>5, <2>6, TicksType
    <2> QED
      BY <1>2, <1>3, <2>5, <2>7
  <1>7. CASE events[l].event # "POSITION_CLOSED"
    <2>1. m # 0
      BY <1>3 DEF LastUsed
    <2>2. PICK i \in DOMAIN events :
            /\ events[i].event # "POSITION_CLOSED" /\ events[i].intent = m
            /\ events[i].time < intents[m].expiry
            /\ \A k \in i + 1 .. Len(events) : events[k].event = "POSITION_CLOSED"
      BY <2>1 DEF LastUsed
    <2>3. i = l
      <3>1. i # l => l \in i + 1 .. Len(events)
        BY <1>4, <1>5
      <3> QED
        BY <1>7, <2>2, <3>1
    <2>4. m \in DOMAIN intents /\ m \in Nat /\ m < n /\ n \in Nat
      BY <1>1, <2>1
    <2>5. intents[m].expiry <= intents[n].time /\ intents[m].expiry \in Int
      BY <1>1, <1>2, <2>4, DisjointFar, IntentLevels
    <2>6. Cutoff < intents[m].expiry
      BY <1>5, <2>2, <2>3
    <2> QED
      BY <1>2, <1>3, <2>5, <2>6
  <1> QED
    BY <1>6, <1>7

(* The trades lie behind.                                                  *)
LEMMA ResumedTradesBehind ==
  ASSUME IInv, NEW f, NEW g, ResumesAt(f, g), NEW m,
         NEW closed \in Seq(Trades), NEW trades \in Seq(Trades), LedgerTells(m, closed, trades)
  PROVE  /\ \A i \in DOMAIN trades : trades[i].entry < f
         /\ OpenInLedger = None /\ trades # <<>> => trades[Len(trades)].exit < f
  <1>1. ASSUME NEW j \in DOMAIN ticks, j \in Nat,
               NEW k \in DOMAIN events, events[k].time = ticks[j].time
        PROVE  j < f
    <2>1. events # <<>>
      BY <1>1
    <2>2. Cutoff \in Int /\ events[k].time <= Cutoff /\ events[k].time \in Int
      BY CutoffIsLast, LinesType DEF IInv, ControlInv
    <2>3. ~(Cutoff < ticks[j].time)
      BY <1>1, <2>2
    <2>4. ~(j >= f) /\ f \in Nat
      BY <2>1, <2>3 DEF ResumesAt
    <2> QED
      BY <1>1, <2>4
  <1>2. ASSUME NEW i \in DOMAIN trades PROVE trades[i].entry < f
    <2>1. trades[i].entry \in Nat /\ trades[i].entry \in DOMAIN ticks
      BY TradesType DEF LedgerTells
    <2>2. PICK k \in DOMAIN events : events[k].time = ticks[trades[i].entry].time
      BY DEF LedgerTells
    <2> QED
      BY <1>1, <2>1, <2>2
  <1>3. ASSUME OpenInLedger = None, trades # <<>> PROVE trades[Len(trades)].exit < f
    <2>1. OpenFills(Len(events)) = {}
      <3>1. ASSUME NEW i \in OpenFills(Len(events)) PROVE FALSE
        <4>1. i \in DOMAIN events /\ events[i].event = "BUY_FILLED" /\ events \in Seq(Lines)
          BY LinesType DEF OpenFills, IInv, ControlInv
        <4>2. OpenInLedger = PositionOf(events[i])
          BY <4>1, LedgerPosition
        <4>3. PositionOf(events[i]) # None
          BY <4>1, OpenFillType DEF IInv
        <4> QED
          BY <1>3, <4>2, <4>3
      <3> QED
        BY <3>1
    <2>2. closed = trades
      BY <2>1 DEF LedgerTells
    <2>3. Len(trades) \in DOMAIN trades /\ trades[Len(trades)].exit \in Nat
      BY <1>3, LastTrade
    <2>4. trades[Len(trades)].exit \in DOMAIN ticks
      BY <2>2, <2>3 DEF LedgerTells
    <2>5. PICK k \in DOMAIN events : events[k].time = ticks[trades[Len(trades)].exit].time
      BY <2>2, <2>3 DEF LedgerTells
    <2> QED
      BY <1>1, <2>3, <2>4, <2>5
  <1> QED
    BY <1>2, <1>3

(* An open position is that of the last line, the tick before the first.   *)
LEMMA ResumedOpen ==
  ASSUME IInv, CleanResume, NEW f, NEW g, ResumesAt(f, g), NEW m,
         NEW closed, NEW trades, LastUsed(m), LedgerTells(m, closed, trades),
         OpenInLedger # None
  PROVE  \E e \in DOMAIN ticks :
           /\ ticks[e].time = OpenInLedger.time /\ e \in Nat /\ e = f - 1
           /\ SessionDate(ticks[f].time) = SessionDate(ticks[e].time)
  <1>1. ticks \in Streams /\ events \in Seq(Lines)
    BY DEF IInv, ControlInv
  <1>2. PICK i \in OpenFills(Len(events)) : TRUE
    BY LedgerPosition
  <1>3. PICK l : l = Len(events)
    OBVIOUS
  <1>4. /\ l \in Nat /\ DOMAIN events = 1 .. l /\ i \in 1 .. l
        /\ events[i].event = "BUY_FILLED"
        /\ \A k \in i + 1 .. l : events[k].event = "REJECT"
    BY <1>1, <1>2, <1>3, LinesType DEF OpenFills
  <1>5. PICK e \in DOMAIN ticks : ticks[e].time = events[i].time /\ events[i].intent = m
    BY <1>2 DEF LedgerTells
  <1>6. OpenInLedger.time = ticks[e].time
    <2>1. OpenInLedger = PositionOf(events[i])
      BY <1>1, <1>2, LedgerPosition
    <2>2. PositionOf(events[i]).time = events[i].time
      BY DEF PositionOf
    <2> QED
      BY <1>5, <2>1, <2>2
  <1>7. i = l
    <2>1. m # 0
      <3>1. events # <<>>
        BY <1>4
      <3> QED
        BY <3>1 DEF LastUsed
    <2>2. PICK k \in DOMAIN events :
            /\ events[k].event # "POSITION_CLOSED" /\ events[k].intent = m
            /\ \A q \in k + 1 .. Len(events) : events[q].event = "POSITION_CLOSED"
      BY <2>1 DEF LastUsed
    <2>3. k = i
      BY <1>4, <1>5, <2>2 DEF IInv, FilledOnce
    <2>4. i # l => l \in i + 1 .. l
      BY <1>4
    <2>5. i # l => events[l].event = "POSITION_CLOSED" /\ events[l].event = "REJECT"
      BY <1>3, <1>4, <2>2, <2>3, <2>4
    <2> QED
      BY <2>5
  <1>8. events # <<>> /\ Cutoff = ticks[e].time
    BY <1>3, <1>4, <1>5, <1>7 DEF Cutoff, Last
  <1>9. e \in Nat /\ f \in Nat /\ f \in DOMAIN ticks
    BY <1>1, TicksType DEF ResumesAt
  <1>10. e < f
    <2>1. ~(ticks[e].time < ticks[e].time)
      BY <1>1, TicksType
    <2>2. ~(e >= f)
      BY <1>8, <2>1 DEF ResumesAt
    <2> QED
      BY <1>9, <2>2
  <1>11. e = f - 1
    <2> SUFFICES ASSUME e < f - 1 PROVE FALSE
      BY <1>9, <1>10
    <2>1. PICK k \in DOMAIN ticks : k = e + 1
      <3>1. DOMAIN ticks = 1 .. Len(ticks) /\ Len(ticks) \in Nat
        BY <1>1, TicksType
      <3>2. e + 1 \in 1 .. Len(ticks)
        BY <1>9, <3>1
      <3> QED
        BY <3>1, <3>2
    <2>2. e < k /\ k < f
      BY <1>9, <2>1
    <2>3. ticks[e].time < ticks[k].time /\ ticks[k].time \in Int /\ ticks[e].time \in Int
      BY <1>1, <2>2, TicksType
    <2>4. ticks[k].time <= Cutoff
      BY <2>2 DEF ResumesAt
    <2> QED
      BY <1>8, <2>3, <2>4
  <1>12. SessionDate(ticks[f].time) = SessionDate(ticks[e].time)
    BY <1>6 DEF CleanResume, ResumesAt
  <1> QED
    BY <1>6, <1>9, <1>11, <1>12

(* A clean resume goes on with the trades where the process left them.     *)
LEMMA ResumeTold ==
  ASSUME IInv, Disjoint, IsTold, Resume, ~strayed'
  PROVE  IsTold'
  <1>1. /\ pc = "off" /\ pc' = "tick" /\ UNCHANGED <<inputs, events>> /\ UNCHANGED inputs
        /\ ticks' = ticks /\ intents' = intents /\ UNCHANGED previous /\ UNCHANGED pending
        /\ risk' = RecoverRisk(events, AsOf) /\ position' = OpenInLedger
        /\ at' = FirstTick /\ next' = FromCutoff(intents) /\ CleanResume
    BY DEF Resume, inputs, AsOf
  <1>2. /\ ticks \in Streams /\ intents \in IntentLists /\ previous = None /\ pending = {}
        /\ Len(ticks) \in Nat /\ DOMAIN ticks = 1 .. Len(ticks)
        /\ Len(intents) \in Nat /\ DOMAIN intents = 1 .. Len(intents)
    BY <1>1, TicksType, IntentsType DEF IInv, ControlInv
  <1>3. PICK m \in 0 .. Len(intents), closed \in Seq(Trades), trades \in Seq(Trades) :
          trades = TradesAfter[m] /\ Told(m, closed, trades)
    BY DEF IsTold
  <1>4. /\ LastUsed(m) /\ LedgerTells(m, closed, trades) /\ m \in Nat
        /\ Counted(RecoverRisk(events, AsOf), closed, trades, LastDate)
    BY <1>1, <1>2, <1>3 DEF Told
  <1>5. PICK f, g : ResumesAt(f, g)
    BY <1>1, ResumeBounds
  <1>6. /\ at' = f /\ next' = g /\ f \in DOMAIN ticks /\ f \in Nat /\ f <= Len(ticks)
        /\ g \in Nat /\ g <= Len(intents) + 1 /\ ticks[f].time \in Int
    BY <1>1, <1>2, <1>5, TicksType DEF ResumesAt
  <1>7. Latest' = f - 1 /\ Handled' = f
    BY <1>1, <1>6 DEF Latest, Handled
  <1>8. LastUsed(m)' /\ LedgerTells(m, closed, trades)'
    BY <1>1, <1>4, LedgerStays
  <1>9. ChancesAhead(m, trades)'
    <2>1. \A k : Chances(k, trades)' = Chances(k, trades)
      BY <1>1, InputsSame
    <2>2. ASSUME NEW n \in m + 1 .. Len(intents), NEW j \in Chances(n, trades)
          PROVE  j >= f
      BY <1>3, <1>4, <1>5, NoChanceBehind
    <2> QED
      BY <1>1, <1>7, <2>1, <2>2 DEF ChancesAhead
  <1>10. TradesBehind(trades)'
    <2>1. /\ \A i \in DOMAIN trades : trades[i].entry < f
          /\ OpenInLedger = None /\ trades # <<>> => trades[Len(trades)].exit < f
      BY <1>3, <1>4, <1>5, ResumedTradesBehind
    <2> QED
      BY <1>1, <1>7, <2>1 DEF TradesBehind
  <1>11. StillOpen(m)'
    <2> SUFFICES ASSUME OpenInLedger # None PROVE StillOpen(m)'
      BY <1>1 DEF StillOpen
    <2>1. PICK e \in DOMAIN ticks :
            /\ ticks[e].time = OpenInLedger.time /\ e \in Nat /\ e = f - 1
            /\ SessionDate(ticks[f].time) = SessionDate(ticks[e].time)
      BY <1>1, <1>4, <1>5, ResumedOpen
    <2>2. \A k \in e + 1 .. f - 1 : FALSE
      BY <1>6, <2>1
    <2>3. \A k \in e .. f - 1 : k = e
      BY <1>6, <2>1
    <2>4. \A k \in e .. f - 1 : SessionDate(ticks[k].time) = SessionDate(ticks[e].time)
      BY <2>3
    <2>5. /\ at' = f /\ Latest' = f - 1 /\ e <= f - 1 /\ ticks' = ticks
          /\ ticks[e].time = position'.time
      BY <1>1, <1>6, <1>7, <2>1
    <2> QED
      BY <2>1, <2>2, <2>4, <2>5 DEF StillOpen
  <1>12. ASSUME NEW n \in DOMAIN intents, n < g
         PROVE  /\ events # <<>> /\ Cutoff \in Int /\ intents[n].time <= Cutoff
                /\ Cutoff < ticks[f].time /\ Cutoff # None
                /\ intents[n].time \in Int /\ intents[n].expiry \in Int
    <2>1. events # <<>> /\ Cutoff \in Int /\ intents[n].time <= Cutoff
      BY <1>5, <1>12 DEF ResumesAt
    <2>2. Cutoff < ticks[f].time
      <3>1. f >= f
        BY <1>6
      <3> QED
        BY <1>5, <1>6, <2>1, <3>1 DEF ResumesAt
    <2>3. Cutoff # None
      BY <2>1, RiskAssumption
    <2> QED
      BY <1>2, <2>1, <2>2, <2>3, IntentLevels
  <1>13. Coming'
    <2>1. ASSUME NEW n \in DOMAIN intents, n >= g, NEW j \in 1 .. f - 1
          PROVE  ticks[j].time < intents[n].time
      <3>1. j \in DOMAIN ticks /\ j < f
        BY <1>2, <1>6
      <3>2. events # <<>> /\ Cutoff \in Int /\ ticks[j].time <= Cutoff
        BY <1>5, <3>1 DEF ResumesAt
      <3>3. Cutoff < intents[n].time
        BY <1>5, <2>1, <3>2 DEF ResumesAt
      <3>4. ticks[j].time \in Int /\ intents[n].time \in Int
        BY <1>2, <3>1, TicksType, IntentLevels
      <3> QED
        BY <3>2, <3>3, <3>4
    <2>2. ASSUME NEW n \in DOMAIN intents, n < g
          PROVE  intents[n].time <= ticks[f].time
      BY <1>6, <1>12, <2>2
    <2> QED
      BY <1>1, <1>6, <1>7, <2>1, <2>2 DEF Coming
  <1>14. Waiting'
    BY <1>1, <1>2 DEF Waiting
  <1>15. Passed(m)'
    <2>1. ASSUME NEW n \in m + 1 .. g - 1 PROVE intents[n].expiry <= ticks[f].time
      <3>1. n \in DOMAIN intents /\ n < g /\ m < n /\ n \in Nat
        BY <1>2, <1>4, <1>6
      <3>2. /\ Cutoff \in Int /\ intents[n].time <= Cutoff
            /\ Cutoff < ticks[f].time /\ Cutoff # None /\ intents[n].expiry \in Int
        BY <1>12, <3>1
      <3>3. ~(\E i \in DOMAIN events : events[i].intent = n)
        <4>1. \A i \in DOMAIN events : events[i].intent <= m
          BY <1>4 DEF LastUsed
        <4>2. ~(n <= m)
          BY <1>4, <3>1
        <4> QED
          BY <4>1, <4>2
      <3>4. ~(Cutoff < intents[n].expiry)
        <4>1. Cutoff # None /\ intents[n].time <= Cutoff /\ Cutoff < intents[n].expiry
                => \E i \in DOMAIN events : events[i].intent = n
          BY <1>1, <3>1 DEF CleanResume
        <4> QED
          BY <3>2, <3>3, <4>1
      <3> QED
        BY <1>6, <3>2, <3>4
    <2> QED
      BY <1>1, <1>6, <2>1 DEF Passed
  <1>16. Counted(risk, closed, trades, Session)'
    <2>1. PICK d : d = LastDate
      OBVIOUS
    <2>2. Session' = d
      BY <1>1, <1>2, <1>5, <1>6, <2>1 DEF Session, CleanResume, LastDate, AsOf, ResumesAt
    <2>3. Counted(RecoverRisk(events, AsOf), closed, trades, d)
      BY <1>4, <2>1
    <2> QED
      BY <1>1, <2>2, <2>3 DEF Counted, Days
  <1>17. WhileRunning(m, closed, trades)'
    BY <1>9, <1>10, <1>11, <1>13, <1>14, <1>15, <1>16 DEF WhileRunning
  <1>18. Told(m, closed, trades)'
    BY <1>1, <1>8, <1>17 DEF Told
  <1> QED
    BY <1>1, <1>2, <1>3, <1>18, StillTold

(* Nothing changes, nothing is told.                                       *)
LEMMA StutterTold ==
  ASSUME IsTold, UNCHANGED vars, intents \in IntentLists
  PROVE  IsTold'
  <1>1. /\ UNCHANGED <<inputs, events>> /\ UNCHANGED inputs /\ ticks' = ticks
        /\ intents' = intents /\ events' = events /\ pc' = pc /\ at' = at /\ next' = next
        /\ pending' = pending /\ turn' = turn /\ position' = position /\ risk' = risk
        /\ previous' = previous
    BY DEF vars, inputs
  <1>2. PICK m \in 0 .. Len(intents), closed \in Seq(Trades), trades \in Seq(Trades) :
          trades = TradesAfter[m] /\ Told(m, closed, trades)
    BY DEF IsTold
  <1>3. /\ LastUsed(m) => LastUsed(m)'
        /\ LedgerTells(m, closed, trades) => LedgerTells(m, closed, trades)'
        /\ OpenFills(Len(events))' = OpenFills(Len(events))
    BY <1>1, LedgerStays
  <1>4. /\ Latest' = Latest /\ Handled' = Handled /\ Session' = Session
        /\ \A k : Chances(k, trades)' = Chances(k, trades)
        /\ \A n, k : Hits(n, k)' = Hits(n, k) /\ RefTrades' = RefTrades
        /\ AsOf' = AsOf /\ LastDate' = LastDate /\ (Running' <=> Running)
    BY <1>1, InputsSame DEF Latest, Handled, Session, Running
  <1>5. ASSUME WhileRunning(m, closed, trades) PROVE WhileRunning(m, closed, trades)'
    <2>1. ChancesAhead(m, trades)' /\ TradesBehind(trades)' /\ StillOpen(m)'
      BY <1>1, <1>4, <1>5 DEF WhileRunning, ChancesAhead, TradesBehind, StillOpen
    <2>2. Coming' /\ Waiting' /\ Passed(m)'
      BY <1>1, <1>4, <1>5 DEF WhileRunning, Coming, Waiting, Passed
    <2>3. Counted(risk, closed, trades, Session)'
      BY <1>1, <1>4, <1>5 DEF WhileRunning, Counted, Days
    <2> QED
      BY <2>1, <2>2, <2>3 DEF WhileRunning
  <1>6. Counted(RecoverRisk(events, AsOf), closed, trades, LastDate) =>
          Counted(RecoverRisk(events, AsOf), closed, trades, LastDate)'
    <2>1. PICK r, d : r = RecoverRisk(events, AsOf) /\ d = LastDate
      OBVIOUS
    <2>2. RecoverRisk(events, AsOf)' = r /\ LastDate' = d
      BY <1>1, <1>4, <2>1
    <2>3. Counted(r, closed, trades, d) => Counted(r, closed, trades, d)'
      BY <1>1 DEF Counted, Days
    <2> QED
      BY <2>1, <2>2, <2>3
  <1>7. Told(m, closed, trades)'
    <2>1. LastUsed(m)' /\ LedgerTells(m, closed, trades)'
      BY <1>2, <1>3 DEF Told
    <2>2. Running' => WhileRunning(m, closed, trades)'
      BY <1>2, <1>4, <1>5 DEF Told
    <2>3. pc' = "off" => Counted(RecoverRisk(events, AsOf), closed, trades, LastDate)'
      BY <1>1, <1>2, <1>6 DEF Told
    <2>4. pc' = "done" => OpenFills(Len(events))' = {} /\ RefTrades' = closed
      BY <1>1, <1>2, <1>3, <1>4 DEF Told
    <2> QED
      BY <2>1, <2>2, <2>3, <2>4 DEF Told
  <1> QED
    BY <1>1, <1>2, <1>7, StillTold

(* Told so far, unless a resume was not clean, an operator used the kill   *)
(* switch, or an intent came up late or while another was waiting.         *)
TradeInv == ~strayed /\ switch = "never" /\ Disjoint /\ ComeUpInTime => IsTold

(* Every step keeps it.                                                    *)
LEMMA TradesKeep ==
  ASSUME IInv, FoldInv, TradeInv, [Next]_vars
  PROVE  TradeInv'
  <1> SUFFICES ASSUME ~strayed', switch' = "never", Disjoint', ComeUpInTime'
               PROVE  IsTold'
    BY DEF TradeInv
  <1>0. ~Operator
    BY DEF Operator
  <1>1. ~strayed /\ switch = "never" /\ UNCHANGED inputs
    <2>1. CASE NextTick
      BY <2>1 DEF NextTick
    <2>2. CASE NoMoreTurns
      BY <2>2 DEF NoMoreTurns
    <2>3. CASE SubmitTurn
      BY <2>3 DEF SubmitTurn
    <2>4. CASE Process
      BY <2>4 DEF Process
    <2>5. CASE Finish
      BY <2>5 DEF Finish
    <2>6. CASE Crash
      BY <2>6 DEF Crash
    <2>7. CASE Resume
      BY <2>7 DEF Resume
    <2>8. CASE UNCHANGED vars
      BY <2>8 DEF vars
    <2> QED
      BY <1>0, <2>1, <2>2, <2>3, <2>4, <2>5, <2>6, <2>7, <2>8 DEF Next
  <1>2. Disjoint /\ ComeUpInTime
    BY <1>1, InputsSame
  <1>3. IsTold /\ intents \in IntentLists
    BY <1>1, <1>2 DEF TradeInv, IInv, ControlInv
  <1>4. CASE NoMoreTurns
    <2>1. PICK m \in 0 .. Len(intents), closed \in Seq(Trades), trades \in Seq(Trades) :
            trades = TradesAfter[m] /\ Told(m, closed, trades)
      BY <1>3 DEF IsTold
    <2>2. m \in Nat
      BY <1>3, IntentsType
    <2>3. Told(m, closed, trades)'
      BY <1>2, <1>4, <2>1, <2>2, NoMoreTurnsTold
    <2> QED
      BY <1>1, <1>3, <2>1, <2>3, StillTold
  <1>5. CASE NextTick
    BY <1>3, <1>5, NextTickTold
  <1>6. CASE SubmitTurn
    BY <1>1, <1>2, <1>3, <1>6, SubmitTurnTold
  <1>7. CASE Process
    BY <1>3, <1>7, ProcessTold
  <1>8. CASE Finish
    BY <1>3, <1>8, FinishTold
  <1>9. CASE Crash
    BY <1>1, <1>3, <1>9, CrashTold
  <1>10. CASE Resume
    BY <1>2, <1>3, <1>10, ResumeTold
  <1>11. CASE UNCHANGED vars
    BY <1>3, <1>11, StutterTold
  <1> QED
    BY <1>4, <1>5, <1>6, <1>7, <1>8, <1>9, <1>10, <1>11, <1>0 DEF Next

(* What is told at the end is TradesAsSpecified.                           *)
LEMMA ToldAtEnd ==
  ASSUME IInv, TradeInv
  PROVE  TradesAsSpecified
  <1> SUFFICES ASSUME pc = "done", ~strayed, switch = "never", Disjoint,
                      ComeUpInTime
               PROVE  OpenInLedger = None /\ TradesInLedger = Range(RefTrades)
    BY DEF TradesAsSpecified
  <1>1. PICK m \in 0 .. Len(intents), closed \in Seq(Trades), trades \in Seq(Trades) :
          Told(m, closed, trades)
    BY DEF TradeInv, IsTold
  <1>2. OpenFills(Len(events)) = {} /\ RefTrades = closed /\ TradesInLedger = Range(closed)
    BY <1>1 DEF Told, LedgerTells
  <1> QED
    BY <1>2, LedgerPosition

(* TradesAsSpecified, for any ticks and any intents that do not wait       *)
(* together: the ledger of a finished replay holds exactly the trades the  *)
(* documents describe, with any number of crashes and clean resumes, once  *)
(* the zones agree on the dates and while no operator uses the kill switch *)
(* (replay.py:80-158, paper.py:69-138, safety.py:35-92).                   *)
THEOREM TradesAreTheDocuments ==
  ASSUME ZonesAgree
  PROVE  Spec => []TradesAsSpecified
  <1>1. Init => TradeInv
    BY InitTold DEF TradeInv
  <1>2. IInv /\ FoldInv /\ TradeInv /\ [Next]_vars => TradeInv'
    BY TradesKeep
  <1>3. IInv /\ TradeInv => TradesAsSpecified
    BY ToldAtEnd
  <1>4. Spec => []IInv
    BY Inductive
  <1>5. Spec => []FoldInv
    BY CountersAgree
  <1> QED
    BY <1>1, <1>2, <1>3, <1>4, <1>5, PTL DEF Spec
=============================================================================
