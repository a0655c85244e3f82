------------------------------- MODULE Replay -------------------------------
(***************************************************************************)
(* replay_buy_intents (replay.py) through PaperBroker (paper.py): approved *)
(* BUY intents against ordered ticks, with a ledger to resume from.  Each  *)
(* step ends at the one line it appends, if any; the process can die       *)
(* between two steps and is then run again with --resume over the same     *)
(* ticks and intents.                                                      *)
(***************************************************************************)
EXTENDS RiskRecovery, Totals, FiniteSets, SequencesExt

CONSTANTS
  SessionDate(_), \* date of an instant in the zone of --timezone
  Streams,       \* sequences of ticks, strictly increasing in time
  IntentLists,   \* sequences of intents, chronological
  MaxCrashes,    \* bound: how often the process dies
  OperatorHalts  \* does an operator use the kill switch of the ledger?

(* _validate_ticks and _validate_intents: ticks of strictly increasing     *)
(* time, intents in the order of theirs.  Local dates never run backwards. *)
ASSUME ReplayAssumption ==
  /\ MaxCrashes \in Nat /\ OperatorHalts \in BOOLEAN
  /\ \A s \in Streams :
       /\ s \in Seq([time : Int, price : Int]) /\ Len(s) > 0
       /\ \A i \in DOMAIN s : SessionDate(s[i].time) \in Int
       /\ \A i, j \in DOMAIN s : i < j =>
            /\ s[i].time < s[j].time
            /\ SessionDate(s[i].time) <= SessionDate(s[j].time)
  /\ \A s \in IntentLists :
       /\ s \in Seq([time : Int, expiry : Int, trigger : Int, stop : Int,
                     target : Int])
       /\ \A i, j \in DOMAIN s : i < j => s[i].time <= s[j].time
       /\ \A n \in DOMAIN s : SessionDate(s[n].time) \in Int
  /\ \A s \in Streams, q \in IntentLists : \A i \in DOMAIN s, n \in DOMAIN q :
       /\ s[i].time <= q[n].time => SessionDate(s[i].time) <= SessionDate(q[n].time)
       /\ q[n].time <= s[i].time => SessionDate(q[n].time) <= SessionDate(s[i].time)
  /\ None \notin [intent : Nat, time : Int, entry : Int, stop : Int, target : Int]

VARIABLES
  ticks, intents,  \* the arguments, the same in every run
  events,          \* the lines of the ledger
  pc,
  at,              \* index of the next tick, or of the one being handled
  next,            \* index of the next intent to become pending
  pending,         \* indices of the pending intents
  turn,            \* the first intent the loop has not passed
  position,        \* broker.position, or None
  risk,
  previous,        \* index of previous_tick, or None
  crashes,
  strayed,         \* history: some resume was not a clean one
  switch           \* the last kill-switch line of the ledger, or "never"

inputs == <<ticks, intents>>
vars == <<inputs, events, pc, at, next, pending, turn, position, risk,
          previous, crashes, strayed, switch>>

Tick == ticks[at]
Line(event, time, n, pnl, result) ==
  [event |-> event, time |-> time, intent |-> n, pnl |-> pnl, result |-> result]

Init ==
  /\ ticks \in Streams /\ intents \in IntentLists
  /\ events = <<>> /\ pc = "tick" /\ at = 1 /\ next = 1
  /\ pending = {} /\ turn = 1 /\ position = None
  /\ risk = NewRisk /\ previous = None
  /\ crashes = 0 /\ strayed = FALSE /\ switch = "never"

-----------------------------------------------------------------------------
(* PaperBroker *)

Open(n) ==
  position' = [intent |-> n, time |-> Tick.time, entry |-> Tick.price,
               stop |-> intents[n].stop, target |-> intents[n].target]

(* snapshot()["open_position"], with the geometry its line carries: the    *)
(* fill, if any, after which the first n lines close nothing.              *)
OpenFills(n) ==
  {i \in 1 .. n : /\ events[i].event = "BUY_FILLED"
                  /\ \A j \in i + 1 .. n : events[j].event = "REJECT"}

OpenInLedger_Never == None
OpenInLedger ==
  IF OpenFills(Len(events)) = {} THEN None
  ELSE LET e == events[CHOOSE i \in OpenFills(Len(events)) : TRUE]
           t == CHOOSE j \in DOMAIN ticks : ticks[j].time = e.time
       IN [intent |-> e.intent, time |-> e.time, entry |-> ticks[t].price,
           stop |-> intents[e.intent].stop, target |-> intents[e.intent].target]

(* submit_buy reads the ledger twice before it looks at the order: an open *)
(* position and an engaged switch each REJECT it.                          *)
LedgerAllows == OpenInLedger = None /\ switch # "on"

SubmitAllowed_AnyTarget(n) ==
  LedgerAllows /\ CheckBuy(risk, Tick.price, intents[n].stop)
SubmitAllowed(n) ==
  /\ LedgerAllows
  /\ Tick.price < intents[n].target
  /\ CheckBuy(risk, Tick.price, intents[n].stop)

(* _close: the line, the account and the position in one step.             *)
CloseAt(time, price, result) ==
  LET pnl == price - position.entry
  IN /\ events' = Append(events, Line("POSITION_CLOSED", time,
                                      position.intent, pnl, result))
     /\ risk' = RecordClose(risk, pnl)
     /\ position' = None

-----------------------------------------------------------------------------
(* One tick: the session boundary, the intents that arrive or expire ...   *)

Boundary ==
  /\ previous # None
  /\ SessionDate(ticks[previous].time) # SessionDate(Tick.time)

(* The first of s, from an index on, that is later than a time.            *)
FirstLater(s, from, time) ==
  Min({i \in from .. Len(s) : s[i].time > time} \cup {Len(s) + 1})

NextToArrive == FirstLater(intents, next, Tick.time)
Arrived      == next .. NextToArrive - 1

Expired_Late(n) == Tick.time > intents[n].expiry
Expired(n) == Tick.time >= intents[n].expiry

NextTick ==
  /\ pc = "tick" /\ at <= Len(ticks)
  /\ IF Boundary
       THEN /\ position' = None
            /\ risk' = ResetDay(IF position = None THEN risk ELSE
                 RecordClose(risk, ticks[previous].price - position.entry))
            /\ events' = IF position = None THEN events ELSE
                 Append(events,
                   Line("POSITION_CLOSED", ticks[previous].time, position.intent,
                        ticks[previous].price - position.entry, "SESSION_END"))
       ELSE UNCHANGED <<position, risk, events>>
  /\ pending' = {n \in (IF Boundary THEN {} ELSE pending) \cup Arrived : ~Expired(n)}
  /\ next' = NextToArrive
  /\ turn' = 1
  /\ pc' = IF position' = None THEN "intents" ELSE "process"
  /\ UNCHANGED <<inputs, at, previous, crashes, strayed, switch>>

(* ... the loop over the pending intents, in their order, which removes    *)
(* from the list it runs over: the intent after a removed one loses its    *)
(* turn at this tick                                                       *)

Reached(n) == Tick.time > intents[n].time /\ Tick.price >= intents[n].trigger

Turns == {n \in pending : n >= turn /\ Reached(n)}

NoMoreTurns ==
  /\ pc = "intents" /\ Turns = {}
  /\ pc' = "process"
  /\ UNCHANGED <<inputs, events, at, next, pending, turn, position, risk,
                 previous, crashes, strayed, switch>>

SubmitTurn ==
  /\ pc = "intents" /\ Turns # {}
  /\ LET n == Min(Turns)
     IN /\ pending' = pending \ {n}
        /\ turn' = Min({m \in pending : m > n} \cup {Len(intents)}) + 1
        /\ IF SubmitAllowed(n)
             THEN /\ Open(n) /\ risk' = CountTrade(risk)
                  /\ events' = Append(events,
                                  Line("BUY_FILLED", Tick.time, n, 0, None))
                  /\ pc' = "process"
             ELSE /\ events' = Append(events,
                                  Line("REJECT", Tick.time, n, 0, None))
                  /\ UNCHANGED <<position, risk, pc>>
  /\ UNCHANGED <<inputs, at, next, previous, crashes, strayed, switch>>

(* ... and process_tick.                                                   *)
Process ==
  /\ pc = "process"
  /\ LET live == position # None /\ Tick.time > position.time IN
       \/ /\ live /\ Tick.price <= position.stop
          /\ CloseAt(Tick.time, position.stop, "LOSS")
       \/ /\ live /\ Tick.price > position.stop /\ Tick.price >= position.target
          /\ CloseAt(Tick.time, position.target, "WIN")
       \/ /\ live => position.stop < Tick.price /\ Tick.price < position.target
          /\ UNCHANGED <<position, risk, events>>
  /\ pc' = "tick" /\ at' = at + 1 /\ previous' = at
  /\ UNCHANGED <<inputs, next, pending, turn, crashes, strayed, switch>>

Finish ==
  /\ pc = "tick" /\ at > Len(ticks)
  /\ pc' = "done"
  /\ IF position # None /\ previous # None
       THEN CloseAt(ticks[previous].time, ticks[previous].price, "SESSION_END")
       ELSE UNCHANGED <<events, risk, position>>
  /\ UNCHANGED <<inputs, at, next, pending, turn, previous, crashes, strayed,
                 switch>>

-----------------------------------------------------------------------------
(* A crash, and a run with --resume. *)

Crash ==
  /\ pc \in {"tick", "intents", "process"} /\ crashes < MaxCrashes
  /\ pc' = "off" /\ crashes' = crashes + 1
  /\ at' = 1 /\ next' = 1 /\ pending' = {} /\ turn' = 1
  /\ position' = None /\ previous' = None /\ risk' = NewRisk
  /\ UNCHANGED <<inputs, events, strayed, switch>>

Cutoff == IF events = <<>> THEN None ELSE Last(events).time

FromCutoff(s) == IF Cutoff = None THEN 1 ELSE FirstLater(s, 1, Cutoff)

FirstTick == FromCutoff(ticks)

(* The position's session must be that of the first tick of the stream.    *)
ResumeRefuses ==
  OpenInLedger # None
    /\ SessionDate(OpenInLedger.time) # SessionDate(ticks[1].time)

(* A resume that goes on where the run before it stopped: on the last date *)
(* of the ticks, within the session of an open position, with no intent    *)
(* still waiting.                                                          *)
CleanResume ==
  /\ FirstTick <= Len(ticks)
  /\ SessionDate(ticks[FirstTick].time) = SessionDate(Last(ticks).time)
  /\ OpenInLedger # None =>
       SessionDate(OpenInLedger.time) = SessionDate(ticks[FirstTick].time)
  /\ \A n \in DOMAIN intents :
       Cutoff # None /\ intents[n].time <= Cutoff /\ Cutoff < intents[n].expiry
         => \E i \in DOMAIN events : events[i].intent = n

(* recover_risk_state as of the last tick raises over a later line: once   *)
(* the operator has written one, no resume starts.                         *)
Resume ==
  /\ pc = "off" /\ ~ResumeRefuses /\ switch = "never"
  /\ RiskRecovers(events, Last(ticks).time)
  /\ pc' = "tick"
  /\ risk' = RecoverRisk(events, Last(ticks).time)
  /\ position' = OpenInLedger
  /\ at' = FirstTick
  /\ next' = FromCutoff(intents)
  /\ strayed' = (strayed \/ ~CleanResume)
  /\ UNCHANGED <<inputs, events, pending, turn, previous, crashes, switch>>

(* An operator engages or clears the kill switch of the ledger while the   *)
(* replay uses it.  The line is stamped now, after every recorded tick;    *)
(* no fold that the replay reads looks at it (safety.py:7-29).             *)
Operator ==
  /\ OperatorHalts
  /\ \/ switch # "on" /\ switch' = "on"
     \/ switch = "on" /\ switch' = "off"
  /\ UNCHANGED <<inputs, events, pc, at, next, pending, turn, position, risk,
                 previous, crashes, strayed>>

Next == NextTick \/ NoMoreTurns \/ SubmitTurn \/ Process \/ Finish
          \/ Crash \/ Resume \/ Operator

Spec == Init /\ [][Next]_vars
-----------------------------------------------------------------------------
(* Properties *)

(* Every variable has the value the code can give it.                      *)
TypeOK ==
  /\ pc \in {"tick", "intents", "process", "done", "off"}
  /\ at \in 1 .. Len(ticks) + 1 /\ next \in 1 .. Len(intents) + 1
  /\ pending \subseteq 1 .. next - 1
  /\ position # None => position.stop < position.entry
                          /\ position.entry < position.target
  /\ risk \in RiskStates
  /\ previous \in (1 .. Len(ticks)) \cup {None}
  /\ switch \in {"never", "on", "off"}

(* paper-trading.md: one simulated position at a time, and an intent is an *)
(* instruction for one fill: over any number of resumes, fills and closes  *)
(* alternate in the ledger, a close is of the fill before it, and no       *)
(* intent is submitted twice (replay.py:112-152).                          *)
FilledOnce ==
  /\ \A i \in DOMAIN events :
       /\ events[i].event = "BUY_FILLED" => OpenFills(i - 1) = {}
       /\ events[i].event = "POSITION_CLOSED" =>
            \E j \in OpenFills(i - 1) : events[j].intent = events[i].intent
  /\ \A i, j \in DOMAIN events :
       /\ events[i].event # "POSITION_CLOSED"
       /\ events[j].event # "POSITION_CLOSED"
       /\ events[i].intent = events[j].intent
       => i = j

(* The counters a resume would rebuild from the ledger are those the       *)
(* running process holds, once it has come to the last date of its ticks   *)
(* (safety.py:35-92 against risk.py:45-58).                                *)
RecoveredAgrees ==
  /\ pc \in {"tick", "process"} /\ ~strayed /\ previous # None
  /\ SessionDate(ticks[previous].time) = SessionDate(Last(ticks).time)
  => RecoverRisk(events, Last(ticks).time) = risk

(* What the documents say the trades are, with no loop and no state: an    *)
(* intent fills at the first tick of its date, strictly later than it and  *)
(* before its expiry, at or above its trigger, while flat ...              *)
OnDateOf(time) ==
  {j \in DOMAIN ticks : SessionDate(ticks[j].time) = SessionDate(time)}

Chances(n, trades) ==
  {j \in OnDateOf(intents[n].time) :
     /\ intents[n].time < ticks[j].time /\ ticks[j].time < intents[n].expiry
     /\ ticks[j].price >= intents[n].trigger
     /\ trades # <<>> => j > Last(trades).exit}

(* ... leaves at the first later tick of that date at its stop or target,  *)
(* or at the last tick of the date ...                                     *)
TradeAt(n, j) ==
  LET later == {k \in OnDateOf(ticks[j].time) : k >= j}
      hits  == {k \in later : k > j /\ (\/ ticks[k].price <= intents[n].stop
                                        \/ ticks[k].price >= intents[n].target)}
      exit  == IF hits = {} THEN Max(later) ELSE Min(hits)
      price == IF hits = {} THEN ticks[exit].price
               ELSE IF ticks[exit].price <= intents[n].stop
                    THEN intents[n].stop ELSE intents[n].target
  IN [intent |-> n, entry |-> j, exit |-> exit, pnl |-> price - ticks[j].price]

(* ... and the limits look at the trades before it.                        *)
PnlOf(trades, js) ==
  Total([i \in DOMAIN trades |-> IF trades[i].entry \in js THEN trades[i].pnl ELSE 0])

LimitsAllow(trades, j) ==
  LET today  == OnDateOf(ticks[j].time)
      losing == {i \in DOMAIN trades :
                   /\ trades[i].pnl < 0
                   /\ \A k \in i .. Len(trades) : trades[k].pnl <= 0}
  IN /\ Cardinality({i \in DOMAIN trades : trades[i].entry \in today}) < MaxTrades
     /\ MaxStreak # None => Cardinality(losing) < MaxStreak
     /\ LossDen * PnlOf(trades, today)
          > -(LossNum * (StartingEquity + PnlOf(trades, DOMAIN ticks \ today)))

Consider(n, trades) ==
  IF Chances(n, trades) = {} THEN trades
  ELSE LET j == Min(Chances(n, trades)) IN
       IF /\ intents[n].stop < ticks[j].price
          /\ ticks[j].price < intents[n].target
          /\ LimitsAllow(trades, j)
         THEN Append(trades, TradeAt(n, j)) ELSE trades

(* The trades of the first n intents, of all of them, and of the ledger.   *)
TradesAfter ==
  LET after[n \in 0 .. Len(intents)] ==
        IF n = 0 THEN <<>> ELSE Consider(n, after[n - 1])
  IN after

RefTrades == TradesAfter[Len(intents)]

TradeOfClose(i) ==
  LET fill      == events[CHOOSE j \in OpenFills(i - 1) : TRUE]
      TickOf(e) == CHOOSE j \in DOMAIN ticks : ticks[j].time = e.time
  IN [intent |-> events[i].intent, entry |-> TickOf(fill),
      exit |-> TickOf(events[i]), pnl |-> events[i].pnl]

TradesInLedger ==
  {TradeOfClose(i) : i \in {k \in DOMAIN events : events[k].event = "POSITION_CLOSED"}}

Disjoint ==
  \A n \in 1 .. Len(intents) - 1 : intents[n].expiry <= intents[n + 1].time

(* An intent that can fill on a later date has come up on its own.         *)
ComeUpInTime ==
  \A n \in DOMAIN intents :
    (\E j \in DOMAIN ticks :
        /\ intents[n].time < ticks[j].time /\ ticks[j].time < intents[n].expiry
        /\ j \notin OnDateOf(intents[n].time))
    => \E j \in OnDateOf(intents[n].time) : intents[n].time <= ticks[j].time

(* The ledger of a finished replay, with crashes and clean resumes on the  *)
(* way, holds exactly the trades the documents describe, for intents that  *)
(* do not wait at the same time and a kill switch nobody touched           *)
(* (replay.py:80-158, paper.py:69-138).                                    *)
TradesAsSpecified ==
  pc = "done" /\ ~strayed /\ switch = "never" /\ Disjoint /\ ComeUpInTime =>
    OpenInLedger = None /\ TradesInLedger = Range(RefTrades)

(* README.md:160: "Daily counters and session boundaries are calculated in *)
(* that IANA timezone, not from the raw UTC calendar date."  A resume      *)
(* recovers the counters in UTC (replay.py:98).                            *)
SessionLimit ==
  \A d \in {SessionDate(ticks[j].time) : j \in DOMAIN ticks} :
    Cardinality({i \in DOMAIN events : events[i].event = "BUY_FILLED"
                                   /\ SessionDate(events[i].time) = d})
      <= MaxTrades

(* paper-trading.md:20: "pending intents do not cross the session          *)
(* boundary".  One whose time lies between the last tick of its date and   *)
(* the first of the next becomes pending just after the boundary has       *)
(* cleared the others (replay.py:132-136).  Not checked by a run.          *)
IntentsStayInSession ==
  \A i \in DOMAIN events : events[i].event = "BUY_FILLED" =>
    SessionDate(events[i].time) = SessionDate(intents[events[i].intent].time)

(* paper-trading.md:20: "An open position is liquidated at the last tick   *)
(* of the previous session date".  A resumed process does not know the     *)
(* previous date (replay.py:121-131).  Not checked by a run.               *)
ClosedInItsSession ==
  position # None /\ pc = "process" =>
    SessionDate(position.time) = SessionDate(Tick.time)
=============================================================================
