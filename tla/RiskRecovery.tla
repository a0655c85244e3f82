---------------------------- MODULE RiskRecovery ----------------------------
(***************************************************************************)
(* recover_risk_state (safety.py): a fold over the lines of the ledger.    *)
(* Trades are dated in the zone it is given, losses by the offset of their *)
(* stamps.                                                                 *)
(***************************************************************************)
EXTENDS Risk, Sequences

CONSTANTS
  DateOf(_),   \* date of an instant in the zone recovery is given
  StampDate(_) \* its date as the offset of the timestamp writes it

Begun(f) == IF f.begun THEN f ELSE [f EXCEPT !.begun = TRUE,
                                             !.dayStart = f.equity]

RecoverBuy(f, e, asOf) ==
  IF DateOf(e.time) = DateOf(asOf)
    THEN [Begun(f) EXCEPT !.trades = @ + 1] ELSE f

RecoverClose(f, e, asOf) ==
  LET g == IF StampDate(e.time) = StampDate(asOf)
             THEN [Begun(f) EXCEPT !.daily = @ + e.pnl] ELSE f
      h == [g EXCEPT !.equity = @ + e.pnl, !.streak = Streak(@, e.pnl)]
  IN IF DateOf(e.time) # DateOf(asOf) THEN [h EXCEPT !.dayStart = h.equity]
                                      ELSE h

RecoverLine(f, e, asOf) ==
  CASE e.event = "BUY_FILLED"      -> RecoverBuy(f, e, asOf)
    [] e.event = "POSITION_CLOSED" -> RecoverClose(f, e, asOf)
    [] OTHER                       -> f

RecoverStart ==
  [equity |-> StartingEquity, trades |-> 0, daily |-> 0, streak |-> 0,
   dayStart |-> StartingEquity, begun |-> FALSE]

RecoverLines(events, asOf) ==
  LET fold[i \in 0 .. Len(events)] ==
        IF i = 0 THEN RecoverStart
                 ELSE RecoverLine(fold[i - 1], events[i], asOf)
  IN fold[Len(events)]

RecoverRisk(events, asOf) ==
  LET f == RecoverLines(events, asOf)
  IN [equity |-> f.equity, trades |-> f.trades, daily |-> f.daily,
      streak |-> f.streak, dayStart |-> Begun(f).dayStart]

(* It refuses a ledger with a line stamped later than asOf.                *)
RiskRecovers(events, asOf) == \A i \in DOMAIN events : events[i].time <= asOf
=============================================================================
