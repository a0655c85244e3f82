-------------------------------- MODULE Risk --------------------------------
(***************************************************************************)
(* RiskState and BuyRiskGuard (risk.py).  A BUY is one unit: sizing is not *)
(* modelled, so a loss is what one unit loses.                             *)
(***************************************************************************)
EXTENDS Integers

CONSTANTS
  None,
  StartingEquity,
  MaxTrades,         \* RiskLimits.max_trades_per_day
  MaxStreak,         \* RiskLimits.max_consecutive_losses, or None
  LossNum, LossDen   \* max_daily_loss_fraction = LossNum / LossDen

ASSUME RiskAssumption ==
  /\ StartingEquity \in Nat \ {0}
  /\ MaxTrades \in Nat \ {0}
  /\ MaxStreak \in (Nat \ {0}) \cup {None}
  /\ LossNum \in Nat /\ LossDen \in Nat \ {0}
  /\ None \notin Int

RiskStates ==
  [equity : Int, trades : Nat, daily : Int, streak : Nat, dayStart : Int]

NewRisk ==
  [equity |-> StartingEquity, trades |-> 0, daily |-> 0, streak |-> 0,
   dayStart |-> StartingEquity]

ResetDay_ClearsStreak(r) ==
  [r EXCEPT !.trades = 0, !.daily = 0, !.dayStart = r.equity, !.streak = 0]
ResetDay_KeepsLosses(r) == [r EXCEPT !.trades = 0, !.dayStart = r.equity]
ResetDay(r) == [r EXCEPT !.trades = 0, !.daily = 0, !.dayStart = r.equity]

Streak(n, pnl) == IF pnl < 0 THEN n + 1 ELSE IF pnl > 0 THEN 0 ELSE n

RecordClose(r, pnl) ==
  [r EXCEPT !.equity = @ + pnl, !.daily = @ + pnl, !.streak = Streak(@, pnl)]

CountTrade(r) == [r EXCEPT !.trades = @ + 1]

(* check_buy, less its tests of spread, slippage and risk fraction.        *)
CheckBuy(r, entry, stop) ==
  /\ stop < entry
  /\ r.trades < MaxTrades
  /\ MaxStreak # None => r.streak < MaxStreak
  /\ LossDen * r.daily > -(LossNum * r.dayStart)
=============================================================================
