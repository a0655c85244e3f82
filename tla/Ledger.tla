------------------------------- MODULE Ledger -------------------------------
(***************************************************************************)
(* The append-only event ledger (ledger.py), reduced to the facts that     *)
(* snapshot() and recover_risk_state() fold out of it.  Every operator     *)
(* below is one append followed by that fold, so a ledger value is always  *)
(* what a reader of the file would recover.  An append is one flushed and  *)
(* fsynced line: it is durable as a whole or not at all (LedgerFile        *)
(* examines that claim and checks that this incremental form agrees with   *)
(* the fold over the events of the file).                                  *)
(*                                                                         *)
(* A setup is named by the end of its signal candle, which is also the     *)
(* time of its BUY order: client_order_id is a hash of the signal candle.  *)
(* A close is the pair <<setup of the position, exit result>> that         *)
(* _close_client_order_id hashes.                                          *)
(***************************************************************************)
EXTENDS Naturals, FiniteSets

CONSTANTS
  None,      \* Python's None
  DayOf      \* the trading date of every timestamp

Results == {"LOSS", "WIN", "SESSION_END"}

EmptyLedger ==
  [position |-> None, pendingBuy |-> None, pendingClose |-> None,
   halted |-> FALSE, intents |-> {}, fills |-> {}, closed |-> {},
   last |-> 0, latest |-> 0]

Ledgers(Setups, Times) ==
  [position     : Setups \cup {None},
   pendingBuy   : Setups \cup {None},
   pendingClose : (Setups \X Results) \cup {None},
   halted       : BOOLEAN,
   intents      : SUBSET Setups,
   fills        : SUBSET [buy : Setups, time : Times],
   closed       : SUBSET (Setups \X Results),
   last         : Times,
   latest       : Times]

(* The timestamp of the last line, and the largest timestamp of any line.  *)
Stamp(l, t) == [l EXCEPT !.last = t, !.latest = IF t > @ THEN t ELSE @]

BuyIntent(l, s, t) ==
  [Stamp(l, t) EXCEPT !.pendingBuy = s, !.intents = @ \cup {s}]

BuyFilled_KeepsPending(l, s, t) ==
  [Stamp(l, t) EXCEPT !.position = s,
                      !.fills = @ \cup {[buy |-> s, time |-> t]}]
BuyFilled(l, s, t) ==
  [Stamp(l, t) EXCEPT !.pendingBuy = None, !.position = s,
                      !.fills = @ \cup {[buy |-> s, time |-> t]}]

(* BUY_EXPIRED and BUY_CANCELLED.                                          *)
BuyDropped(l, t) == [Stamp(l, t) EXCEPT !.pendingBuy = None]

CloseIntent_Lost(l, c, t) == Stamp(l, t)
CloseIntent(l, c, t) == [Stamp(l, t) EXCEPT !.pendingClose = c]

PositionClosed(l, c, t) ==
  [Stamp(l, t) EXCEPT !.pendingClose = None, !.position = None,
                      !.closed = @ \cup {c}]

SessionEnd_KeepsClose(l, t) == [Stamp(l, t) EXCEPT !.position = None]
SessionEnd(l, t) ==
  [Stamp(l, t) EXCEPT !.pendingClose = None, !.position = None]

KillSwitchOn(l, t)  == [Stamp(l, t) EXCEPT !.halted = TRUE]
KillSwitchOff(l, t) == [Stamp(l, t) EXCEPT !.halted = FALSE]

Filled(l) == {f.buy : f \in l.fills}

(* recover_risk_state without as_of takes the time of the last line as     *)
(* "now": any earlier line with a later stamp is a "future event".         *)
RiskRecoverable(l) == l.latest <= l.last

TradesToday_Fresh(l) == 0
TradesToday(l) == Cardinality({f \in l.fills : DayOf[f.time] = DayOf[l.last]})
=============================================================================
