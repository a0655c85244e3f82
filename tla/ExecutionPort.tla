--------------------------- MODULE ExecutionPort ---------------------------
(***************************************************************************)
(* The broker behind BuyExecutionPort (ports.py), as its contract states   *)
(* it: orders are idempotent by client id, an accepted order is found      *)
(* again by its id, fills and sales happen some time after acceptance.     *)
(***************************************************************************)
EXTENDS Naturals, FiniteSets, Ledger

CONSTANTS
  CandleEnds,      \* ends of the M1 candles that can be signal candles
  MaxTime,         \* the horizon: no behaviour runs past it
  ReportsLevels    \* position() reports stop and target (groww.py does not)

Times    == 0 .. MaxTime
Setups   == CandleEnds
CloseIds == Setups \X Results

ASSUME PortAssumption ==
  /\ CandleEnds \subseteq Times
  /\ MaxTime \in Nat
  /\ None \notin Nat /\ None \notin CloseIds
  /\ ReportsLevels \in BOOLEAN
  /\ DayOf \in [Times -> Nat]
  /\ \A t, u \in Times : t <= u => DayOf[t] <= DayOf[u]

VARIABLES
  accepted,    \* time at which the broker accepted each BUY, or None
  open,        \* BUY orders whose long the account now holds
  filled,      \* BUY orders that have been filled at some time
  sold,        \* time at which each close order was accepted, or None
  selling      \* longs that an accepted close is about to sell

portVars == <<accepted, open, filled, sold, selling>>

PortTypeOK ==
  /\ accepted \in [Setups -> Times \cup {None}]
  /\ filled \subseteq Setups /\ open \subseteq filled /\ selling \subseteq open
  /\ sold \in [CloseIds -> Times \cup {None}]

PortInit ==
  /\ accepted = [s \in Setups |-> None]
  /\ filled = {} /\ open = {} /\ selling = {}
  /\ sold = [c \in CloseIds |-> None]

(* submit_buy: a known client id changes nothing.                          *)
SubmitBuy(s, t) ==
  /\ accepted' = IF accepted[s] = None THEN [accepted EXCEPT ![s] = t]
                                       ELSE accepted
  /\ UNCHANGED <<filled, open, sold, selling>>

(* close_long: a known client id changes nothing; without a long to sell   *)
(* the broker refuses.                                                     *)
CanClose(c) == sold[c] # None \/ open # {}

CloseLong(c, t) ==
  /\ CanClose(c)
  /\ sold' = IF sold[c] = None THEN [sold EXCEPT ![c] = t] ELSE sold
  /\ selling' = IF sold[c] = None THEN open ELSE selling
  /\ UNCHANGED <<accepted, filled, open>>

FillBuy(s) ==
  /\ accepted[s] # None /\ s \notin filled
  /\ filled' = filled \cup {s} /\ open' = open \cup {s}
  /\ UNCHANGED <<accepted, sold, selling>>

ExecuteClose ==
  /\ selling # {}
  /\ open' = open \ selling /\ selling' = {}
  /\ UNCHANGED <<accepted, filled, sold>>

(* The stop or target the account keeps at the broker fires.               *)
BrokerExit ==
  /\ open # {}
  /\ open' = {} /\ selling' = {}
  /\ UNCHANGED <<accepted, filled, sold>>

(* reconcile_long_position against position(): the account reports one net *)
(* long, so two open BUYs never match a ledger position.                   *)
Reconciles(position) ==
  \/ position = None /\ open = {}
  \/ open = {position} /\ ReportsLevels
=============================================================================
