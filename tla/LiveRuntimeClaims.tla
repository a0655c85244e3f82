------------------------- MODULE LiveRuntimeClaims -------------------------
(***************************************************************************)
(* Statements the repository's documents and comments make about the live  *)
(* runtime that its code does not keep.  TLC finds a behaviour that breaks *)
(* each of them; the README tells it in words and says which constants     *)
(* show it.                                                                *)
(***************************************************************************)
EXTENDS LiveRuntime

(* docs/live-runtime.md:45, "Once a BUY is confirmed, the runtime does not *)
(* generate another strategy entry": no BUY is submitted while the ledger  *)
(* holds an open position (live.py:122, receipt is None after a restart).  *)
NoEntryWhileLong == pc = "submit" => ledger.position = None

(* docs/live-runtime.md:14, "Recover a pending BUY by its stable client    *)
(* order ID": startup does not stop before recovering a pending BUY the    *)
(* broker has accepted (runtime.py:67-73).                                 *)
StartupRecoversBuy ==
  [][pc = "reconcile" /\ pc' = "idle" =>
       ledger.pendingBuy = None \/ accepted[ledger.pendingBuy] = None]_vars

(* docs/live-runtime.md:16, "Recover a pending long-close by its stable    *)
(* client order ID": startup does not stop before recovering a pending     *)
(* close the broker has accepted (runtime.py:67-71, 87-95).                *)
StartupRecoversClose ==
  [][pc = "reconcile" /\ pc' = "idle" =>
       ledger.pendingClose = None \/ sold[ledger.pendingClose] = None]_vars

(* docs/live-runtime.md:11, "Recover risk state from the durable event     *)
(* history": the history the runtime writes is one it can start from       *)
(* (safety.py:46, 59-60).                                                  *)
LedgerStaysRecoverable == RiskRecoverable(ledger)

(* docs/paper-trading.md:28, "a restart on a new trading day does not      *)
(* inherit the previous day's daily counters" (runtime.py:47-51).          *)
RestartCountsItsOwnDay ==
  [][pc = "down" /\ pc' = "reconcile" =>
       trades' = Cardinality({f \in ledger.fills : DayOf[f.time] = DayOf[now]})]_vars

(* live.py:65, "Fail closed unless ledger and broker agree on the open     *)
(* long": when they agree startup goes on (groww.py:255-262).              *)
AgreementPasses ==
  [][pc = "reconcile" /\ open = {ledger.position} => pc' # "idle"]_vars
=============================================================================
