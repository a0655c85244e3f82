---------------------------- MODULE LiveProcess ----------------------------
(***************************************************************************)
(* What the two handlers of the live runtime share: the wall clock, the    *)
(* durable ledger, and the control state of the single process that runs   *)
(* them.  A handler is one step, except where it calls the broker or       *)
(* appends twice: there another actor can act, and the process can die,    *)
(* between the steps.                                                      *)
(***************************************************************************)
EXTENDS ExecutionPort

VARIABLES now, pc, ledger

Controls ==
  {"down",                                               \* no process
   "reconcile", "recoverBuy", "monitor", "recoverClose", \* inside start()
   "idle",
   "submit", "accept",                                   \* inside on_tick
   "close", "recordClose"}                               \* inside on_price

ProcessTypeOK ==
  /\ now \in Times
  /\ pc \in Controls
  /\ ledger \in Ledgers(Setups, Times)

ProcessInit == now = 0 /\ pc = "down" /\ ledger = EmptyLedger
=============================================================================
