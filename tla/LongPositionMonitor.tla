------------------------ MODULE LongPositionMonitor ------------------------
(***************************************************************************)
(* LongPositionMonitor (position.py): one broker-confirmed long, closed on *)
(* its stop, its target or the end of the session, with a durable close    *)
(* intent before the broker is called.                                     *)
(***************************************************************************)
EXTENDS LiveProcess

VARIABLES
  monitor,     \* "off", "watching", or one of its flags: "halted", "closed"
  monitored,   \* order_id of position_snapshot
  exit         \* result of the close that on_price is sending

monitorVars == <<monitor, monitored, exit>>

MonitorTypeOK ==
  /\ monitor \in {"off", "watching", "halted", "closed"}
  /\ monitored \in Setups \cup {None}
  /\ exit \in Results \cup {None}

NoMonitor     == monitor = "off" /\ monitored = None /\ exit = None
ForgetMonitor == monitor' = "off" /\ monitored' = None /\ exit' = None

(* __init__ and reconcile of a monitor for the ledger's open position.     *)
NewMonitor ==
  /\ monitor' = IF Reconciles(ledger.position) THEN "watching" ELSE "halted"
  /\ monitored' = ledger.position /\ exit' = None

CloseId(result) == <<monitored, result>>

RecordClose(c) ==
  /\ monitor' = "closed"
  /\ ledger' = PositionClosed(ledger, c, sold[c])

RecoverPendingClose ==
  /\ pc = "recoverClose" /\ pc' = "idle"
  /\ LET c == ledger.pendingClose IN
       \/ /\ c = None
          /\ UNCHANGED <<monitor, ledger>>
       \/ /\ c # None /\ c \notin {CloseId(r) : r \in Results}
          /\ monitor' = "halted" /\ UNCHANGED ledger
       \/ /\ c \in {CloseId(r) : r \in Results} /\ sold[c] = None
          /\ UNCHANGED <<monitor, ledger>>
       \/ /\ c \in {CloseId(r) : r \in Results} /\ sold[c] # None
          /\ RecordClose(c)
  /\ UNCHANGED <<now, monitored, exit>> /\ UNCHANGED portVars

-----------------------------------------------------------------------------
(* on_price *)

PriceZones == {"stop", "between", "target"}

ExitResult_SessionClose(zone, sessionEnd) ==
  CASE zone = "stop"   -> "LOSS"
    [] zone = "target" -> "WIN"
    [] OTHER           -> IF sessionEnd THEN "SESSION_CLOSE" ELSE None

ExitResult(zone, sessionEnd) ==
  CASE zone = "stop"   -> "LOSS"
    [] zone = "target" -> "WIN"
    [] OTHER           -> IF sessionEnd THEN "SESSION_END" ELSE None

(* A close that is already pending with another result stops the monitor.  *)
OtherClosePending_Never(c) == FALSE
OtherClosePending(c) == ledger.pendingClose \notin {None, c}
CloseFound(c)        == ledger.pendingClose = c /\ sold[c] # None

Price(zone, sessionEnd) ==
  /\ pc = "idle" /\ monitor = "watching"
  /\ LET r == ExitResult(zone, sessionEnd)
         c == CloseId(r)
     IN /\ r # None
        /\ \/ /\ OtherClosePending(c)
              /\ monitor' = "halted" /\ UNCHANGED <<pc, exit, ledger>>
           \/ /\ CloseFound(c)
              /\ RecordClose(c) /\ UNCHANGED <<pc, exit>>
           \/ /\ ~OtherClosePending(c) /\ ~CloseFound(c)
              /\ ledger' = CloseIntent(ledger, c, now)
              /\ exit' = r /\ pc' = "close" /\ UNCHANGED monitor
  /\ UNCHANGED <<now, monitored>> /\ UNCHANGED portVars

SendClose ==
  /\ pc = "close" /\ pc' = "recordClose"
  /\ CloseLong(CloseId(exit), now)
  /\ UNCHANGED <<now, ledger>> /\ UNCHANGED monitorVars

(* close_long raises: there is nothing to sell, or the call fails, before  *)
(* or after the broker accepted the order.                                 *)
SendCloseRaises(PortRaises) ==
  /\ pc = "close" /\ pc' = "idle" /\ exit' = None
  /\ \/ /\ PortRaises \/ ~CanClose(CloseId(exit))
        /\ UNCHANGED portVars
     \/ /\ PortRaises
        /\ CloseLong(CloseId(exit), now)
  /\ UNCHANGED <<now, ledger, monitor, monitored>>

RecordSentClose ==
  /\ pc = "recordClose" /\ pc' = "idle" /\ exit' = None
  /\ RecordClose(CloseId(exit))
  /\ UNCHANGED <<now, monitored>> /\ UNCHANGED portVars
=============================================================================
