------------------------ MODULE LiveRuntime_proofs ------------------------
(***************************************************************************)
(* Proofs about LiveRuntime for every value of its constants: type         *)
(* correctness, the inductive invariants, and the durability of accepted   *)
(* BUYs across crashes.                                                    *)
(***************************************************************************)
EXTENDS LiveRuntime, FiniteSetTheorems, TLAPS

-----------------------------------------------------------------------------
(* What an append does to the facts recovered from the ledger: it yields a *)
(* ledger again, and it leaves alone every fact its event is not about.    *)

LiveLedgers == Ledgers(Setups, Times)

(* Timestamps are numbers.                                                 *)
LEMMA TimesAreNat == Times \subseteq Nat
  BY PortAssumption DEF Times

(* Stamping a line changes only the two timestamps.                        *)
LEMMA StampLedger ==
  ASSUME NEW l \in LiveLedgers, NEW t \in Times
  PROVE  /\ Stamp(l, t) \in LiveLedgers
         /\ Stamp(l, t).position = l.position
         /\ Stamp(l, t).pendingBuy = l.pendingBuy
         /\ Stamp(l, t).pendingClose = l.pendingClose
         /\ Stamp(l, t).halted = l.halted
         /\ Stamp(l, t).intents = l.intents
         /\ Stamp(l, t).fills = l.fills
         /\ Stamp(l, t).closed = l.closed
  BY TimesAreNat DEF Stamp, LiveLedgers, Ledgers

(* BUY_INTENT (ledger.py:64-65).                                           *)
LEMMA BuyIntentLedger ==
  ASSUME NEW l \in LiveLedgers, NEW s \in Setups, NEW t \in Times
  PROVE  /\ BuyIntent(l, s, t) \in LiveLedgers
         /\ BuyIntent(l, s, t).pendingBuy = s
         /\ BuyIntent(l, s, t).intents = l.intents \cup {s}
         /\ BuyIntent(l, s, t).position = l.position
         /\ BuyIntent(l, s, t).fills = l.fills
         /\ BuyIntent(l, s, t).pendingClose = l.pendingClose
         /\ BuyIntent(l, s, t).closed = l.closed
  BY TimesAreNat DEF BuyIntent, Stamp, LiveLedgers, Ledgers

(* BUY_FILLED (ledger.py:66-68).                                           *)
LEMMA BuyFilledLedger ==
  ASSUME NEW l \in LiveLedgers, NEW s \in Setups, NEW t \in Times
  PROVE  /\ BuyFilled(l, s, t) \in LiveLedgers
         /\ BuyFilled(l, s, t).pendingBuy = None
         /\ BuyFilled(l, s, t).position = s
         /\ BuyFilled(l, s, t).intents = l.intents
         /\ BuyFilled(l, s, t).fills = l.fills \cup {[buy |-> s, time |-> t]}
         /\ BuyFilled(l, s, t).pendingClose = l.pendingClose
         /\ BuyFilled(l, s, t).closed = l.closed
         /\ Filled(BuyFilled(l, s, t)) = Filled(l) \cup {s}
  <1> DEFINE fill == [buy |-> s, time |-> t]
  <1>1. fill \in [buy : Setups, time : Times] /\ fill.buy = s
    OBVIOUS
  <1>2. BuyFilled(l, s, t) =
          [Stamp(l, t) EXCEPT !.pendingBuy = None, !.position = s,
                              !.fills = @ \cup {fill}]
    BY TimesAreNat DEF BuyFilled
  <1> HIDE DEF fill
  <1>3. /\ BuyFilled(l, s, t) \in LiveLedgers
        /\ BuyFilled(l, s, t).fills = l.fills \cup {fill}
    <2>1. PICK m : m = Stamp(l, t)
      OBVIOUS
    <2>2. m.fills = l.fills /\ m \in LiveLedgers
      BY <2>1, StampLedger
    <2>3. l.fills \cup {fill} \in SUBSET [buy : Setups, time : Times]
      BY <1>1 DEF LiveLedgers, Ledgers
    <2>4. PICK fs : fs = l.fills \cup {fill}
      OBVIOUS
    <2>5. BuyFilled(l, s, t) =
            [m EXCEPT !.pendingBuy = None, !.position = s, !.fills = fs]
      BY <1>2, <2>1, <2>2, <2>4
    <2>6. fs \in SUBSET [buy : Setups, time : Times]
      BY <2>3, <2>4
    <2>7. /\ [m EXCEPT !.pendingBuy = None, !.position = s, !.fills = fs]
               \in LiveLedgers
          /\ [m EXCEPT !.pendingBuy = None, !.position = s,
                       !.fills = fs].fills = fs
      BY <2>2, <2>6 DEF LiveLedgers, Ledgers
    <2> QED
      BY <2>4, <2>5, <2>7
  <1>4. /\ BuyFilled(l, s, t).pendingBuy = None
        /\ BuyFilled(l, s, t).position = s
        /\ BuyFilled(l, s, t).intents = l.intents
        /\ BuyFilled(l, s, t).pendingClose = l.pendingClose
        /\ BuyFilled(l, s, t).closed = l.closed
    BY <1>2 DEF Stamp, LiveLedgers, Ledgers
  <1>5. Filled(BuyFilled(l, s, t)) = Filled(l) \cup {s}
    BY <1>1, <1>3 DEF Filled
  <1> QED
    BY <1>3, <1>4, <1>5 DEF fill

(* BUY_EXPIRED and BUY_CANCELLED (ledger.py:69-70).                        *)
LEMMA BuyDroppedLedger ==
  ASSUME NEW l \in LiveLedgers, NEW t \in Times
  PROVE  /\ BuyDropped(l, t) \in LiveLedgers
         /\ BuyDropped(l, t).pendingBuy = None
         /\ BuyDropped(l, t).position = l.position
         /\ BuyDropped(l, t).intents = l.intents
         /\ BuyDropped(l, t).fills = l.fills
         /\ BuyDropped(l, t).pendingClose = l.pendingClose
         /\ BuyDropped(l, t).closed = l.closed
  BY TimesAreNat DEF BuyDropped, Stamp, LiveLedgers, Ledgers

(* LONG_CLOSE_INTENT (ledger.py:74-75).                                    *)
LEMMA CloseIntentLedger ==
  ASSUME NEW l \in LiveLedgers, NEW c \in Setups \X Results,
         NEW t \in Times
  PROVE  /\ CloseIntent(l, c, t) \in LiveLedgers
         /\ CloseIntent(l, c, t).pendingClose = c
         /\ CloseIntent(l, c, t).pendingBuy = l.pendingBuy
         /\ CloseIntent(l, c, t).position = l.position
         /\ CloseIntent(l, c, t).intents = l.intents
         /\ CloseIntent(l, c, t).fills = l.fills
         /\ CloseIntent(l, c, t).closed = l.closed
  BY TimesAreNat DEF CloseIntent, Stamp, LiveLedgers, Ledgers

(* POSITION_CLOSED (ledger.py:76-78).                                      *)
LEMMA PositionClosedLedger ==
  ASSUME NEW l \in LiveLedgers, NEW c \in Setups \X Results,
         NEW t \in Times
  PROVE  /\ PositionClosed(l, c, t) \in LiveLedgers
         /\ PositionClosed(l, c, t).position = None
         /\ PositionClosed(l, c, t).pendingClose = None
         /\ PositionClosed(l, c, t).closed = l.closed \cup {c}
         /\ PositionClosed(l, c, t).pendingBuy = l.pendingBuy
         /\ PositionClosed(l, c, t).intents = l.intents
         /\ PositionClosed(l, c, t).fills = l.fills
  BY TimesAreNat DEF PositionClosed, Stamp, LiveLedgers, Ledgers

(* KILL_SWITCH_ON and KILL_SWITCH_OFF (ledger.py:79-82).                   *)
LEMMA KillSwitchLedger ==
  ASSUME NEW l \in LiveLedgers, NEW t \in Times,
         NEW k, k = KillSwitchOn(l, t) \/ k = KillSwitchOff(l, t)
  PROVE  /\ k \in LiveLedgers
         /\ k.pendingBuy = l.pendingBuy
         /\ k.position = l.position
         /\ k.intents = l.intents
         /\ k.fills = l.fills
         /\ k.pendingClose = l.pendingClose
         /\ k.closed = l.closed
  <1>1. PICK m : m = Stamp(l, t)
    OBVIOUS
  <1>2. /\ m \in LiveLedgers /\ m.pendingBuy = l.pendingBuy
        /\ m.position = l.position /\ m.intents = l.intents
        /\ m.fills = l.fills /\ m.pendingClose = l.pendingClose
        /\ m.closed = l.closed
    BY <1>1, TimesAreNat DEF Stamp, LiveLedgers, Ledgers
  <1>3. PICK b \in BOOLEAN : k = [m EXCEPT !.halted = b]
    BY <1>1 DEF KillSwitchOn, KillSwitchOff
  <1> QED
    BY <1>2, <1>3 DEF LiveLedgers, Ledgers

(* The number of today's fills is a number, and of no fills it is zero.    *)
LEMMA TradesTodayType ==
  ASSUME NEW l, IsFiniteSet(l.fills)
  PROVE  TradesToday(l) \in Nat
  <1>1. IsFiniteSet({f \in l.fills : DayOf[f.time] = DayOf[l.last]})
    BY FS_Subset
  <1> QED
    BY <1>1, FS_CardinalityType DEF TradesToday

-----------------------------------------------------------------------------
(* Type correctness *)

TypeInv == TypeOK /\ LocalsInv

(* The process that was never started satisfies the type invariant.        *)
LEMMA TypeInit == Init => TypeInv
  <1> SUFFICES ASSUME Init PROVE TypeInv
    OBVIOUS
  <1> USE DEF Init, ProcessInit, PortInit, NoCoordinator, NoMonitor
  <1>1. 0 \in Times
    BY PortAssumption DEF Times
  <1>2. EmptyLedger \in LiveLedgers /\ IsFiniteSet(EmptyLedger.fills)
    BY <1>1, FS_EmptySet DEF EmptyLedger, LiveLedgers, Ledgers
  <1>3. ProcessTypeOK
    BY <1>1, <1>2 DEF ProcessTypeOK, Controls, LiveLedgers
  <1>4. PortTypeOK
    BY DEF PortTypeOK
  <1>5. CoordinatorTypeOK
    BY <1>1 DEF CoordinatorTypeOK, EngineStates
  <1>6. MonitorTypeOK
    BY DEF MonitorTypeOK
  <1>7. crashes \in 0 .. MaxCrashes
    BY RuntimeAssumption
  <1>8. LocalsInv
    BY <1>2 DEF LocalsInv
  <1> QED
    BY <1>3, <1>4, <1>5, <1>6, <1>7, <1>8 DEF TypeInv, TypeOK

(* The step that commits a receipt, in recovery or after a submission.     *)
LEMMA AcceptReceiptType ==
  ASSUME TypeInv, NEW s \in Setups, accepted[s] # None, AcceptReceipt(s)
  PROVE  /\ ledger' = BuyFilled(ledger, s, accepted[s])
         /\ accepted[s] \in Times
         /\ ledger' \in LiveLedgers /\ IsFiniteSet(ledger'.fills)
         /\ ledger'.position = s /\ ledger'.pendingBuy = None
         /\ ledger'.intents = ledger.intents
         /\ ledger'.pendingClose = ledger.pendingClose
         /\ ledger'.closed = ledger.closed
         /\ Filled(ledger') = Filled(ledger) \cup {s}
         /\ receipt' = s /\ armed' = None /\ trades' = trades + 1
         /\ engine' = "POSITION_OPEN"
  <1>1. accepted[s] \in Times /\ ledger \in LiveLedgers
    BY DEF TypeInv, TypeOK, PortTypeOK, ProcessTypeOK, LiveLedgers
  <1>2. ledger' = BuyFilled(ledger, s, accepted[s])
    BY DEF AcceptReceipt
  <1>3. ledger'.fills = ledger.fills \cup {[buy |-> s, time |-> accepted[s]]}
    BY <1>1, <1>2, BuyFilledLedger
  <1>4. IsFiniteSet(ledger'.fills)
    BY <1>3, FS_AddElement DEF TypeInv, LocalsInv
  <1> QED
    BY <1>1, <1>2, <1>4, BuyFilledLedger DEF AcceptReceipt

(* The step that records a close the broker acknowledged.                  *)
LEMMA RecordCloseType ==
  ASSUME TypeInv, NEW c \in CloseIds, sold[c] # None, RecordClose(c)
  PROVE  /\ ledger' \in LiveLedgers /\ ledger'.fills = ledger.fills
         /\ ledger'.position = None /\ ledger'.pendingClose = None
         /\ ledger'.closed = ledger.closed \cup {c}
         /\ ledger'.pendingBuy = ledger.pendingBuy
         /\ ledger'.intents = ledger.intents
         /\ monitor' = "closed"
  <1>1. sold[c] \in Times /\ ledger \in LiveLedgers /\ c \in Setups \X Results
    BY DEF TypeInv, TypeOK, PortTypeOK, ProcessTypeOK, LiveLedgers, CloseIds
  <1> QED
    BY <1>1, PositionClosedLedger DEF RecordClose

-----------------------------------------------------------------------------
(* One lemma per group of actions: the step keeps the types and the        *)
(* locals.                                                                 *)

(* What an action leaves alone keeps its type.                             *)
LEMMA Frames ==
  /\ PortTypeOK /\ UNCHANGED portVars => PortTypeOK'
  /\ CoordinatorTypeOK /\ UNCHANGED coordVars => CoordinatorTypeOK'
  /\ MonitorTypeOK /\ UNCHANGED monitorVars => MonitorTypeOK'
  BY DEF PortTypeOK, portVars, CoordinatorTypeOK, coordVars,
         MonitorTypeOK, monitorVars

(* Starting, attaching a monitor, dying and waiting keep the types         *)
(* (runtime.py:28-102).                                                    *)
LEMMA TypeRuntime ==
  ASSUME TypeInv, Start \/ StartMonitor \/ AttachMonitor \/ Crash \/ Advance
  PROVE  TypeInv'
  <1> USE DEF TypeInv, TypeOK
  <1>1. CASE Start
    <2>1. TradesToday(ledger) \in Nat
      BY TradesTodayType DEF LocalsInv
    <2>2. CoordinatorTypeOK'
      BY <1>1, <2>1 DEF Start, NewCoordinator, CoordinatorTypeOK,
         EngineStates, ProcessTypeOK, Ledgers
    <2>3. ProcessTypeOK' /\ crashes' \in 0 .. MaxCrashes
      BY <1>1 DEF Start, ProcessTypeOK, Controls
    <2>4. LocalsInv'
      BY <1>1 DEF Start, LocalsInv, monitorVars
    <2> QED
      BY <1>1, <2>2, <2>3, <2>4, Frames DEF Start
  <1>2. CASE StartMonitor
    <2>1. CoordinatorTypeOK'
      BY <1>2 DEF StartMonitor, CoordinatorTypeOK
    <2>2. ProcessTypeOK' /\ crashes' \in 0 .. MaxCrashes
      BY <1>2 DEF StartMonitor, ProcessTypeOK, Controls
    <2>3. MonitorTypeOK'
      BY <1>2 DEF StartMonitor, NewMonitor, MonitorTypeOK, ProcessTypeOK, Ledgers
    <2>4. LocalsInv'
      BY <1>2 DEF StartMonitor, NewMonitor, LocalsInv
    <2> QED
      BY <1>2, <2>1, <2>2, <2>3, <2>4, Frames DEF StartMonitor
  <1>3. CASE AttachMonitor
    <2>1. ProcessTypeOK' /\ crashes' \in 0 .. MaxCrashes
      BY <1>3 DEF AttachMonitor, ProcessTypeOK
    <2>2. MonitorTypeOK'
      BY <1>3 DEF AttachMonitor, NewMonitor, MonitorTypeOK, ProcessTypeOK, Ledgers
    <2>3. LocalsInv'
      BY <1>3 DEF AttachMonitor, NewMonitor, LocalsInv
    <2> QED
      BY <1>3, <2>1, <2>2, <2>3, Frames DEF AttachMonitor
  <1>4. CASE Crash
    <2>1. ProcessTypeOK' /\ crashes' \in 0 .. MaxCrashes
      BY <1>4, RuntimeAssumption DEF Crash, ProcessTypeOK, Controls
    <2>2. CoordinatorTypeOK'
      <3>1. 0 \in Times
        BY PortAssumption DEF Times
      <3> QED
        BY <1>4, <3>1
        DEF Crash, ForgetCoordinator, CoordinatorTypeOK, EngineStates
    <2>3. MonitorTypeOK' /\ LocalsInv'
      BY <1>4 DEF Crash, ForgetMonitor, MonitorTypeOK, LocalsInv
    <2> QED
      BY <1>4, <2>1, <2>2, <2>3, Frames DEF Crash
  <1>5. CASE Advance
    <2>1. ProcessTypeOK' /\ crashes' \in 0 .. MaxCrashes
      BY <1>5, PortAssumption DEF Advance, Times, ProcessTypeOK
    <2>2. LocalsInv'
      BY <1>5 DEF Advance, LocalsInv, CloseId, portVars, coordVars, monitorVars
    <2> QED
      BY <1>5, <2>1, <2>2, Frames DEF Advance
  <1> QED
    BY <1>1, <1>2, <1>3, <1>4, <1>5

(* The handlers of the coordinator keep the types and the locals.          *)
LEMMA TypeCoordinator ==
  ASSUME TypeInv, Coordinator
  PROVE  TypeInv'
  <1> USE DEF TypeInv, TypeOK
  <1>1. MonitorTypeOK' /\ crashes' \in 0 .. MaxCrashes
    BY Frames DEF Coordinator
  <1>2. ledger \in LiveLedgers /\ now \in Times
    BY DEF ProcessTypeOK, LiveLedgers
  <1>3. CASE ReconcileStartup
    <2>1. ProcessTypeOK'
      BY <1>3 DEF ReconcileStartup, ProcessTypeOK, Controls
    <2>2. CoordinatorTypeOK'
      BY <1>3 DEF ReconcileStartup, HaltCoordinator, CoordinatorTypeOK,
         EngineStates, ProcessTypeOK, Ledgers
    <2>3. LocalsInv'
      BY <1>3 DEF ReconcileStartup, LocalsInv, Coordinator, monitorVars
    <2> QED
      BY <1>1, <1>3, <2>1, <2>2, <2>3, Frames DEF ReconcileStartup
  <1>4. CASE RecoverPendingBuy
    <2> DEFINE s == ledger.pendingBuy
    <2>1. /\ pc = "recoverBuy" /\ UNCHANGED <<now, halted, lastCandle, lastTick>>
          /\ pc' = IF ledger'.position = None THEN "idle" ELSE "monitor"
          /\ UNCHANGED portVars
      BY <1>4 DEF RecoverPendingBuy
    <2>2. s \in Setups \cup {None}
      BY <1>2 DEF LiveLedgers, Ledgers
    <2>3. /\ ledger' \in LiveLedgers /\ IsFiniteSet(ledger'.fills)
          /\ CoordinatorTypeOK'
      <3>1. CASE UNCHANGED <<armed, receipt, trades, engine, ledger>>
        BY <1>2, <2>1, <3>1 DEF CoordinatorTypeOK, LocalsInv
      <3>2. CASE s # None /\ Rearm(s)
        BY <1>2, <2>1, <2>2, <3>2 DEF Rearm, CoordinatorTypeOK, LocalsInv
      <3>3. CASE s # None /\ accepted[s] # None /\ AcceptReceipt(s)
        BY <2>1, <2>2, <3>3, AcceptReceiptType
        DEF CoordinatorTypeOK, EngineStates
      <3> QED
        BY <1>4, <3>1, <3>2, <3>3 DEF RecoverPendingBuy, FoundAtBroker
    <2>4. ProcessTypeOK'
      BY <1>2, <2>1, <2>3 DEF ProcessTypeOK, Controls, LiveLedgers
    <2>5. LocalsInv'
      BY <2>1, <2>3 DEF LocalsInv, Coordinator, monitorVars
    <2> QED
      BY <1>1, <2>1, <2>3, <2>4, <2>5, Frames
  <1>5. CASE \E e \in CandleEnds : CompletedCandle(e)
    <2> PICK e \in CandleEnds : CompletedCandle(e)
      BY <1>5
    <2>1. e \in Times /\ e \in Setups
      BY PortAssumption DEF Setups
    <2>2. ledger' \in LiveLedgers /\ IsFiniteSet(ledger'.fills)
      BY <1>2, <2>1, BuyIntentLedger DEF CompletedCandle, Arm, LocalsInv
    <2>3. CoordinatorTypeOK'
      BY <2>1 DEF CompletedCandle, Arm, CoordinatorTypeOK, EngineStates
    <2>4. ProcessTypeOK'
      BY <1>2, <2>2 DEF CompletedCandle, ProcessTypeOK, LiveLedgers
    <2>5. LocalsInv'
      BY <2>2 DEF CompletedCandle, LocalsInv, Coordinator, monitorVars
    <2> QED
      BY <1>1, <2>3, <2>4, <2>5, Frames DEF CompletedCandle
  <1>6. CASE \E zone \in Zones, wideSpread \in BOOLEAN : Tick(zone, wideSpread)
    <2> PICK zone \in Zones, wideSpread \in BOOLEAN : Tick(zone, wideSpread)
      BY <1>6
    <2>1. ledger' \in LiveLedgers /\ IsFiniteSet(ledger'.fills)
      BY <1>2, BuyDroppedLedger DEF Tick, DropArmed, LocalsInv
    <2>2. CoordinatorTypeOK'
      BY <1>2 DEF Tick, DropArmed, CoordinatorTypeOK, EngineStates
    <2>3. ProcessTypeOK'
      BY <1>2, <2>1 DEF Tick, DropArmed, ProcessTypeOK, LiveLedgers, Controls
    <2>4. LocalsInv'
      BY <2>1 DEF Tick, DropArmed, TakesTicks, LocalsInv, Coordinator, monitorVars
    <2> QED
      BY <1>1, <2>2, <2>3, <2>4, Frames DEF Tick
  <1>7. CASE Submit \/ SubmitRaises
    <2>1. armed \in Setups /\ UNCHANGED coordVars /\ UNCHANGED <<now, ledger>>
      BY <1>7 DEF Submit, SubmitRaises, LocalsInv, CoordinatorTypeOK
    <2>2. PortTypeOK'
      BY <1>2, <1>7, <2>1
      DEF Submit, SubmitRaises, SubmitBuy, PortTypeOK, portVars
    <2>3. ProcessTypeOK'
      BY <1>7, <2>1 DEF Submit, SubmitRaises, ProcessTypeOK, Controls
    <2>4. LocalsInv'
      <3>1. Submit => accepted'[armed] # None
        BY <1>2, <2>1, PortAssumption DEF Submit, SubmitBuy, PortTypeOK, Times
      <3> QED
        BY <1>7, <2>1, <3>1
        DEF Submit, SubmitRaises, LocalsInv, Coordinator, monitorVars, coordVars
    <2> QED
      BY <1>1, <2>1, <2>2, <2>3, <2>4, Frames
  <1>8. CASE AcceptSubmitted
    <2>1. armed \in Setups /\ accepted[armed] # None /\ AcceptReceipt(armed)
      BY <1>8 DEF AcceptSubmitted, LocalsInv, CoordinatorTypeOK
    <2>2. CoordinatorTypeOK'
      BY <1>8, <2>1, AcceptReceiptType
      DEF AcceptSubmitted, CoordinatorTypeOK, EngineStates
    <2>3. ProcessTypeOK'
      BY <1>8, <2>1, AcceptReceiptType
      DEF AcceptSubmitted, ProcessTypeOK, Controls, LiveLedgers
    <2>4. LocalsInv'
      BY <1>8, <2>1, AcceptReceiptType
      DEF AcceptSubmitted, LocalsInv, Coordinator, monitorVars
    <2> QED
      BY <1>1, <1>8, <2>2, <2>3, <2>4, Frames DEF AcceptSubmitted
  <1>9. CASE Heartbeat
    <2>1. ledger' \in LiveLedgers /\ ledger'.fills = ledger.fills
      BY <1>2, <1>9, KillSwitchLedger DEF Heartbeat
    <2>2. CoordinatorTypeOK'
      BY <1>9 DEF Heartbeat, HaltCoordinator, CoordinatorTypeOK, EngineStates
    <2>3. ProcessTypeOK'
      BY <1>9, <2>1 DEF Heartbeat, ProcessTypeOK, LiveLedgers
    <2>4. LocalsInv'
      BY <1>9, <2>1 DEF Heartbeat, LocalsInv, Coordinator, monitorVars
    <2> QED
      BY <1>1, <1>9, <2>2, <2>3, <2>4, Frames DEF Heartbeat
  <1> QED
    BY <1>3, <1>4, <1>5, <1>6, <1>7, <1>8, <1>9 DEF Coordinator

(* The handlers of the monitor keep the types and the locals.              *)
LEMMA TypeMonitor ==
  ASSUME TypeInv, Monitor
  PROVE  TypeInv'
  <1> USE DEF TypeInv, TypeOK
  <1>1. CoordinatorTypeOK' /\ crashes' \in 0 .. MaxCrashes
    BY Frames DEF Monitor
  <1>2. ledger \in LiveLedgers /\ now \in Times
    BY DEF ProcessTypeOK, LiveLedgers
  <1>3. \A r \in Results : monitor # "off" => CloseId(r) \in CloseIds
    BY DEF LocalsInv, MonitorTypeOK, CloseId, CloseIds
  <1>4. CASE RecoverPendingClose
    <2> DEFINE c == ledger.pendingClose
    <2>1. /\ UNCHANGED <<now, monitored, exit>> /\ UNCHANGED portVars
          /\ pc' = "idle"
      BY <1>4 DEF RecoverPendingClose
    <2>2. c # None => c \in CloseIds
      BY <1>2 DEF LiveLedgers, Ledgers, CloseIds
    <2>3. /\ ledger' \in LiveLedgers /\ ledger'.fills = ledger.fills
          /\ monitor' \in {monitor, "halted", "closed"}
      <3>1. CASE UNCHANGED ledger /\ monitor' \in {monitor, "halted"}
        BY <1>2, <3>1
      <3>2. CASE c # None /\ sold[c] # None /\ RecordClose(c)
        BY <2>2, <3>2, RecordCloseType
      <3>3. c \in {CloseId(r) : r \in Results} => c # None
        BY <1>3, <1>4, PortAssumption DEF LocalsInv, RecoverPendingClose
      <3> QED
        BY <1>4, <3>1, <3>2, <3>3 DEF RecoverPendingClose
    <2>4. MonitorTypeOK' /\ ProcessTypeOK'
      BY <1>2, <2>1, <2>3 DEF MonitorTypeOK, ProcessTypeOK, Controls, LiveLedgers
    <2>5. LocalsInv'
      BY <1>4, <2>1, <2>3
      DEF LocalsInv, RecoverPendingClose, Monitor, coordVars
    <2> QED
      BY <1>1, <2>1, <2>4, <2>5, Frames
  <1>5. CASE \E zone \in PriceZones, sessionEnd \in BOOLEAN :
               Price(zone, sessionEnd)
    <2> PICK zone \in PriceZones, sessionEnd \in BOOLEAN :
               Price(zone, sessionEnd)
      BY <1>5
    <2> DEFINE r == ExitResult(zone, sessionEnd)
               c == CloseId(r)
    <2>1. /\ pc = "idle" /\ monitor = "watching" /\ r # None
          /\ UNCHANGED <<now, monitored>> /\ UNCHANGED portVars
      BY DEF Price
    <2>2. r \in Results
      BY <2>1 DEF ExitResult, PriceZones, Results
    <2>3. c \in CloseIds /\ c \in Setups \X Results
      BY <1>3, <2>1, <2>2 DEF CloseIds
    <2> HIDE DEF r
    <2>4. CASE monitor' = "halted" /\ UNCHANGED <<pc, exit, ledger>>
      <3>1. ProcessTypeOK' /\ MonitorTypeOK'
        BY <2>1, <2>4 DEF ProcessTypeOK, MonitorTypeOK
      <3>2. LocalsInv'
        BY <2>1, <2>4 DEF LocalsInv, Monitor, coordVars
      <3> QED
        BY <1>1, <2>1, <3>1, <3>2, Frames
    <2>5. CASE CloseFound(c) /\ RecordClose(c) /\ UNCHANGED <<pc, exit>>
      <3>1. /\ ledger' \in LiveLedgers /\ ledger'.fills = ledger.fills
            /\ monitor' = "closed"
        BY <2>3, <2>5, RecordCloseType DEF CloseFound
      <3>2. ProcessTypeOK' /\ MonitorTypeOK'
        BY <2>1, <2>5, <3>1 DEF ProcessTypeOK, MonitorTypeOK, LiveLedgers
      <3>3. LocalsInv'
        BY <2>1, <2>5, <3>1 DEF LocalsInv, Monitor, coordVars
      <3> QED
        BY <1>1, <2>1, <3>2, <3>3, Frames
    <2>6. CASE /\ ledger' = CloseIntent(ledger, c, now)
               /\ exit' = r /\ pc' = "close" /\ UNCHANGED monitor
      <3>1. ledger' \in LiveLedgers /\ ledger'.fills = ledger.fills
        BY <1>2, <2>3, <2>6, CloseIntentLedger
      <3>2. ProcessTypeOK' /\ MonitorTypeOK'
        BY <2>1, <2>2, <2>6, <3>1
        DEF ProcessTypeOK, MonitorTypeOK, LiveLedgers, Controls
      <3>3. LocalsInv'
        BY <2>1, <2>6, <3>1 DEF LocalsInv, Monitor, coordVars
      <3> QED
        BY <1>1, <2>1, <3>2, <3>3, Frames
    <2> QED
      BY <2>4, <2>5, <2>6 DEF Price, r
  <1>6. CASE SendClose \/ SendCloseRaises(PortRaises)
    <2>1. /\ CloseId(exit) \in CloseIds /\ monitor = "watching"
          /\ UNCHANGED <<now, ledger, monitor, monitored>>
          /\ pc' \in {"idle", "recordClose"} /\ exit' \in {exit, None}
      BY <1>3, <1>6 DEF SendClose, SendCloseRaises, LocalsInv, MonitorTypeOK,
         monitorVars
    <2>2. PortTypeOK'
      BY <1>2, <1>6, <2>1
      DEF SendClose, SendCloseRaises, CloseLong, PortTypeOK, portVars
    <2>3. ProcessTypeOK' /\ MonitorTypeOK'
      BY <2>1 DEF ProcessTypeOK, MonitorTypeOK, Controls
    <2>4. LocalsInv'
      <3>1. SendClose => sold'[CloseId(exit)] # None /\ UNCHANGED exit
        BY <1>2, <2>1, PortAssumption
        DEF SendClose, CloseLong, PortTypeOK, Times, monitorVars
      <3> QED
        BY <1>6, <2>1, <3>1
        DEF SendClose, SendCloseRaises, LocalsInv, Monitor, coordVars, CloseId
    <2> QED
      BY <1>1, <2>2, <2>3, <2>4
  <1>7. CASE RecordSentClose
    <2>1. /\ CloseId(exit) \in CloseIds /\ sold[CloseId(exit)] # None
          /\ RecordClose(CloseId(exit)) /\ pc' = "idle"
          /\ UNCHANGED <<now, monitored>> /\ UNCHANGED portVars
          /\ exit' = None
      BY <1>3, <1>7 DEF RecordSentClose, LocalsInv, MonitorTypeOK
    <2>2. /\ ledger' \in LiveLedgers /\ ledger'.fills = ledger.fills
          /\ monitor' = "closed"
      BY <2>1, RecordCloseType
    <2>3. ProcessTypeOK' /\ MonitorTypeOK'
      BY <2>1, <2>2 DEF ProcessTypeOK, MonitorTypeOK, LiveLedgers, Controls
    <2>4. LocalsInv'
      BY <1>7, <2>1, <2>2 DEF RecordSentClose, LocalsInv, Monitor, coordVars
    <2> QED
      BY <1>1, <2>1, <2>3, <2>4, Frames
  <1> QED
    BY <1>4, <1>5, <1>6, <1>7 DEF Monitor

(* The broker's and the operator's steps keep the types and the locals.    *)
LEMMA TypeOutside ==
  ASSUME TypeInv, Broker \/ Operator
  PROVE  TypeInv'
  <1> USE DEF TypeInv, TypeOK
  <1>1. CASE Broker
    <2>1. /\ UNCHANGED <<now, pc, ledger, crashes>>
          /\ UNCHANGED <<coordVars, monitorVars>>
      BY <1>1 DEF Broker
    <2>2. PortTypeOK' /\ UNCHANGED <<accepted, sold>>
      BY <1>1 DEF Broker, FillBuy, ExecuteClose, BrokerExit, PortTypeOK
    <2>3. ProcessTypeOK'
      BY <2>1 DEF ProcessTypeOK
    <2>4. LocalsInv'
      BY <2>1, <2>2 DEF LocalsInv, coordVars, monitorVars, CloseId
    <2> QED
      BY <2>1, <2>2, <2>3, <2>4, Frames
  <1>2. CASE Operator
    <2>1. /\ UNCHANGED <<now, pc, crashes>>
          /\ UNCHANGED <<portVars, coordVars, monitorVars>>
      BY <1>2 DEF Operator
    <2>2. ledger' \in LiveLedgers /\ ledger'.fills = ledger.fills
      BY <1>2, KillSwitchLedger DEF Operator, ProcessTypeOK, LiveLedgers
    <2>3. ProcessTypeOK'
      BY <2>1, <2>2 DEF ProcessTypeOK, LiveLedgers
    <2>4. LocalsInv'
      <3>1. CloseId(exit)' = CloseId(exit)
        BY <2>1 DEF CloseId, monitorVars
      <3>2. ledger'.position = ledger.position
        BY <1>2, KillSwitchLedger DEF Operator, ProcessTypeOK, LiveLedgers
      <3> QED
        BY <2>1, <2>2, <3>1, <3>2
        DEF LocalsInv, portVars, coordVars, monitorVars
    <2> QED
      BY <2>1, <2>3, <2>4, Frames
  <1> QED
    BY <1>1, <1>2

(* The types and the locals form an inductive invariant.                   *)
LEMMA TypeInductive == Spec => []TypeInv
  <1>1. Init => TypeInv
    BY TypeInit
  <1>2. TypeInv /\ [Next]_vars => TypeInv'
    <2> SUFFICES ASSUME TypeInv, [Next]_vars PROVE TypeInv'
      OBVIOUS
    <2>1. CASE UNCHANGED vars
      BY <2>1, Frames
      DEF vars, TypeInv, TypeOK, ProcessTypeOK, LocalsInv, CloseId,
          portVars, coordVars, monitorVars
    <2> QED
      BY <2>1, TypeRuntime, TypeCoordinator, TypeMonitor, TypeOutside DEF Next
  <1> QED
    BY <1>1, <1>2, PTL DEF Spec

(* Every reachable state is well typed: the handlers of live.py and        *)
(* position.py assign only what their variables can hold.                  *)
THEOREM TypeCorrect == Spec => []TypeOK
  BY TypeInductive, PTL DEF TypeInv

-----------------------------------------------------------------------------
(* Intents *)

(* What the monitor, the broker, the operator and the clock leave alone of *)
(* the BUY side.                                                           *)
BuySide ==
  <<accepted, armed, receipt, halted, lastCandle,
    ledger.pendingBuy, ledger.intents>>

(* The monitor, the broker, the operator and the clock never touch what    *)
(* the BUY side keeps of an intent.                                        *)
LEMMA OthersKeepBuySide ==
  ASSUME TypeInv, Monitor \/ Broker \/ Operator \/ Advance \/ AttachMonitor
  PROVE  /\ UNCHANGED BuySide
         /\ now' \in Times /\ now <= now'
         /\ pc' = pc \/ ({pc, pc'} \subseteq
                           {"recoverClose", "idle", "close", "recordClose"})
         /\ Filled(ledger') = Filled(ledger)
  <1> USE DEF BuySide
  <1>1. now' \in Times
    BY TypeRuntime, TypeMonitor, TypeOutside
    DEF TypeInv, TypeOK, ProcessTypeOK
  <1>2. ledger \in LiveLedgers /\ now \in Nat
    BY TimesAreNat DEF TypeInv, TypeOK, ProcessTypeOK, LiveLedgers
  <1>3. CASE Monitor
    <2>1. /\ UNCHANGED <<coordVars, now>>
          /\ \/ UNCHANGED portVars
             \/ UNCHANGED accepted
      BY <1>3 DEF Monitor, RecoverPendingClose, Price, SendClose,
         SendCloseRaises, CloseLong, RecordSentClose
    <2>2. /\ {pc, pc'} \subseteq {"recoverClose", "idle", "close", "recordClose"}
      BY <1>3 DEF Monitor, RecoverPendingClose, Price, SendClose,
         SendCloseRaises, RecordSentClose
    <2>3. \/ UNCHANGED ledger
          \/ \E c \in CloseIds : sold[c] # None /\ RecordClose(c)
          \/ \E c \in CloseIds : ledger' = CloseIntent(ledger, c, now)
      <3> SUFFICES ASSUME ledger' # ledger
                   PROVE  \/ \E c \in CloseIds : sold[c] # None /\ RecordClose(c)
                          \/ \E c \in CloseIds :
                               ledger' = CloseIntent(ledger, c, now)
        OBVIOUS
      <3>1. \A r \in Results : monitor # "off" => CloseId(r) \in CloseIds
        BY DEF TypeInv, TypeOK, LocalsInv, MonitorTypeOK, CloseId, CloseIds
      <3>2. CASE RecoverPendingClose
        BY <3>1, <3>2 DEF RecoverPendingClose, TypeInv, LocalsInv
      <3>3. CASE \E zone \in PriceZones, sessionEnd \in BOOLEAN :
                   Price(zone, sessionEnd)
        <4> PICK zone \in PriceZones, sessionEnd \in BOOLEAN :
                   Price(zone, sessionEnd)
          BY <3>3
        <4>1. ExitResult(zone, sessionEnd) \in Results
          BY DEF Price, ExitResult, PriceZones, Results
        <4> QED
          BY <3>1, <4>1 DEF Price, CloseFound
      <3>4. CASE RecordSentClose
        BY <3>1, <3>4 DEF RecordSentClose, TypeInv, TypeOK, LocalsInv, MonitorTypeOK
      <3> QED
        BY <1>3, <3>2, <3>3, <3>4 DEF Monitor, SendClose, SendCloseRaises
    <2>4. /\ ledger'.pendingBuy = ledger.pendingBuy
          /\ ledger'.intents = ledger.intents
          /\ Filled(ledger') = Filled(ledger)
      <3>1. CASE \E c \in CloseIds : ledger' = CloseIntent(ledger, c, now)
        BY <1>2, <3>1, CloseIntentLedger DEF CloseIds, Filled, TypeInv, TypeOK,
           ProcessTypeOK
      <3>2. CASE \E c \in CloseIds : sold[c] # None /\ RecordClose(c)
        BY <3>2, RecordCloseType DEF Filled
      <3> QED
        BY <2>3, <3>1, <3>2
    <2> QED
      BY <1>1, <1>2, <2>1, <2>2, <2>4 DEF coordVars, portVars
  <1>4. CASE Operator
    <2>1. /\ ledger'.pendingBuy = ledger.pendingBuy
          /\ ledger'.intents = ledger.intents
          /\ Filled(ledger') = Filled(ledger)
      BY <1>2, <1>4, KillSwitchLedger
      DEF Operator, Filled, TypeInv, TypeOK, ProcessTypeOK
    <2> QED
      BY <1>1, <1>2, <1>4, <2>1 DEF Operator, portVars, coordVars
  <1>5. CASE Broker
    BY <1>1, <1>2, <1>5
    DEF Broker, FillBuy, ExecuteClose, BrokerExit, coordVars
  <1>6. CASE Advance \/ AttachMonitor
    BY <1>1, <1>2, <1>6
    DEF Advance, AttachMonitor, portVars, coordVars, Filled
  <1> QED
    BY <1>3, <1>4, <1>5, <1>6

(* The arithmetic the intents need.                                        *)
LEMMA SetupsAreNat ==
  ASSUME TypeInv
  PROVE  /\ Setups \subseteq Nat /\ now \in Nat /\ lastCandle \in Nat
         /\ ledger \in LiveLedgers /\ ledger.intents \subseteq Setups
         /\ ledger.pendingBuy \in Setups \cup {None} /\ None \notin Setups
  <1>1. Setups \subseteq Nat
    BY TimesAreNat, PortAssumption DEF Setups
  <1> QED
    BY <1>1, TimesAreNat, PortAssumption
    DEF TypeInv, TypeOK, ProcessTypeOK, CoordinatorTypeOK, LiveLedgers, Ledgers

(* A start, a crash and a halt keep the intent invariant                   *)
(* (runtime.py:28-102, live.py:64-86).                                     *)
LEMMA IntentStart ==
  ASSUME TypeInv, IntentInv,
         Start \/ StartMonitor \/ Crash \/ ReconcileStartup \/ Heartbeat
  PROVE  IntentInv'
  <1> USE SetupsAreNat DEF IntentInv, Recovering
  <1>1. CASE Start
    BY <1>1 DEF Start, NewCoordinator, portVars
  <1>2. CASE StartMonitor
    BY <1>2 DEF StartMonitor, portVars
  <1>3. CASE Crash
    BY <1>3 DEF Crash, ForgetCoordinator, portVars
  <1>4. CASE ReconcileStartup
    BY <1>4 DEF ReconcileStartup, HaltCoordinator, portVars
  <1>5. CASE Heartbeat
    <2>1. /\ ledger'.pendingBuy = ledger.pendingBuy
          /\ ledger'.intents = ledger.intents
      BY <1>5, KillSwitchLedger DEF Heartbeat, TypeInv, TypeOK, ProcessTypeOK
    <2> QED
      BY <1>5, <2>1 DEF Heartbeat, HaltCoordinator, portVars
  <1> QED
    BY <1>1, <1>2, <1>3, <1>4, <1>5

(* The recovery of a pending BUY and the candle and tick handlers keep the *)
(* intent invariant (live.py:88-249).                                      *)
LEMMA IntentHandlers ==
  ASSUME TypeInv, IntentInv,
         \/ RecoverPendingBuy
         \/ \E e \in CandleEnds : CompletedCandle(e)
         \/ \E zone \in Zones, wideSpread \in BOOLEAN : Tick(zone, wideSpread)
         \/ Submit \/ SubmitRaises \/ AcceptSubmitted
  PROVE  IntentInv'
  <1> USE SetupsAreNat DEF IntentInv, Recovering
  <1>1. CASE RecoverPendingBuy
    <2>1. pc = "recoverBuy" /\ pc' \in {"idle", "monitor"} /\ UNCHANGED portVars
      BY <1>1 DEF RecoverPendingBuy
    <2>2. CASE \/ /\ halted \/ ledger.pendingBuy = None
                  /\ UNCHANGED <<armed, receipt, trades, engine, ledger>>
               \/ ledger.pendingBuy # None /\ Rearm(ledger.pendingBuy)
      BY <1>1, <2>1, <2>2 DEF RecoverPendingBuy, Rearm, portVars
    <2>3. CASE /\ ledger.pendingBuy # None
               /\ accepted[ledger.pendingBuy] # None
               /\ AcceptReceipt(ledger.pendingBuy)
      BY <1>1, <2>1, <2>3, AcceptReceiptType DEF RecoverPendingBuy, portVars
    <2> QED
      BY <1>1, <2>2, <2>3 DEF RecoverPendingBuy, FoundAtBroker
  <1>2. CASE \E e \in CandleEnds : CompletedCandle(e)
    <2> PICK e \in CandleEnds : CompletedCandle(e)
      BY <1>2
    <2>1. e \in Setups /\ e \in Times
      BY PortAssumption DEF Setups
    <2>2. /\ pc = "idle" /\ lastCandle < e /\ e <= now
          /\ UNCHANGED <<now, pc, halted, receipt>> /\ UNCHANGED portVars
          /\ lastCandle' = e
      BY DEF CompletedCandle
    <2>3. CASE UNCHANGED <<armed, ledger>>
      BY <2>1, <2>2, <2>3 DEF portVars
    <2>4. CASE Arm(e)
      <3>1. /\ ledger'.pendingBuy = e /\ armed' = e
            /\ ledger'.intents = ledger.intents \cup {e}
        BY <2>1, <2>4, BuyIntentLedger DEF Arm
      <3> QED
        BY <2>1, <2>2, <3>1 DEF portVars
    <2> QED
      BY <2>3, <2>4 DEF CompletedCandle
  <1>3. CASE \E zone \in Zones, wideSpread \in BOOLEAN : Tick(zone, wideSpread)
    <2>1. /\ UNCHANGED <<now, halted, receipt, lastCandle>>
          /\ UNCHANGED portVars
          /\ pc = "idle" /\ pc' \in {"idle", "submit"}
          /\ UNCHANGED <<armed, ledger>> \/ DropArmed
      BY <1>3 DEF Tick, DropArmed
    <2>2. DropArmed => /\ ledger'.pendingBuy = None /\ armed' = None
                       /\ ledger'.intents = ledger.intents
      BY BuyDroppedLedger DEF DropArmed, TypeInv, TypeOK, ProcessTypeOK
    <2> QED
      BY <2>1, <2>2 DEF portVars
  <1>4. CASE Submit \/ SubmitRaises
    <2>1. /\ UNCHANGED <<now, ledger>> /\ UNCHANGED coordVars
          /\ pc' \in {"idle", "accept"} /\ pc = "submit"
      BY <1>4 DEF Submit, SubmitRaises
    <2>2. armed \in Setups /\ armed \in ledger.intents
      BY <2>1 DEF TypeInv, LocalsInv, TypeOK, CoordinatorTypeOK
    <2>3. \A s \in Setups : accepted'[s] # accepted[s] => s = armed
      BY <1>4, <2>2
      DEF Submit, SubmitRaises, SubmitBuy, portVars, TypeInv, TypeOK, PortTypeOK
    <2> QED
      BY <2>1, <2>2, <2>3 DEF coordVars
  <1>5. CASE AcceptSubmitted
    <2>1. armed \in Setups /\ accepted[armed] # None /\ AcceptReceipt(armed)
      BY <1>5
      DEF AcceptSubmitted, TypeInv, LocalsInv, TypeOK, CoordinatorTypeOK
    <2>2. /\ pc = "accept" /\ pc' = "idle"
          /\ UNCHANGED <<now, halted, lastCandle, accepted>>
      BY <1>5 DEF AcceptSubmitted, portVars
    <2>3. /\ ledger'.pendingBuy = None /\ armed' = None
          /\ ledger'.intents = ledger.intents
      BY <2>1, AcceptReceiptType
    <2> QED
      BY <2>2, <2>3
  <1> QED
    BY <1>1, <1>2, <1>3, <1>4, <1>5

(* Intents are written once, before their order, and never overwritten.    *)
LEMMA IntentStep ==
  ASSUME TypeInv, IntentInv, [Next]_vars
  PROVE  IntentInv'
  <1>1. CASE UNCHANGED vars
    BY <1>1 DEF vars, portVars, coordVars, IntentInv, Recovering
  <1>2. CASE Monitor \/ Broker \/ Operator \/ Advance \/ AttachMonitor
    <2>1. /\ UNCHANGED BuySide
          /\ now' \in Nat /\ now <= now'
          /\ pc' = pc \/ ({pc, pc'} \subseteq
                            {"recoverClose", "idle", "close", "recordClose"})
      BY <1>2, OthersKeepBuySide, TimesAreNat
    <2> QED
      BY <2>1, SetupsAreNat DEF BuySide, IntentInv, Recovering
  <1> QED
    BY <1>1, <1>2, IntentStart, IntentHandlers DEF Next, Coordinator

(* Whatever crashes lie between, memory and ledger agree on the pending    *)
(* intent.                                                                 *)
LEMMA IntentInductive == Spec => []IntentInv
  <1>1. Init => IntentInv
    BY DEF Init, ProcessInit, PortInit, NoCoordinator, EmptyLedger, IntentInv,
       Recovering
  <1> QED
    BY <1>1, IntentStep, TypeInductive, PTL DEF Spec

-----------------------------------------------------------------------------
(* Durability of accepted BUYs *)

(* A BUY that was not sent can be dropped; one that was sent is accepted   *)
(* before its intent is.                                                   *)
DurableInv == UnsentInv /\ AcceptedIsDurable

(* A start, a crash and a halt forget no accepted BUY.                     *)
LEMMA DurableStart ==
  ASSUME TypeInv, IntentInv, DurableInv,
         Start \/ StartMonitor \/ Crash \/ ReconcileStartup \/ Heartbeat
  PROVE  DurableInv'
  <1> USE DEF DurableInv, UnsentInv, AcceptedIsDurable
  <1>1. ledger'.pendingBuy = ledger.pendingBuy /\ Filled(ledger') = Filled(ledger)
    BY KillSwitchLedger
    DEF Start, StartMonitor, Crash, ReconcileStartup, Heartbeat, Filled,
        TypeInv, TypeOK, ProcessTypeOK, LiveLedgers
  <1>2. UNCHANGED accepted
    BY DEF Start, StartMonitor, Crash, ReconcileStartup, Heartbeat, portVars
  <1>3. armed' = None \/ (UNCHANGED armed /\ pc # "accept")
    BY DEF Start, NewCoordinator, StartMonitor, Crash, ForgetCoordinator,
       ReconcileStartup, Heartbeat
  <1> QED
    BY <1>1, <1>2, <1>3

(* The handlers of the coordinator forget no accepted BUY as long as       *)
(* submit_buy returns (live.py:88-249).                                    *)
LEMMA DurableHandlers ==
  ASSUME TypeInv, IntentInv, DurableInv, PortRaises = FALSE,
         \/ RecoverPendingBuy
         \/ \E e \in CandleEnds : CompletedCandle(e)
         \/ \E zone \in Zones, wideSpread \in BOOLEAN : Tick(zone, wideSpread)
         \/ Submit \/ AcceptSubmitted
  PROVE  DurableInv'
  <1> USE SetupsAreNat DEF DurableInv, UnsentInv, AcceptedIsDurable
  <1>1. CASE RecoverPendingBuy
    <2> DEFINE s == ledger.pendingBuy
    <2>1. pc = "recoverBuy" /\ pc' # "accept" /\ UNCHANGED accepted
      BY <1>1 DEF RecoverPendingBuy, portVars
    <2>2. armed = None
      BY <2>1 DEF IntentInv, Recovering
    <2>3. CASE UNCHANGED <<armed, ledger>>
      BY <2>1, <2>2, <2>3
    <2>4. CASE s # None /\ accepted[s] = None /\ Rearm(s)
      BY <2>1, <2>4 DEF Rearm
    <2>5. CASE s # None /\ accepted[s] # None /\ AcceptReceipt(s)
      BY <2>1, <2>5, AcceptReceiptType
    <2> QED
      BY <1>1, <2>3, <2>4, <2>5 DEF RecoverPendingBuy, FoundAtBroker
  <1>2. CASE \E e \in CandleEnds : CompletedCandle(e)
    <2> PICK e \in CandleEnds : CompletedCandle(e)
      BY <1>2
    <2>1. pc = "idle" /\ pc' = "idle" /\ UNCHANGED accepted
      BY DEF CompletedCandle, portVars
    <2>2. CASE UNCHANGED <<armed, ledger>>
      BY <2>1, <2>2
    <2>3. CASE ~IgnoresCandles /\ Arm(e)
      <3>1. e \in Setups /\ e \in Times /\ lastCandle < e
        BY PortAssumption DEF Setups, CompletedCandle
      <3>2. ledger.pendingBuy = None
        BY <2>1, <2>3 DEF IntentInv, Recovering, IgnoresCandles
      <3>3. accepted[e] = None
        BY <2>1, <3>1 DEF IntentInv
      <3>4. armed' = e /\ Filled(ledger') = Filled(ledger)
        BY <2>3, <3>1, BuyIntentLedger DEF Arm, Filled
      <3> QED
        BY <2>1, <3>2, <3>3, <3>4
    <2> QED
      BY <2>2, <2>3 DEF CompletedCandle
  <1>3. CASE \E zone \in Zones, wideSpread \in BOOLEAN : Tick(zone, wideSpread)
    <2>1. /\ UNCHANGED accepted
          /\ pc = "idle" /\ pc' \in {"idle", "submit"}
          /\ UNCHANGED <<armed, ledger>> \/ (DropArmed /\ armed # None)
      BY <1>3 DEF Tick, DropArmed, TakesTicks, portVars
    <2>2. CASE UNCHANGED <<armed, ledger>>
      BY <2>1, <2>2
    <2>3. CASE DropArmed /\ armed # None
      <3>1. ledger.pendingBuy = armed /\ accepted[armed] = None
        BY <2>1, <2>3 DEF IntentInv
      <3>2. armed' = None /\ Filled(ledger') = Filled(ledger)
        BY <2>3, BuyDroppedLedger
        DEF DropArmed, Filled, TypeInv, TypeOK, ProcessTypeOK
      <3> QED
        BY <2>1, <3>1, <3>2
    <2> QED
      BY <2>1, <2>2, <2>3
  <1>4. CASE Submit
    <2>1. UNCHANGED <<armed, ledger>> /\ pc' = "accept" /\ pc = "submit"
      BY <1>4 DEF Submit, coordVars
    <2>2. armed \in Setups /\ ledger.pendingBuy = armed
      BY <2>1 DEF IntentInv, TypeInv, LocalsInv, TypeOK, CoordinatorTypeOK
    <2>3. \A s \in Setups : accepted'[s] # accepted[s] => s = armed
      BY <1>4, <2>2 DEF Submit, SubmitBuy, TypeInv, TypeOK, PortTypeOK
    <2> QED
      BY <2>1, <2>2, <2>3
  <1>5. CASE AcceptSubmitted
    <2>1. armed \in Setups /\ accepted[armed] # None /\ AcceptReceipt(armed)
      BY <1>5
      DEF AcceptSubmitted, TypeInv, LocalsInv, TypeOK, CoordinatorTypeOK
    <2>2. UNCHANGED accepted /\ ledger.pendingBuy = armed
      BY <1>5, <2>1 DEF AcceptSubmitted, portVars, IntentInv
    <2>3. armed' = None /\ Filled(ledger') = Filled(ledger) \cup {armed}
      BY <2>1, AcceptReceiptType
    <2> QED
      BY <2>1, <2>2, <2>3
  <1> QED
    BY <1>1, <1>2, <1>3, <1>4, <1>5

(* Every step of the runtime keeps accepted BUYs durable when the port     *)
(* does not raise.                                                         *)
LEMMA DurableStep ==
  ASSUME TypeInv, IntentInv, DurableInv, PortRaises = FALSE, [Next]_vars
  PROVE  DurableInv'
  <1> USE DEF DurableInv, UnsentInv, AcceptedIsDurable
  <1>1. CASE UNCHANGED vars
    BY <1>1 DEF vars, portVars, coordVars
  <1>2. CASE Monitor \/ Broker \/ Operator \/ Advance \/ AttachMonitor
    <2>1. /\ UNCHANGED <<accepted, armed, ledger.pendingBuy>>
          /\ pc' = "accept" <=> pc = "accept"
          /\ Filled(ledger') = Filled(ledger)
      BY <1>2, OthersKeepBuySide DEF BuySide
    <2> QED
      BY <2>1
  <1>3. ~SubmitRaises
    BY DEF SubmitRaises
  <1> QED
    BY <1>1, <1>2, <1>3, DurableStart, DurableHandlers DEF Next, Coordinator

(* Accepted BUYs and unsent ones form an inductive invariant, if calls of  *)
(* the port return.                                                        *)
LEMMA DurableInductive ==
  ASSUME PortRaises = FALSE
  PROVE  Spec => []DurableInv
  <1>1. Init => DurableInv
    BY DEF Init, PortInit, NoCoordinator, DurableInv, UnsentInv,
       AcceptedIsDurable
  <1>2. TypeInv /\ IntentInv /\ DurableInv /\ [Next]_vars => DurableInv'
    BY DurableStep
  <1> QED
    BY <1>1, <1>2, TypeInductive, IntentInductive, PTL DEF Spec

(* As long as every call of the port answers, a BUY that the broker has    *)
(* accepted is never forgotten, for any number of crashes, candles and     *)
(* trades: recovery by client order id finds it (live.py:88-103, 222-225). *)
THEOREM DurableBuy == PortRaises = FALSE /\ Spec => []AcceptedIsDurable
  <1> SUFFICES ASSUME PortRaises = FALSE PROVE Spec => []AcceptedIsDurable
    OBVIOUS
  <1>1. DurableInv => AcceptedIsDurable
    BY DEF DurableInv
  <1> QED
    BY <1>1, DurableInductive, PTL

-----------------------------------------------------------------------------
(* The kill switch *)

(* Every append but the two of the kill switch leaves it alone.            *)
LEMMA AppendsKeepHalted ==
  ASSUME TypeInv
  PROVE  /\ \A s, t : BuyIntent(ledger, s, t).halted = ledger.halted
         /\ \A s, t : BuyFilled(ledger, s, t).halted = ledger.halted
         /\ \A t : BuyDropped(ledger, t).halted = ledger.halted
         /\ \A c, t : CloseIntent(ledger, c, t).halted = ledger.halted
         /\ \A c, t : PositionClosed(ledger, c, t).halted = ledger.halted
         /\ \A t : KillSwitchOn(ledger, t).halted
         /\ \A t : ~KillSwitchOff(ledger, t).halted
  BY DEF TypeInv, TypeOK, ProcessTypeOK, Ledgers, BuyIntent, BuyFilled,
     BuyDropped, CloseIntent, PositionClosed, KillSwitchOn, KillSwitchOff, Stamp

(* When only the runtime engages the switch, it is halted itself before a  *)
(* BUY can go out (live.py:81-85, 167).                                    *)
LEMMA HaltStep ==
  ASSUME TypeInv, HaltInv, OperatorHalts = FALSE, [Next]_vars
  PROVE  HaltInv' /\ (ledger.halted => accepted' = accepted)
  <1> USE AppendsKeepHalted DEF HaltInv
  <1>1. CASE UNCHANGED vars
    BY <1>1 DEF vars, portVars, coordVars
  <1>2. CASE Start \/ StartMonitor \/ AttachMonitor \/ Crash \/ Advance
    BY <1>2 DEF Start, NewCoordinator, StartMonitor, AttachMonitor, Crash,
       Advance, portVars, coordVars
  <1>3. CASE Coordinator
    <2>1. CASE ReconcileStartup \/ RecoverPendingBuy \/ Heartbeat
      <3>1. CASE ReconcileStartup
        BY <3>1 DEF ReconcileStartup, HaltCoordinator, portVars
      <3>2. CASE RecoverPendingBuy
        BY <3>2 DEF RecoverPendingBuy, Rearm, AcceptReceipt, portVars
      <3>3. CASE Heartbeat
        BY <3>3 DEF Heartbeat, HaltCoordinator, portVars
      <3> QED
        BY <2>1, <3>1, <3>2, <3>3
    <2>2. CASE \E e \in CandleEnds : CompletedCandle(e)
      BY <2>2 DEF CompletedCandle, Arm, portVars
    <2>3. CASE \E zone \in Zones, wideSpread \in BOOLEAN : Tick(zone, wideSpread)
      BY <2>3 DEF Tick, TakesTicks, DropArmed, portVars
    <2>4. CASE Submit \/ SubmitRaises
      <3>1. ~ledger.halted /\ UNCHANGED <<ledger, halted>> /\ pc' # "submit"
        BY <2>4 DEF Submit, SubmitRaises, coordVars
      <3> QED
        BY <3>1
    <2>5. CASE AcceptSubmitted
      BY <2>5 DEF AcceptSubmitted, AcceptReceipt, portVars
    <2> QED
      BY <1>3, <2>1, <2>2, <2>3, <2>4, <2>5 DEF Coordinator
  <1>4. CASE Monitor
    <2>1. UNCHANGED <<halted, accepted>> /\ pc # "down" /\ pc' # "submit"
      BY <1>4, OthersKeepBuySide DEF BuySide, Monitor, RecoverPendingClose,
         Price, SendClose, SendCloseRaises, RecordSentClose
    <2>2. ledger'.halted = ledger.halted
      BY <1>4 DEF Monitor, RecoverPendingClose, Price, SendClose,
         SendCloseRaises, RecordSentClose, RecordClose, monitorVars
    <2> QED
      BY <2>1, <2>2
  <1>5. CASE Broker \/ Operator
    <2>1. UNCHANGED <<halted, accepted, pc>>
      BY <1>5, OthersKeepBuySide DEF BuySide, Broker, Operator
    <2>2. ledger'.halted => ledger.halted
      BY <1>5 DEF Broker, Operator
    <2> QED
      BY <2>1, <2>2
  <1> QED
    BY <1>1, <1>2, <1>3, <1>4, <1>5 DEF Next

(* If only the runtime's heartbeat engages it, the persisted kill switch   *)
(* stops every BUY until the operator releases it and the process is       *)
(* started again (live.py:62, 81-85; safety.py:17-27).                     *)
THEOREM HaltIsHeld == OperatorHalts = FALSE /\ Spec => HaltBlocksBuy
  <1> SUFFICES ASSUME OperatorHalts = FALSE PROVE Spec => HaltBlocksBuy
    OBVIOUS
  <1>1. Init => HaltInv
    BY DEF Init, ProcessInit, HaltInv
  <1>2. TypeInv /\ HaltInv /\ [Next]_vars =>
          HaltInv' /\ (ledger.halted => accepted' = accepted)
    BY HaltStep
  <1>3. TypeInv /\ HaltInv /\ [Next]_vars =>
          [ledger.halted => accepted' = accepted]_vars
    BY <1>2
  <1> QED
    BY <1>1, <1>2, <1>3, TypeInductive, PTL DEF Spec, HaltBlocksBuy

-----------------------------------------------------------------------------
(* Only accepted BUYs are held, watched or sold *)

(* Accepted and sold orders stay so.                                       *)
LEMMA OrdersGrow ==
  ASSUME TypeInv, [Next]_vars
  PROVE  /\ \A s \in Setups : accepted[s] # None => accepted'[s] # None
         /\ \A c \in CloseIds : sold[c] # None => sold'[c] # None
  <1> USE DEF TypeInv, TypeOK, PortTypeOK, portVars
  <1>1. CASE UNCHANGED vars
    BY <1>1 DEF vars
  <1>2. CASE Start \/ StartMonitor \/ AttachMonitor \/ Crash \/ Advance \/ Operator
    BY <1>2 DEF Start, StartMonitor, AttachMonitor, Crash, Advance, Operator
  <1>3. CASE Broker
    BY <1>3 DEF Broker, FillBuy, ExecuteClose, BrokerExit
  <1>4. CASE Coordinator
    BY <1>4 DEF Coordinator, ReconcileStartup, RecoverPendingBuy,
       CompletedCandle, Tick, Submit, SubmitRaises, SubmitBuy,
       AcceptSubmitted, Heartbeat
  <1>5. CASE Monitor
    BY <1>5 DEF Monitor, RecoverPendingClose, Price, SendClose,
       SendCloseRaises, CloseLong, RecordSentClose
  <1> QED
    BY <1>1, <1>2, <1>3, <1>4, <1>5 DEF Next

(* A step names only accepted BUYs as position, as monitored or as sold.   *)
LEMMA BoughtStep ==
  ASSUME TypeInv, BoughtInv, [Next]_vars
  PROVE  BoughtInv'
  <1>1. \/ ledger'.position \in {ledger.position, None}
        \/ /\ ledger'.position \in Setups
           /\ accepted[ledger'.position] # None
    <2> USE DEF TypeInv, TypeOK, ProcessTypeOK
    <2> ledger \in LiveLedgers /\ now \in Times
      BY DEF LiveLedgers
    <2>1. CASE UNCHANGED ledger
      BY <2>1
    <2>2. CASE Operator \/ Heartbeat
      BY <2>2, KillSwitchLedger DEF Operator, Heartbeat
    <2>3. CASE RecoverPendingBuy
      <3>1. ledger.pendingBuy \in Setups \cup {None}
        BY SetupsAreNat
      <3>2. CASE /\ ledger.pendingBuy # None
                 /\ accepted[ledger.pendingBuy] # None
                 /\ AcceptReceipt(ledger.pendingBuy)
        BY <3>1, <3>2, AcceptReceiptType
      <3> QED
        BY <2>1, <2>3, <3>2 DEF RecoverPendingBuy, Rearm, FoundAtBroker
    <2>4. CASE \E e \in CandleEnds : CompletedCandle(e)
      BY <2>4, BuyIntentLedger, PortAssumption DEF CompletedCandle, Arm, Setups
    <2>5. CASE \E zone \in Zones, wideSpread \in BOOLEAN : Tick(zone, wideSpread)
      BY <2>5, BuyDroppedLedger DEF Tick, DropArmed
    <2>6. CASE AcceptSubmitted
      <3>1. armed \in Setups /\ accepted[armed] # None /\ AcceptReceipt(armed)
        BY <2>6 DEF AcceptSubmitted, LocalsInv, CoordinatorTypeOK
      <3> QED
        BY <3>1, AcceptReceiptType
    <2>7. CASE Monitor
      <3>1. \A r \in Results : monitor # "off" => CloseId(r) \in CloseIds
        BY DEF LocalsInv, MonitorTypeOK, CloseId, CloseIds
      <3>2. CASE \E c \in CloseIds : sold[c] # None /\ RecordClose(c)
        BY <3>2, RecordCloseType
      <3>3. CASE \E zone \in PriceZones, sessionEnd \in BOOLEAN :
                   Price(zone, sessionEnd)
        <4> PICK zone \in PriceZones, sessionEnd \in BOOLEAN :
                   Price(zone, sessionEnd)
          BY <3>3
        <4> DEFINE c == CloseId(ExitResult(zone, sessionEnd))
        <4>1. ExitResult(zone, sessionEnd) \in Results
          BY DEF Price, ExitResult, PriceZones, Results
        <4>2. c \in CloseIds
          BY <3>1, <4>1 DEF Price
        <4>3. CASE ledger' = CloseIntent(ledger, c, now)
          BY <4>2, <4>3, CloseIntentLedger DEF CloseIds
        <4> QED
          BY <2>1, <3>2, <4>2, <4>3 DEF Price, CloseFound
      <3>4. CASE RecoverPendingClose
        BY <2>1, <3>1, <3>2, <3>4 DEF RecoverPendingClose, LocalsInv
      <3>5. CASE RecordSentClose
        BY <3>1, <3>2, <3>5 DEF RecordSentClose, LocalsInv, MonitorTypeOK
      <3> QED
        BY <2>1, <2>7, <3>3, <3>4, <3>5 DEF Monitor, SendClose, SendCloseRaises
    <2> QED
      BY <2>1, <2>2, <2>3, <2>4, <2>5, <2>6, <2>7
      DEF Next, vars, Start, StartMonitor, AttachMonitor, Crash, Coordinator,
          ReconcileStartup, Submit, SubmitRaises, Broker, Advance
  <1>2. monitored' \in {monitored, None, ledger.position}
    BY DEF Next, vars, Start, StartMonitor, AttachMonitor, NewMonitor, Crash,
       ForgetMonitor, Coordinator, Monitor, RecoverPendingClose, Price,
       SendClose, SendCloseRaises, RecordSentClose, Broker, Operator, Advance,
       monitorVars
  <1>3. \A c \in CloseIds : sold'[c] # sold[c] => c[1] = monitored /\ monitored # None
    <2>1. CASE SendClose \/ SendCloseRaises(PortRaises)
      <3>1. monitored # None
        BY <2>1 DEF SendClose, SendCloseRaises, TypeInv, LocalsInv
      <3>2. \A c \in CloseIds : sold'[c] # sold[c] => c = CloseId(exit)
        BY <2>1 DEF SendClose, SendCloseRaises, CloseLong, portVars,
           TypeInv, TypeOK, PortTypeOK
      <3> QED
        BY <3>1, <3>2 DEF CloseId
    <2>2. CASE ~(SendClose \/ SendCloseRaises(PortRaises))
      <3>1. UNCHANGED sold
        BY <2>2 DEF Next, vars, portVars, Start, StartMonitor, AttachMonitor,
           Crash, Coordinator, ReconcileStartup, RecoverPendingBuy,
           CompletedCandle, Tick, Submit, SubmitRaises, SubmitBuy,
           AcceptSubmitted, Heartbeat, Monitor, RecoverPendingClose, Price,
           RecordSentClose, Broker, FillBuy, ExecuteClose, BrokerExit,
           Operator, Advance
      <3> QED
        BY <3>1
    <2> QED
      BY <2>1, <2>2
  <1> QED
    BY <1>1, <1>2, <1>3, OrdersGrow, SetupsAreNat
    DEF BoughtInv, TypeInv, TypeOK, MonitorTypeOK, CloseIds, LiveLedgers, Ledgers

(* Positions, monitors and close orders only exist for BUYs the broker     *)
(* accepted.                                                               *)
LEMMA BoughtInductive == Spec => []BoughtInv
  <1>1. Init => BoughtInv
    BY DEF Init, ProcessInit, PortInit, NoMonitor, EmptyLedger, BoughtInv
  <1> QED
    BY <1>1, BoughtStep, TypeInductive, PTL DEF Spec

-----------------------------------------------------------------------------
(* What a step may append *)

(* The two stamps of a ledger after a line with this time.                 *)
Stamps(t) ==
  /\ ledger'.last = t
  /\ ledger'.latest = IF t > ledger.latest THEN t ELSE ledger.latest

(* What the ledger holds of BUYs, and of closes.                           *)
BuyFacts   == <<ledger.pendingBuy, ledger.intents, ledger.fills>>
CloseFacts == <<ledger.pendingClose, ledger.closed>>

(* No line, or one of the kill switch.                                     *)
Appends_Nothing ==
  /\ UNCHANGED <<BuyFacts, CloseFacts, ledger.position>>
  /\ UNCHANGED <<ledger.last, ledger.latest>> \/ Stamps(now)

(* BUY_INTENT of a setup that never had one (live.py:149-160).           *)
Appends_Intent(e) ==
  /\ e \notin ledger.intents /\ e <= now /\ pc = "idle"
  /\ ledger'.pendingBuy = e /\ ledger'.intents = ledger.intents \cup {e}
  /\ UNCHANGED <<ledger.fills, CloseFacts, ledger.position, monitorVars>>
  /\ UNCHANGED <<halted, pc>> /\ armed' = e
  /\ Stamps(e)

(* BUY_EXPIRED or BUY_CANCELLED (live.py:173-212).                         *)
Appends_Drop ==
  /\ ledger'.pendingBuy = None /\ armed' = None /\ pc = "idle" /\ pc' = pc
  /\ UNCHANGED <<ledger.intents, ledger.fills, CloseFacts, ledger.position>>
  /\ UNCHANGED <<monitorVars, halted>>
  /\ Stamps(now)

(* BUY_FILLED of the pending intent (live.py:240-249).                     *)
Appends_Fill(s) ==
  /\ ledger.pendingBuy = s /\ accepted[s] # None
  /\ \/ pc = "recoverBuy" /\ ~halted
     \/ pc = "accept" /\ armed = s
  /\ pc' \in {"idle", "monitor"}
  /\ ledger'.pendingBuy = None /\ ledger'.position = s
  /\ ledger'.fills = ledger.fills \cup {[buy |-> s, time |-> accepted[s]]}
  /\ UNCHANGED <<ledger.intents, CloseFacts, monitorVars, halted>>
  /\ armed' = None /\ trades' = trades + 1
  /\ Stamps(accepted[s])

(* LONG_CLOSE_INTENT of the watched position (position.py:108-114).        *)
Appends_CloseIntent(c) ==
  /\ monitor = "watching" /\ c[1] = monitored /\ monitored # None
  /\ ledger.pendingClose \in {None, c} /\ ledger'.pendingClose = c
  /\ pc = "idle" /\ pc' = "close" /\ c = CloseId(exit')
  /\ UNCHANGED <<BuyFacts, ledger.closed, ledger.position, monitor, monitored>>
  /\ Stamps(now)

(* POSITION_CLOSED of the pending close (position.py:133-140).             *)
Appends_Close(c) ==
  /\ ledger.pendingClose = c /\ sold[c] # None
  /\ ledger'.pendingClose = None /\ ledger'.closed = ledger.closed \cup {c}
  /\ ledger'.position = None
  /\ monitor' = "closed" /\ pc' = "idle"
  /\ UNCHANGED <<BuyFacts, monitored>>
  /\ Stamps(sold[c])

(* Every append stamps the ledger with its own time (ledger.py:27-32).     *)
LEMMA AppendStamps ==
  ASSUME TypeInv
  PROVE  /\ \A s, t : ledger' = BuyIntent(ledger, s, t) => Stamps(t)
         /\ \A s, t : ledger' = BuyFilled(ledger, s, t) => Stamps(t)
         /\ \A t : ledger' = BuyDropped(ledger, t) => Stamps(t)
         /\ \A c, t : ledger' = CloseIntent(ledger, c, t) => Stamps(t)
         /\ \A c, t : ledger' = PositionClosed(ledger, c, t) => Stamps(t)
         /\ \A t : ledger' = KillSwitchOn(ledger, t) => Stamps(t)
         /\ \A t : ledger' = KillSwitchOff(ledger, t) => Stamps(t)
  BY DEF TypeInv, TypeOK, ProcessTypeOK, Ledgers, BuyIntent, BuyFilled,
     BuyDropped, CloseIntent, PositionClosed, KillSwitchOn, KillSwitchOff,
     Stamp, Stamps

(* The lines the coordinator appends (live.py:88-103, 134, 167-225).       *)
LEMMA CoordinatorAppends ==
  ASSUME TypeInv, IntentInv, Coordinator
  PROVE  \/ Appends_Nothing
         \/ \E e \in Setups : Appends_Intent(e)
         \/ Appends_Drop
         \/ \E s \in Setups : Appends_Fill(s)
  <1> USE DEF BuyFacts, CloseFacts
  <1>1. ledger \in LiveLedgers /\ now \in Times
    BY DEF TypeInv, TypeOK, ProcessTypeOK, LiveLedgers
  <1>2. CASE UNCHANGED ledger
    BY <1>2 DEF Appends_Nothing
  <1>3. CASE Heartbeat
    BY <1>1, <1>2, <1>3, KillSwitchLedger, AppendStamps
    DEF Heartbeat, Appends_Nothing
  <1>4. CASE \E e \in CandleEnds : CompletedCandle(e)
    <2> PICK e \in CandleEnds : CompletedCandle(e)
      BY <1>4
    <2>1. e \in Setups /\ e \in Times /\ lastCandle < e /\ e <= now
      BY PortAssumption DEF Setups, CompletedCandle
    <2>2. pc = "idle" /\ UNCHANGED <<pc, halted>> /\ UNCHANGED monitorVars
      BY <1>4 DEF CompletedCandle, Coordinator
    <2>3. CASE Arm(e)
      <3>1. e \notin ledger.intents
        BY <2>1, <2>2, SetupsAreNat DEF IntentInv
      <3>2. ledger' = BuyIntent(ledger, e, e) /\ armed' = e
        BY <2>3 DEF Arm
      <3>3. Stamps(e)
        BY <3>2, AppendStamps
      <3>4. /\ ledger'.pendingBuy = e
            /\ ledger'.intents = ledger.intents \cup {e}
            /\ UNCHANGED <<ledger.fills, CloseFacts, ledger.position>>
        BY <1>1, <2>1, <3>2, BuyIntentLedger
      <3>5. Appends_Intent(e)
        BY <2>1, <2>2, <3>1, <3>2, <3>3, <3>4 DEF Appends_Intent
      <3> QED
        BY <2>1, <3>5
    <2> QED
      BY <1>2, <2>3 DEF CompletedCandle
  <1>5. CASE \E zone \in Zones, wideSpread \in BOOLEAN : Tick(zone, wideSpread)
    <2>1. pc = "idle" /\ UNCHANGED halted /\ UNCHANGED monitorVars
      BY <1>5 DEF Tick, Coordinator
    <2>2. UNCHANGED ledger \/ DropArmed
      BY <1>5 DEF Tick
    <2>3. CASE DropArmed
      BY <1>1, <2>1, <2>3, BuyDroppedLedger, AppendStamps
      DEF DropArmed, Appends_Drop
    <2> QED
      BY <1>2, <2>2, <2>3
  <1>6. ASSUME NEW s \in Setups, accepted[s] # None, ledger.pendingBuy = s,
               AcceptReceipt(s), UNCHANGED monitorVars, UNCHANGED halted,
               pc' \in {"idle", "monitor"},
               \/ pc = "recoverBuy" /\ ~halted
               \/ pc = "accept" /\ armed = s
        PROVE  Appends_Fill(s)
    <2>1. ledger' = BuyFilled(ledger, s, accepted[s]) /\ accepted[s] \in Times
      BY <1>6, AcceptReceiptType
    <2>2. /\ ledger'.fills = ledger.fills \cup {[buy |-> s, time |-> accepted[s]]}
      BY <1>1, <1>6, <2>1, BuyFilledLedger
    <2>3. /\ ledger'.pendingBuy = None /\ ledger'.position = s
          /\ UNCHANGED <<ledger.intents, CloseFacts>>
          /\ armed' = None /\ trades' = trades + 1
      BY <1>6, AcceptReceiptType
    <2>4. Stamps(accepted[s])
      BY <2>1, AppendStamps
    <2> QED
      BY <1>6, <2>2, <2>3, <2>4 DEF Appends_Fill
  <1>7. CASE RecoverPendingBuy
    <2>1. CASE ~halted /\ ledger.pendingBuy # None /\
               accepted[ledger.pendingBuy] # None /\
               AcceptReceipt(ledger.pendingBuy)
      <3> PICK s \in Setups : s = ledger.pendingBuy
        BY <2>1, SetupsAreNat
      <3> QED
        BY <1>6, <1>7, <2>1 DEF RecoverPendingBuy, Coordinator
    <2> QED
      BY <1>2, <1>7, <2>1 DEF RecoverPendingBuy, Rearm, FoundAtBroker
  <1>8. CASE AcceptSubmitted
    <2> PICK s \in Setups : s = armed
      BY <1>8 DEF AcceptSubmitted, TypeInv, TypeOK, CoordinatorTypeOK, LocalsInv
    <2>1. accepted[s] # None /\ ledger.pendingBuy = s /\ pc = "accept"
      BY <1>8, SetupsAreNat DEF AcceptSubmitted, TypeInv, LocalsInv, IntentInv
    <2> QED
      BY <1>6, <1>8, <2>1 DEF AcceptSubmitted, Coordinator
  <1> QED
    BY <1>2, <1>3, <1>4, <1>5, <1>7, <1>8
    DEF Coordinator, ReconcileStartup, Submit, SubmitRaises

(* The lines the monitor appends (position.py:41-64, 79-131).              *)
LEMMA MonitorAppends ==
  ASSUME TypeInv, CloseInv, Monitor
  PROVE  \/ Appends_Nothing
         \/ \E c \in CloseIds : Appends_CloseIntent(c) \/ Appends_Close(c)
  <1> USE DEF BuyFacts, CloseFacts
  <1>1. ledger \in LiveLedgers /\ now \in Times
    BY DEF TypeInv, TypeOK, ProcessTypeOK, LiveLedgers
  <1>2. CASE UNCHANGED ledger
    BY <1>2 DEF Appends_Nothing
  <1>3. \A r \in Results : monitor # "off" => CloseId(r) \in CloseIds
    BY DEF TypeInv, TypeOK, LocalsInv, MonitorTypeOK, CloseId, CloseIds
  <1>4. ASSUME NEW c \in CloseIds, sold[c] # None, RecordClose(c),
               ledger.pendingClose = c, pc' = "idle", UNCHANGED monitored
        PROVE  Appends_Close(c)
    BY <1>4, RecordCloseType, AppendStamps DEF RecordClose, Appends_Close
  <1>5. CASE RecoverPendingClose
    <2> DEFINE c == ledger.pendingClose
    <2>1. CASE c \in {CloseId(r) : r \in Results} /\ sold[c] # None
               /\ RecordClose(c)
      <3>1. c \in CloseIds
        BY <1>3, <1>5, <2>1 DEF RecoverPendingClose, TypeInv, LocalsInv
      <3> QED
        BY <1>4, <1>5, <2>1, <3>1 DEF RecoverPendingClose
    <2> QED
      BY <1>2, <1>5, <2>1 DEF RecoverPendingClose
  <1>6. CASE RecordSentClose
    <2>1. /\ CloseId(exit) \in CloseIds /\ sold[CloseId(exit)] # None
          /\ ledger.pendingClose = CloseId(exit)
      BY <1>3, <1>6
      DEF RecordSentClose, TypeInv, TypeOK, LocalsInv, MonitorTypeOK, CloseInv
    <2> QED
      BY <1>4, <1>6, <2>1 DEF RecordSentClose
  <1>7. CASE \E zone \in PriceZones, sessionEnd \in BOOLEAN :
               Price(zone, sessionEnd)
    <2> PICK zone \in PriceZones, sessionEnd \in BOOLEAN :
               Price(zone, sessionEnd)
      BY <1>7
    <2> DEFINE r == ExitResult(zone, sessionEnd)
               c == CloseId(r)
    <2>1. r \in Results
      BY DEF Price, ExitResult, PriceZones, Results
    <2>2. /\ pc = "idle" /\ monitor = "watching" /\ c \in CloseIds
          /\ UNCHANGED <<now, monitored>>
      BY <1>3, <2>1 DEF Price
    <2>3. CASE CloseFound(c) /\ RecordClose(c) /\ UNCHANGED <<pc, exit>>
      <3>1. sold[c] # None /\ ledger.pendingClose = c
        BY <2>3 DEF CloseFound
      <3> QED
        BY <1>4, <2>2, <2>3, <3>1
    <2>4. CASE /\ ~OtherClosePending(c)
               /\ ledger' = CloseIntent(ledger, c, now)
               /\ exit' = r /\ pc' = "close" /\ UNCHANGED monitor
      <3>1. /\ ledger'.pendingClose = c
            /\ UNCHANGED <<BuyFacts, ledger.closed, ledger.position>>
        BY <1>1, <2>2, <2>4, CloseIntentLedger DEF CloseIds
      <3>2. Stamps(now)
        BY <2>4, AppendStamps
      <3>3. c = CloseId(exit')
        BY <2>2, <2>4 DEF CloseId
      <3>4. ledger.pendingClose \in {None, c}
        BY <2>4 DEF OtherClosePending
      <3>5. c[1] = monitored /\ monitored # None
        BY <2>2 DEF CloseId, TypeInv, LocalsInv
      <3>6. Appends_CloseIntent(c)
        <4> HIDE DEF c, r
        <4> QED
          BY <2>2, <2>4, <3>1, <3>2, <3>3, <3>4, <3>5 DEF Appends_CloseIntent
      <3> QED
        BY <2>2, <3>6
    <2> QED
      BY <1>2, <2>3, <2>4 DEF Price
  <1> QED
    BY <1>2, <1>5, <1>6, <1>7 DEF Monitor, SendClose, SendCloseRaises

(* Every step appends at most one line, of one of these kinds.             *)
LEMMA StepAppends ==
  ASSUME TypeInv, IntentInv, CloseInv, [Next]_vars
  PROVE  \/ Appends_Nothing
         \/ \E e \in Setups : Appends_Intent(e)
         \/ Appends_Drop
         \/ \E s \in Setups : Appends_Fill(s)
         \/ \E c \in CloseIds : Appends_CloseIntent(c) \/ Appends_Close(c)
  <1>1. CASE UNCHANGED ledger
    BY <1>1 DEF Appends_Nothing, BuyFacts, CloseFacts
  <1>2. CASE Operator
    BY <1>2, KillSwitchLedger, AppendStamps
    DEF Operator, Appends_Nothing, BuyFacts, CloseFacts,
        TypeInv, TypeOK, ProcessTypeOK, LiveLedgers
  <1> QED
    BY <1>1, <1>2, CoordinatorAppends, MonitorAppends
    DEF Next, vars, Start, StartMonitor, AttachMonitor, Crash, Broker, Advance

-----------------------------------------------------------------------------
(* Positions are closed once *)

(* A monitor is kept, made anew for the ledger's position, or stopped.     *)
LEMMA MonitorMoves ==
  ASSUME TypeInv, [Next]_vars
  PROVE  /\ \/ UNCHANGED <<monitor, monitored>>
            \/ monitored' = ledger.position /\ UNCHANGED ledger
            \/ monitor' # "watching" /\ monitored' \in {monitored, None}
         /\ pc' \in {"close", "recordClose"} =>
              \/ pc = "idle"
              \/ pc \in {"close", "recordClose"} /\ UNCHANGED <<monitored, exit>>
  BY DEF Next, vars, Start, StartMonitor, AttachMonitor, NewMonitor, Crash,
     ForgetMonitor, Coordinator, ReconcileStartup, RecoverPendingBuy,
     CompletedCandle, Tick, DropArmed, Submit, SubmitRaises, AcceptSubmitted,
     Heartbeat, Monitor, RecoverPendingClose, RecordClose, Price, SendClose,
     SendCloseRaises, RecordSentClose, Broker, Operator, Advance, monitorVars

(* A close order is accepted only while the ledger waits for it.           *)
LEMMA SoldMoves ==
  ASSUME TypeInv, [Next]_vars
  PROVE  \/ UNCHANGED sold
         \/ /\ pc = "close" /\ UNCHANGED ledger
            /\ \A c \in CloseIds : sold'[c] # sold[c] => c = CloseId(exit)
            /\ \A c \in CloseIds : sold'[c] \in {sold[c], now}
  <1>1. CASE SendClose \/ SendCloseRaises(PortRaises)
    BY <1>1 DEF SendClose, SendCloseRaises, CloseLong, portVars,
       TypeInv, TypeOK, PortTypeOK
  <1>2. CASE ~(SendClose \/ SendCloseRaises(PortRaises))
    BY <1>2 DEF Next, vars, portVars, Start, StartMonitor, AttachMonitor,
       Crash, Coordinator, ReconcileStartup, RecoverPendingBuy,
       CompletedCandle, Tick, Submit, SubmitRaises, SubmitBuy,
       AcceptSubmitted, Heartbeat, Monitor, RecoverPendingClose, Price,
       RecordSentClose, Broker, FillBuy, ExecuteClose, BrokerExit,
       Operator, Advance
  <1> QED
    BY <1>1, <1>2

(* A step fills a setup only from its pending intent, and holds, watches   *)
(* and closes only filled setups.                                          *)
LEMMA FilledStep ==
  ASSUME TypeInv, IntentInv, CloseInv, FilledInv, [Next]_vars
  PROVE  FilledInv'
  <1> USE SetupsAreNat DEF FilledInv, BuyFacts, CloseFacts
  <1> DEFINE Holds ==
    /\ Filled(ledger') \subseteq ledger'.intents
    /\ ledger'.pendingBuy \notin Filled(ledger')
    /\ ledger'.position \in Filled(ledger') \cup {None}
    /\ ledger'.pendingClose # None => ledger'.pendingClose[1] \in Filled(ledger')
    /\ \A c \in ledger'.closed : c[1] \in Filled(ledger')
    /\ Filled(ledger) \subseteq Filled(ledger')
  <1>1. Holds
    <2>1. CASE Appends_Nothing
      BY <2>1 DEF Appends_Nothing, Filled
    <2>2. CASE \E e \in Setups : Appends_Intent(e)
      BY <2>2 DEF Appends_Intent, Filled
    <2>3. CASE Appends_Drop
      <3>1. None \notin Filled(ledger)
        BY DEF TypeInv, TypeOK, ProcessTypeOK, LiveLedgers, Ledgers, Filled
      <3> QED
        BY <2>3, <3>1 DEF Appends_Drop, Filled
    <2>4. CASE \E s \in Setups : Appends_Fill(s)
      <3> PICK s \in Setups : Appends_Fill(s)
        BY <2>4
      <3> DEFINE f == [buy |-> s, time |-> accepted[s]]
      <3>1. ledger'.fills = ledger.fills \cup {f} /\ f.buy = s
        BY DEF Appends_Fill
      <3> HIDE DEF f
      <3>2. Filled(ledger') = Filled(ledger) \cup {s}
        BY <3>1 DEF Filled
      <3>3. s \in ledger.intents /\ s = ledger.pendingBuy
        BY DEF Appends_Fill, IntentInv
      <3>4. /\ ledger'.pendingBuy = None /\ ledger'.position = s
            /\ UNCHANGED <<ledger.intents, CloseFacts>>
        BY DEF Appends_Fill
      <3>5. None \notin Filled(ledger)
        BY DEF TypeInv, TypeOK, ProcessTypeOK, LiveLedgers, Ledgers, Filled
      <3> QED
        BY <3>2, <3>3, <3>4, <3>5
    <2>5. CASE \E c \in CloseIds : Appends_CloseIntent(c)
      BY <2>5 DEF Appends_CloseIntent, Filled
    <2>6. CASE \E c \in CloseIds : Appends_Close(c)
      <3> PICK c \in CloseIds : Appends_Close(c)
        BY <2>6
      <3>1. c # None
        BY PortAssumption
      <3> QED
        BY <3>1 DEF Appends_Close, Filled
    <2> QED
      BY <2>1, <2>2, <2>3, <2>4, <2>5, <2>6, StepAppends
  <1>2. monitored' \in Filled(ledger') \cup {None}
    BY <1>1, MonitorMoves
  <1> QED
    BY <1>1, <1>2

(* A close is on its way once: the pending close is the only one, and its  *)
(* record ends the position and its monitor (position.py:86-131).          *)
LEMMA CloseStep ==
  ASSUME TypeInv, IntentInv, FilledInv, CloseInv, [Next]_vars
  PROVE  CloseInv'
  <1> USE SetupsAreNat
  <1>1. (pc \in {"close", "recordClose"} =>
           ledger.pendingClose = CloseId(exit))'
    <2> SUFFICES ASSUME pc' \in {"close", "recordClose"}
                 PROVE  ledger'.pendingClose = CloseId(exit)'
      BY DEF CloseId
    <2>1. CASE pc = "idle"
      <3>1. PICK zone \in PriceZones, sessionEnd \in BOOLEAN :
                   Price(zone, sessionEnd)
        BY <2>1
        DEF Next, vars, Start, StartMonitor, AttachMonitor, Crash, Coordinator,
            ReconcileStartup, RecoverPendingBuy, CompletedCandle, Tick, DropArmed,
            Submit, SubmitRaises, AcceptSubmitted, Heartbeat, Monitor,
            RecoverPendingClose, SendClose, SendCloseRaises,
            RecordSentClose, Broker, Operator, Advance
      <3> DEFINE c == CloseId(ExitResult(zone, sessionEnd))
      <3>2. ledger' = CloseIntent(ledger, c, now) /\ c = CloseId(exit)'
        BY <2>1, <3>1 DEF Price, CloseId
      <3> HIDE DEF c
      <3>3. ledger'.pendingClose = c
        BY <3>2 DEF CloseIntent, Stamp, TypeInv, TypeOK, ProcessTypeOK, Ledgers
      <3> QED
        BY <3>2, <3>3
    <2>2. CASE pc \in {"close", "recordClose"} /\ UNCHANGED <<monitored, exit>>
      <3>1. UNCHANGED ledger.pendingClose
        BY <2>2, StepAppends
        DEF Appends_Nothing, Appends_Intent, Appends_Drop, Appends_Fill,
            Appends_CloseIntent, Appends_Close, CloseFacts
      <3> QED
        BY <2>2, <3>1 DEF CloseInv, CloseId
    <2> QED
      BY <2>1, <2>2, MonitorMoves
  <1> DEFINE Once(l, m, w) ==
    \A c \in l.closed :
      /\ c[1] # l.position
      /\ m = "watching" => c[1] # w
      /\ l.pendingClose # None => c[1] # l.pendingClose[1]
      /\ \A d \in l.closed : c[1] = d[1] => c = d
  <1>2. Once(ledger, monitor, monitored)
    BY DEF CloseInv
  <1>3. /\ \A c \in CloseIds : sold[c] # None =>
               c \in ledger'.closed \/ ledger'.pendingClose = c
        /\ ledger.closed \subseteq ledger'.closed
    <2>0. \A c \in CloseIds : c # None
      BY PortAssumption
    <2> USE <2>0 DEF CloseInv, AcceptedCloseIsDurable, CloseFacts
    <2>1. CASE \/ Appends_Nothing \/ Appends_Drop
               \/ \E e \in Setups : Appends_Intent(e) \/ Appends_Fill(e)
      BY <2>1 DEF Appends_Nothing, Appends_Drop, Appends_Intent, Appends_Fill
    <2>2. CASE \E c \in CloseIds : Appends_CloseIntent(c)
      BY <2>2 DEF Appends_CloseIntent
    <2>3. CASE \E c \in CloseIds : Appends_Close(c)
      BY <2>3 DEF Appends_Close
    <2> QED
      BY <2>1, <2>2, <2>3, StepAppends
  <1>4. \A c \in CloseIds : sold'[c] # None =>
               c \in ledger'.closed \/ ledger'.pendingClose = c
    <2>1. CASE UNCHANGED sold
      BY <1>3, <2>1
    <2>2. CASE /\ pc = "close" /\ UNCHANGED ledger
               /\ \A c \in CloseIds : sold'[c] # sold[c] => c = CloseId(exit)
      BY <1>3, <2>2 DEF CloseInv
    <2> QED
      BY <2>1, <2>2, SoldMoves
  <1>5. Once(ledger', monitor', monitored')
    <2>0. /\ \A c \in ledger.closed : c[1] \in Filled(ledger) /\ c[1] # None
          /\ \A c \in CloseIds : c # None /\ c[1] # None
      BY PortAssumption
      DEF CloseIds, TypeInv, TypeOK, ProcessTypeOK, LiveLedgers, Ledgers, FilledInv
    <2>1. CASE ~\E c \in CloseIds : Appends_CloseIntent(c) \/ Appends_Close(c)
      <3>1. /\ UNCHANGED CloseFacts
            /\ ledger'.position = ledger.position
               \/ ledger'.position \notin Filled(ledger)
        BY <2>1, StepAppends
        DEF Appends_Nothing, Appends_Drop, Appends_Intent, Appends_Fill, FilledInv
      <3>2. monitor' = "watching" =>
              monitored' = ledger.position \/ UNCHANGED <<monitor, monitored>>
        BY MonitorMoves
      <3> QED
        BY <1>2, <2>0, <3>1, <3>2 DEF CloseFacts
    <2>2. CASE \E c \in CloseIds : Appends_CloseIntent(c)
      BY <1>2, <2>2 DEF Appends_CloseIntent
    <2>3. CASE \E c \in CloseIds : Appends_Close(c)
      BY <1>2, <2>0, <2>3 DEF Appends_Close
    <2> QED
      BY <2>1, <2>2, <2>3
  <1> QED
    BY <1>1, <1>4, <1>5 DEF CloseInv, AcceptedCloseIsDurable

(* Filled setups and closes form an inductive invariant.                   *)
LEMMA CloseInductive == Spec => [](FilledInv /\ CloseInv)
  <1>1. Init => FilledInv /\ CloseInv
    BY DEF Init, ProcessInit, PortInit, NoMonitor, EmptyLedger, Filled,
       FilledInv, CloseInv, AcceptedCloseIsDurable
  <1>2. TypeInv /\ IntentInv /\ FilledInv /\ CloseInv /\ [Next]_vars =>
          FilledInv' /\ CloseInv'
    BY FilledStep, CloseStep
  <1> QED
    BY <1>1, <1>2, TypeInductive, IntentInductive, PTL DEF Spec

(* A close the broker has accepted is recorded or still pending, so that   *)
(* recover_pending_close finds it after any crash, whether or not calls of *)
(* the port raise (position.py:41-64, 108-119).                            *)
THEOREM DurableClose == Spec => []AcceptedCloseIsDurable
  BY CloseInductive, PTL DEF CloseInv

(* A position is sold by at most one order, for any number of crashes,     *)
(* retries, exits and lost answers (position.py:97-118).                   *)
THEOREM SoldAtMostOnce == Spec => []SoldOnce
  <1>1. TypeInv /\ CloseInv => SoldOnce
    <2> SUFFICES ASSUME TypeInv, CloseInv, NEW s \in Setups
                 PROVE  Cardinality({r \in Results : sold[<<s, r>>] # None}) <= 1
      BY DEF SoldOnce
    <2> DEFINE Sales == {r \in Results : sold[<<s, r>>] # None}
    <2>1. \A q, r \in Sales : q = r
      <3> SUFFICES ASSUME NEW q \in Sales, NEW r \in Sales PROVE q = r
        OBVIOUS
      <3> DEFINE c == <<s, q>>
                 d == <<s, r>>
      <3>1. c \in CloseIds /\ d \in CloseIds /\ c # None /\ d # None
        BY PortAssumption DEF CloseIds
      <3>2. /\ c \in ledger.closed \/ ledger.pendingClose = c
            /\ d \in ledger.closed \/ ledger.pendingClose = d
        BY <3>1 DEF CloseInv, AcceptedCloseIsDurable
      <3>3. c[1] = d[1]
        OBVIOUS
      <3>4. c = d
        <4> HIDE DEF c, d
        <4> QED
          BY <3>1, <3>2, <3>3 DEF CloseInv
      <3> QED
        BY <3>4
    <2>2. CASE Sales = {}
      <3> HIDE DEF Sales
      <3>1. Cardinality(Sales) = 0
        BY <2>2, FS_EmptySet
      <3> QED
        BY <3>1 DEF Sales
    <2>3. CASE Sales # {}
      <3> PICK r \in Sales : TRUE
        BY <2>3
      <3>1. Sales = {r}
        BY <2>1
      <3> HIDE DEF Sales
      <3>2. Cardinality(Sales) = 1
        BY <3>1, FS_Singleton
      <3> QED
        BY <3>2 DEF Sales
    <2> QED
      BY <2>2, <2>3
  <1> QED
    BY <1>1, TypeInductive, CloseInductive, PTL

-----------------------------------------------------------------------------
(* Refinement of BuyLifecycle *)

(* The records a phase is read from.                                       *)
PhaseSide ==
  <<accepted, sold, ledger.pendingBuy, ledger.intents, Filled(ledger)>>

(* Where they do not change, no phase does.                                *)
LEMMA PhaseFrame ==
  ASSUME UNCHANGED PhaseSide
  PROVE  \A s \in Setups : Phase(s)' = Phase(s)
  BY DEF PhaseSide, Phase, Sold, Known

(* Where one phase changes as a move does, the move is a step.             *)
LEMMA PhaseMove ==
  ASSUME NEW e \in Setups, NEW from, NEW to,
         Phase(e) = from, Phase(e)' = to,
         \A s \in Setups \ {e} : Phase(s)' = Phase(s)
  PROVE  Lifecycle!Move(e, from, to)
  BY DEF Lifecycle!Move

(* An intent is written for a new setup while no other one is outstanding. *)
LEMMA ArmIntends ==
  ASSUME TypeInv, IntentInv, BoughtInv, NEW e \in CandleEnds,
         CompletedCandle(e), ~IgnoresCandles, Arm(e)
  PROVE  Lifecycle!Intend(e)
  <1>1. e \in Setups /\ e \in Times /\ lastCandle < e /\ pc = "idle"
    BY PortAssumption DEF Setups, CompletedCandle
  <1>2. UNCHANGED <<accepted, sold>>
    BY DEF CompletedCandle, portVars
  <1>3. ledger.pendingBuy = None
    BY <1>1 DEF IntentInv, Recovering, IgnoresCandles
  <1>4. e \notin ledger.intents /\ accepted[e] = None
    BY <1>1, SetupsAreNat DEF IntentInv
  <1>5. \A r \in Results : sold[<<e, r>>] = None
    BY <1>1, <1>4 DEF BoughtInv, CloseIds
  <1>6. /\ ledger'.pendingBuy = e
        /\ ledger'.intents = ledger.intents \cup {e}
        /\ Filled(ledger') = Filled(ledger)
    BY <1>1, SetupsAreNat, BuyIntentLedger DEF Arm, Filled
  <1>7. Phase(e) = "new" /\ Phase(e)' = "intended"
    BY <1>1, <1>2, <1>3, <1>4, <1>5, <1>6, SetupsAreNat DEF Phase, Sold
  <1>8. \A s \in Setups \ {e} : Phase(s)' = Phase(s)
    BY <1>1, <1>2, <1>3, <1>6, SetupsAreNat DEF Phase, Sold, Known
  <1>9. \A s \in Setups : Phase(s) # "intended"
    BY <1>3, SetupsAreNat DEF Phase
  <1> QED
    BY <1>1, <1>7, <1>8, <1>9, PhaseMove DEF Lifecycle!Intend

(* An armed intent is dropped; one whose order was accepted is armed only  *)
(* if a call of the port raised.                                           *)
LEMMA DropDrops ==
  ASSUME TypeInv, IntentInv, PortRaises \/ DurableInv, pc = "idle",
         UNCHANGED <<accepted, sold>>, DropArmed, NEW s \in Setups, s = armed
  PROVE  \/ Lifecycle!Drop(s) \/ Lifecycle!Orphan(s)
         \/ \A x \in Setups : Phase(x)' = Phase(x)
  <1>1. s # None /\ ledger.pendingBuy = s /\ s \in ledger.intents
    BY SetupsAreNat DEF IntentInv, TypeInv, TypeOK, CoordinatorTypeOK
  <1>2. /\ ledger'.pendingBuy = None /\ ledger'.intents = ledger.intents
        /\ Filled(ledger') = Filled(ledger)
    BY SetupsAreNat, BuyDroppedLedger
    DEF DropArmed, Filled, TypeInv, TypeOK, ProcessTypeOK
  <1>3. \A x \in Setups \ {s} : Phase(x)' = Phase(x)
    BY <1>1, <1>2, SetupsAreNat DEF Phase, Sold, Known
  <1>4. CASE Sold(s)
    BY <1>3, <1>4 DEF Phase, Sold
  <1>5. CASE ~Sold(s) /\ accepted[s] # None
    <2>1. PortRaises
      BY <1>1, <1>5 DEF DurableInv, UnsentInv
    <2>2. CASE s \in Filled(ledger)
      BY <1>2, <1>3, <1>5, <2>2 DEF Phase, Sold, Known
    <2>3. CASE s \notin Filled(ledger)
      <3>1. Phase(s) = "bought" /\ Phase(s)' = "orphaned"
        BY <1>1, <1>2, <1>5, <2>3 DEF Phase, Sold, Known
      <3> QED
        BY <1>1, <1>3, <2>1, <3>1, PhaseMove DEF Lifecycle!Orphan
    <2> QED
      BY <2>2, <2>3
  <1>6. CASE ~Sold(s) /\ accepted[s] = None
    <2>1. Phase(s) = "intended" /\ Phase(s)' = "dropped"
      BY <1>1, <1>2, <1>6, SetupsAreNat DEF Phase, Sold
    <2> QED
      BY <1>1, <1>3, <2>1, PhaseMove DEF Lifecycle!Drop
  <1> QED
    BY <1>4, <1>5, <1>6

(* An order is accepted for the outstanding intent, or was accepted before.*)
LEMMA SubmitBuys ==
  ASSUME TypeInv, IntentInv, BoughtInv, pc = "submit", UNCHANGED ledger,
         SubmitBuy(armed, now), NEW s \in Setups, s = armed
  PROVE  Lifecycle!Buy(s) \/ \A x \in Setups : Phase(x)' = Phase(x)
  <1>1. s # None /\ ledger.pendingBuy = s
    BY SetupsAreNat DEF IntentInv, Recovering, TypeInv, LocalsInv, TypeOK, CoordinatorTypeOK
  <1>2. CASE accepted[s] # None
    BY <1>2, PhaseFrame DEF SubmitBuy, PhaseSide
  <1>3. CASE accepted[s] = None
    <2>1. UNCHANGED sold /\ accepted' = [accepted EXCEPT ![s] = now]
      BY <1>3 DEF SubmitBuy
    <2>2. \A r \in Results : sold[<<s, r>>] = None
      BY <1>1, <1>3 DEF BoughtInv, CloseIds
    <2>3. accepted'[s] # None
      BY <1>1, <2>1, SetupsAreNat, PortAssumption
      DEF TypeInv, TypeOK, PortTypeOK
    <2>4. Phase(s) = "intended" /\ Phase(s)' = "bought"
      BY <1>1, <1>3, <2>1, <2>2, <2>3 DEF Phase, Sold, Known
    <2>5. \A x \in Setups \ {s} : Phase(x)' = Phase(x)
      BY <2>1 DEF Phase, Sold, Known, TypeInv, TypeOK, PortTypeOK
    <2> QED
      BY <1>1, <2>4, <2>5, PhaseMove DEF Lifecycle!Buy
  <1> QED
    BY <1>2, <1>3

(* A close is accepted for a setup that was bought and is not orphaned: it *)
(* is watched, so its fill is recorded.                                    *)
LEMMA CloseCloses ==
  ASSUME TypeInv, BoughtInv, FilledInv, UNCHANGED ledger,
         CloseLong(CloseId(exit), now),
         NEW m \in Setups, NEW r \in Results, m = monitored, r = exit
  PROVE  Lifecycle!Close(m) \/ \A x \in Setups : Phase(x)' = Phase(x)
  <1> DEFINE c == <<m, r>>
  <1>1. /\ c \in CloseIds /\ c = CloseId(exit) /\ accepted[m] # None
        /\ m \in Filled(ledger)
    BY SetupsAreNat DEF BoughtInv, FilledInv, CloseId, CloseIds
  <1>2. UNCHANGED accepted
    BY DEF CloseLong
  <1>3. CASE sold[c] # None
    BY <1>1, <1>2, <1>3, PhaseFrame DEF CloseLong, PhaseSide
  <1>4. CASE sold[c] = None
    <2>1. sold' = [sold EXCEPT ![c] = now]
      BY <1>1, <1>4 DEF CloseLong
    <2>2. sold'[<<m, r>>] # None
      BY <1>1, <2>1, SetupsAreNat, PortAssumption
      DEF TypeInv, TypeOK, PortTypeOK, CloseId
    <2>3. Phase(m)' = "closed"
      BY <1>1, <2>2 DEF Phase, Sold
    <2>4. Phase(m) \in {"bought", "closed"}
      BY <1>1 DEF Phase, Known
    <2>5. \A x \in Setups \ {m}, q \in Results :
            sold'[<<x, q>>] = sold[<<x, q>>]
      BY <2>1 DEF CloseId, CloseIds, TypeInv, TypeOK, PortTypeOK
    <2>6. \A x \in Setups \ {m} : Phase(x)' = Phase(x)
      BY <1>2, <2>5 DEF Phase, Sold, Known
    <2> QED
      BY <1>1, <2>3, <2>4, <2>6, PhaseMove DEF Lifecycle!Close
  <1> QED
    BY <1>3, <1>4

(* Every step of the runtime moves one setup, or none.                     *)
LEMMA LifecycleStep ==
  ASSUME TypeInv, IntentInv, BoughtInv, FilledInv, PortRaises \/ DurableInv,
         [Next]_vars
  PROVE  \/ \E s \in Setups : \/ Lifecycle!Intend(s) \/ Lifecycle!Drop(s)
                              \/ Lifecycle!Buy(s) \/ Lifecycle!Close(s)
                              \/ Lifecycle!Orphan(s)
         \/ \A s \in Setups : Phase(s)' = Phase(s)
  <1>1. CASE UNCHANGED vars
    BY <1>1, PhaseFrame DEF vars, portVars, PhaseSide
  <1>2. CASE \/ Start \/ StartMonitor \/ AttachMonitor \/ Crash \/ Advance
             \/ Broker \/ Operator
    <2>1. UNCHANGED PhaseSide
      BY <1>2, KillSwitchLedger, SetupsAreNat
      DEF PhaseSide, Filled, Start, StartMonitor, AttachMonitor, Crash, Advance, portVars,
          Broker, FillBuy, ExecuteClose, BrokerExit, Operator,
          TypeInv, TypeOK, ProcessTypeOK
    <2> QED
      BY <2>1, PhaseFrame
  <1>3. CASE ReconcileStartup \/ Heartbeat
    <2>1. UNCHANGED PhaseSide
      BY <1>3, KillSwitchLedger, SetupsAreNat
      DEF PhaseSide, Filled, ReconcileStartup, Heartbeat, portVars,
          TypeInv, TypeOK, ProcessTypeOK
    <2> QED
      BY <2>1, PhaseFrame
  <1>4. ASSUME NEW s \in Setups, accepted[s] # None, ledger.pendingBuy = s,
               AcceptReceipt(s), UNCHANGED portVars
        PROVE  \A x \in Setups : Phase(x)' = Phase(x)
    <2>1. /\ ledger'.pendingBuy = None /\ ledger'.intents = ledger.intents
          /\ Filled(ledger') = Filled(ledger) \cup {s}
      BY <1>4, AcceptReceiptType
    <2> QED
      BY <1>4, <2>1, SetupsAreNat DEF Phase, Sold, Known, portVars
  <1>5. CASE RecoverPendingBuy
    <2>1. CASE UNCHANGED ledger
      BY <1>5, <2>1, PhaseFrame DEF RecoverPendingBuy, portVars, PhaseSide
    <2>2. CASE /\ ledger.pendingBuy # None
               /\ accepted[ledger.pendingBuy] # None
               /\ AcceptReceipt(ledger.pendingBuy)
      <3> PICK s \in Setups : s = ledger.pendingBuy
        BY <2>2, SetupsAreNat
      <3> QED
        BY <1>4, <1>5, <2>2 DEF RecoverPendingBuy
    <2> QED
      BY <1>5, <2>1, <2>2 DEF RecoverPendingBuy, Rearm, FoundAtBroker
  <1>6. CASE \E e \in CandleEnds : CompletedCandle(e)
    <2> PICK e \in CandleEnds : CompletedCandle(e)
      BY <1>6
    <2>1. CASE UNCHANGED ledger
      BY <2>1, PhaseFrame DEF CompletedCandle, portVars, PhaseSide
    <2>2. CASE ~IgnoresCandles /\ Arm(e)
      BY <2>2, ArmIntends DEF Setups
    <2> QED
      BY <2>1, <2>2 DEF CompletedCandle
  <1>7. CASE \E zone \in Zones, wideSpread \in BOOLEAN : Tick(zone, wideSpread)
    <2>1. UNCHANGED <<accepted, sold>> /\ pc = "idle"
      BY <1>7 DEF Tick, portVars
    <2>2. CASE UNCHANGED ledger
      BY <2>1, <2>2, PhaseFrame DEF PhaseSide
    <2>3. CASE DropArmed /\ armed # None
      <3> PICK s \in Setups : s = armed
        BY <2>3 DEF TypeInv, TypeOK, CoordinatorTypeOK
      <3> QED
        BY <2>1, <2>3, DropDrops
    <2> QED
      BY <1>7, <2>2, <2>3 DEF Tick, TakesTicks
  <1>8. CASE Submit \/ SubmitRaises
    <2>1. pc = "submit" /\ UNCHANGED ledger
      BY <1>8 DEF Submit, SubmitRaises
    <2>2. CASE UNCHANGED portVars
      BY <2>1, <2>2, PhaseFrame DEF portVars, PhaseSide
    <2>3. CASE SubmitBuy(armed, now)
      <3> PICK s \in Setups : s = armed
        BY <2>1 DEF TypeInv, TypeOK, CoordinatorTypeOK, LocalsInv
      <3> QED
        BY <2>1, <2>3, SubmitBuys
    <2> QED
      BY <1>8, <2>2, <2>3 DEF Submit, SubmitRaises
  <1>9. CASE AcceptSubmitted
    <2>1. pc = "accept"
      BY <1>9 DEF AcceptSubmitted
    <2> PICK s \in Setups : s = armed
      BY <2>1 DEF TypeInv, TypeOK, CoordinatorTypeOK, LocalsInv
    <2> QED
      BY <1>4, <1>9, <2>1
      DEF AcceptSubmitted, TypeInv, LocalsInv, IntentInv, Recovering
  <1>10. CASE Monitor
    <2>1. CASE SendClose \/ SendCloseRaises(PortRaises)
      <3>1. UNCHANGED ledger /\ pc = "close"
        BY <2>1 DEF SendClose, SendCloseRaises
      <3>2. CASE UNCHANGED portVars
        BY <3>1, <3>2, PhaseFrame DEF portVars, PhaseSide
      <3>3. CASE CloseLong(CloseId(exit), now)
        <4> PICK m \in Setups : m = monitored
          BY <3>1 DEF TypeInv, TypeOK, MonitorTypeOK, LocalsInv
        <4> PICK r \in Results : r = exit
          BY <3>1 DEF TypeInv, TypeOK, MonitorTypeOK, LocalsInv
        <4> QED
          BY <3>1, <3>3, CloseCloses
      <3> QED
        BY <2>1, <3>2, <3>3 DEF SendClose, SendCloseRaises
    <2>2. CASE ~(SendClose \/ SendCloseRaises(PortRaises))
      <3>1. UNCHANGED <<accepted, sold>>
        BY <1>10, <2>2
        DEF Monitor, RecoverPendingClose, Price, RecordSentClose, portVars
      <3> QED
        BY <1>10, <3>1, OthersKeepBuySide, PhaseFrame DEF BuySide, PhaseSide
    <2> QED
      BY <2>1, <2>2
  <1> QED
    BY <1>1, <1>2, <1>3, <1>5, <1>6, <1>7, <1>8, <1>9, <1>10
    DEF Next, Coordinator

(* The runtime, crashes and recoveries included, implements the lifecycle: *)
(* one outstanding intent, no BUY without one, no BUY of a dropped setup,  *)
(* no close without a BUY.  Only if calls of the port may raise can it     *)
(* write off a BUY the broker has accepted (live.py:173-210); such a BUY   *)
(* is never bought again or sold (live.py, position.py, runtime.py).       *)
THEOREM ImplementsLifecycle == Spec => KeepsLifecycle
  <1>1. Init => Lifecycle!Init
    <2> SUFFICES ASSUME Init, NEW s \in Setups PROVE Phase(s) = "new"
      BY DEF Lifecycle!Init
    <2>1. None # s
      BY TypeInit, SetupsAreNat
    <2>2. ledger.pendingBuy = None /\ ledger.intents = {}
      BY DEF Init, ProcessInit, EmptyLedger
    <2>3. accepted[s] = None /\ \A r \in Results : sold[<<s, r>>] = None
      BY DEF Init, PortInit, CloseIds
    <2> QED
      BY <2>1, <2>2, <2>3 DEF Phase, Sold
  <1>2. TypeInv /\ IntentInv /\ BoughtInv /\ FilledInv
          /\ (PortRaises \/ DurableInv) /\ [Next]_vars =>
          [Lifecycle!Next]_([s \in Setups |-> Phase(s)])
    <2> SUFFICES ASSUME TypeInv, IntentInv, BoughtInv, FilledInv,
                        PortRaises \/ DurableInv, [Next]_vars
                 PROVE  \/ Lifecycle!Next
                        \/ UNCHANGED [s \in Setups |-> Phase(s)]
      OBVIOUS
    <2> QED
      BY LifecycleStep DEF Lifecycle!Next
  <1>3. CASE PortRaises
    BY <1>1, <1>2, <1>3, TypeInductive, IntentInductive, BoughtInductive,
       CloseInductive, PTL DEF Spec, KeepsLifecycle, Lifecycle!Spec
  <1>4. CASE PortRaises = FALSE
    BY <1>1, <1>2, <1>4, TypeInductive, IntentInductive, BoughtInductive,
       CloseInductive, DurableInductive, PTL
    DEF Spec, KeepsLifecycle, Lifecycle!Spec
  <1> QED
    BY <1>3, <1>4, CoordinatorAssumption

-----------------------------------------------------------------------------
(* No BUY over a long the ledger does not know *)

(* How a step may change the orders and the longs of the account.          *)
LEMMA AccountMoves ==
  ASSUME TypeInv, [Next]_vars
  PROVE  /\ \/ UNCHANGED accepted
            \/ /\ pc = "submit" /\ SubmitBuy(armed, now)
               /\ UNCHANGED <<ledger, now, coordVars>>
               /\ PortRaises = FALSE => pc' = "accept"
         /\ \/ open' \subseteq open
            \/ \E s \in Setups : /\ accepted[s] # None /\ open' = open \cup {s}
                                 /\ UNCHANGED <<pc, ledger, accepted, coordVars>>
  <1> USE DEF TypeInv, TypeOK, PortTypeOK
  <1>1. CASE Broker
    BY <1>1 DEF Broker, FillBuy, ExecuteClose, BrokerExit
  <1>2. CASE Submit \/ SubmitRaises
    BY <1>2 DEF Submit, SubmitRaises, SubmitBuy, portVars
  <1>3. CASE ~(Broker \/ Submit \/ SubmitRaises)
    BY <1>3
    DEF Next, vars, portVars, Start, StartMonitor, AttachMonitor, Crash,
        Coordinator, ReconcileStartup, RecoverPendingBuy, CompletedCandle,
        Tick, AcceptSubmitted, Heartbeat, Monitor, RecoverPendingClose, Price,
        SendClose, SendCloseRaises, CloseLong, RecordSentClose, Operator,
        Advance
  <1> QED
    BY <1>1, <1>2, <1>3

(* Where the process may go, and that a halt of the coordinator lasts as   *)
(* long as it runs (live.py:81-86).                                        *)
LEMMA ControlMoves ==
  ASSUME TypeInv, [Next]_vars
  PROVE  /\ pc' = "submit" =>
              \/ /\ pc = "idle" /\ ~halted /\ trades < MaxTrades
                 /\ UNCHANGED <<halted, trades, ledger>>
              \/ pc = "submit" /\ UNCHANGED <<halted, trades>>
         /\ pc' = "accept" =>
              /\ pc \in {"submit", "accept"} /\ UNCHANGED <<halted, armed>>
         /\ pc' = "recoverBuy" =>
              \/ pc = "recoverBuy" /\ UNCHANGED halted
              \/ /\ pc = "reconcile" /\ UNCHANGED <<ledger, open>>
                 /\ Reconciles(ledger.position)
         /\ pc' \notin {"down", "reconcile", "recoverBuy"} =>
              \/ pc = "reconcile" /\ halted'
              \/ /\ pc = "recoverBuy" /\ UNCHANGED <<open, accepted, halted>>
                 /\ RecoverPendingBuy
              \/ ~Recovering /\ (halted => halted')
         /\ pc = "accept" => \/ pc' \in {"accept", "down"}
                             \/ /\ pc' = "idle" /\ AcceptReceipt(armed)
                                /\ UNCHANGED open
  BY DEF Next, vars, Recovering, portVars, coordVars, Start, StartMonitor,
     AttachMonitor, Crash, Coordinator, ReconcileStartup, HaltCoordinator,
     RecoverPendingBuy, CompletedCandle, Tick, TakesTicks, DropArmed,
     RiskAllows, Submit, SubmitRaises, AcceptSubmitted, Heartbeat, Monitor, RecoverPendingClose,
     Price, SendClose, SendCloseRaises, RecordSentClose, Broker, FillBuy,
     ExecuteClose, BrokerExit, Operator, Advance

(* Fills are never unlearned, and while the process recovers the pending   *)
(* intent stays what it was.                                               *)
LEMMA FillsKept ==
  ASSUME TypeInv, IntentInv, CloseInv, [Next]_vars
  PROVE  /\ ledger.fills \subseteq ledger'.fills
         /\ Filled(ledger) \subseteq Filled(ledger')
         /\ Recovering /\ pc' \in {pc, "reconcile", "recoverBuy"} =>
              UNCHANGED ledger.pendingBuy
  <1>1. /\ ledger.fills \subseteq ledger'.fills
        /\ Recovering /\ pc' \in {pc, "reconcile", "recoverBuy"} =>
             UNCHANGED ledger.pendingBuy
    BY StepAppends
    DEF Appends_Nothing, Appends_Intent, Appends_Drop, Appends_Fill,
        Appends_CloseIntent, Appends_Close, BuyFacts, Recovering
  <1> QED
    BY <1>1 DEF Filled

(* A long that appears in the account is a fill the ledger has, or the BUY *)
(* whose order is still to be recorded.                                    *)
LEMMA NewLong ==
  ASSUME TypeInv, IntentInv, DurableInv, NEW s \in Setups, accepted[s] # None
  PROVE  /\ s \in Filled(ledger) \/ s = ledger.pendingBuy
         /\ ~Recovering /\ ~halted /\ pc # "accept" => s \in Filled(ledger)
         /\ pc = "accept" => s \in Filled(ledger) \cup {armed}
  <1>1. s \in Filled(ledger) \/ s = ledger.pendingBuy
    BY DEF DurableInv, AcceptedIsDurable
  <1>2. armed # None => ledger.pendingBuy = armed
    BY DEF IntentInv
  <1>3. ~Recovering /\ ~halted => ledger.pendingBuy = armed
    BY DEF IntentInv
  <1>4. armed = s => pc = "accept"
    BY SetupsAreNat DEF DurableInv, UnsentInv
  <1>5. pc = "accept" => armed # None
    BY DEF TypeInv, LocalsInv
  <1> QED
    BY <1>1, <1>2, <1>3, <1>4, <1>5

(* Recovery, submission and commit leave no long unexplained               *)
(* (live.py:64-103, 214-249).                                              *)
LEMMA ExplainedStep ==
  ASSUME TypeInv, IntentInv, FilledInv, CloseInv, DurableInv, ExplainedInv,
         [Next]_vars
  PROVE  ExplainedInv'
  <1> USE FillsKept, SetupsAreNat
  <1>1. \A s \in open' : s \in Setups /\ accepted'[s] # None
    <2>1. \A s \in open' : s \in Setups /\ accepted[s] # None
      BY AccountMoves DEF TypeInv, TypeOK, PortTypeOK, ExplainedInv
    <2> QED
      BY <2>1, OrdersGrow
  <1>2. pc' \in {"submit", "accept"} => ~halted'
    BY ControlMoves DEF ExplainedInv
  <1>3. ASSUME ~Recovering', ~halted', pc' # "accept"
        PROVE  open' \subseteq Filled(ledger')
    <2>1. CASE pc = "recoverBuy" /\ RecoverPendingBuy
      <3> DEFINE s == ledger.pendingBuy
      <3>1. UNCHANGED <<open, accepted, halted>>
        BY <2>1 DEF RecoverPendingBuy, portVars
      <3>2. open \subseteq Filled(ledger) \cup {s} /\ ~halted
        BY <1>3, <2>1, <3>1 DEF ExplainedInv
      <3>3. CASE s # None /\ accepted[s] # None /\ AcceptReceipt(s)
        <4>1. Filled(ledger') = Filled(ledger) \cup {s}
          BY <3>3, AcceptReceiptType
        <4> QED
          BY <3>1, <3>2, <4>1
      <3>4. CASE s = None \/ accepted[s] = None
        <4>1. s \notin open
          BY <1>1, <3>1, <3>4
        <4> QED
          BY <3>1, <3>2, <4>1
      <3> QED
        BY <2>1, <3>2, <3>3, <3>4 DEF RecoverPendingBuy, FoundAtBroker
    <2>2. CASE ~Recovering /\ ~halted /\ pc = "accept"
      <3>1. pc' = "idle" /\ AcceptReceipt(armed) /\ UNCHANGED open
        BY <1>3, <2>2, ControlMoves DEF Recovering
      <3>2. armed \in Setups /\ accepted[armed] # None
        BY <2>2 DEF TypeInv, TypeOK, CoordinatorTypeOK, LocalsInv
      <3>3. Filled(ledger') = Filled(ledger) \cup {armed}
        BY <3>1, <3>2, AcceptReceiptType
      <3> QED
        BY <2>2, <3>1, <3>3 DEF ExplainedInv
    <2>3. CASE ~Recovering /\ ~halted /\ pc # "accept"
      <3>1. open \subseteq Filled(ledger)
        BY <2>3 DEF ExplainedInv
      <3>2. \A s \in open' \ open : s \in Filled(ledger)
        BY <2>3, AccountMoves, NewLong
      <3> QED
        BY <3>1, <3>2
    <2> QED
      BY <1>3, <2>1, <2>2, <2>3, ControlMoves DEF Recovering
  <1>4. ASSUME pc' = "accept"
        PROVE  open' \subseteq Filled(ledger') \cup {armed'}
    <2>1. pc \in {"submit", "accept"} /\ UNCHANGED armed
      BY <1>4, ControlMoves
    <2>2. open \subseteq Filled(ledger) \cup {armed}
      BY <2>1 DEF ExplainedInv, Recovering
    <2>3. \A s \in open' \ open : s \in Filled(ledger) \cup {armed}
      BY <1>4, <2>1, AccountMoves, NewLong
    <2> QED
      BY <2>1, <2>2, <2>3
  <1>5. ASSUME pc' = "recoverBuy", ~halted'
        PROVE  open' \subseteq Filled(ledger') \cup {ledger'.pendingBuy}
    <2>1. CASE pc = "recoverBuy" /\ UNCHANGED halted
      <3>1. UNCHANGED ledger.pendingBuy
        BY <1>5, <2>1 DEF Recovering
      <3>2. open \subseteq Filled(ledger) \cup {ledger.pendingBuy}
        BY <1>5, <2>1 DEF ExplainedInv
      <3>3. \A s \in open' \ open : s \in Filled(ledger) \cup {ledger.pendingBuy}
        BY AccountMoves, NewLong
      <3> QED
        BY <3>1, <3>2, <3>3
    <2>2. CASE UNCHANGED <<ledger, open>> /\ Reconciles(ledger.position)
      <3>1. open \subseteq {ledger.position} /\ None \notin open
        BY <2>2 DEF Reconciles, TypeInv, TypeOK, PortTypeOK
      <3> QED
        BY <2>2, <3>1 DEF FilledInv
    <2> QED
      BY <1>5, <2>1, <2>2, ControlMoves
  <1> QED
    BY <1>1, <1>2, <1>3, <1>4, <1>5 DEF ExplainedInv, Recovering

(* Whatever the broker fills meanwhile, a coordinator that may submit      *)
(* explains every long of the account.                                     *)
LEMMA ExplainedInductive ==
  ASSUME PortRaises = FALSE
  PROVE  Spec => []ExplainedInv
  <1>1. Init => ExplainedInv
    BY DEF Init, ProcessInit, PortInit, ExplainedInv, Recovering
  <1>2. TypeInv /\ IntentInv /\ FilledInv /\ CloseInv /\ DurableInv
          /\ ExplainedInv /\ [Next]_vars => ExplainedInv'
    BY ExplainedStep
  <1> QED
    BY <1>1, <1>2, TypeInductive, IntentInductive, CloseInductive,
       DurableInductive, PTL DEF Spec

(* Reconciliation looks once, at startup; its promise lasts: as long as    *)
(* calls of the port return, no BUY is accepted while the account holds a  *)
(* long that the ledger has not recorded as filled (live.py:64-74).        *)
THEOREM NeverBuysBlind == PortRaises = FALSE /\ Spec => NoBlindBuy
  <1> SUFFICES ASSUME PortRaises = FALSE PROVE Spec => NoBlindBuy
    OBVIOUS
  <1>1. TypeInv /\ ExplainedInv /\ [Next]_vars =>
          [accepted' # accepted => open \subseteq Filled(ledger)]_vars
    <2> SUFFICES ASSUME TypeInv, ExplainedInv, [Next]_vars,
                        accepted' # accepted
                 PROVE  open \subseteq Filled(ledger)
      OBVIOUS
    <2>1. pc = "submit"
      BY AccountMoves
    <2> QED
      BY <2>1 DEF ExplainedInv, Recovering
  <1> QED
    BY <1>1, TypeInductive, ExplainedInductive, PTL DEF Spec, NoBlindBuy

-----------------------------------------------------------------------------
(* The daily limit *)

(* Time stands still or passes by one unit.                                *)
LEMMA ClockMoves ==
  ASSUME TypeInv, [Next]_vars
  PROVE  now' \in {now, now + 1} /\ now \in Nat /\ now <= now'
  <1>1. now' \in {now, now + 1}
    BY DEF Next, vars, Start, StartMonitor, AttachMonitor, Crash,
       Coordinator, ReconcileStartup, RecoverPendingBuy, CompletedCandle,
       Tick, Submit, SubmitRaises, AcceptSubmitted, Heartbeat, Monitor,
       RecoverPendingClose, Price, SendClose, SendCloseRaises,
       RecordSentClose, Broker, Operator, Advance
  <1> QED
    BY <1>1, TimesAreNat DEF TypeInv, TypeOK, ProcessTypeOK

(* Stamps and broker times never lie in the future.                        *)
LEMMA StampStep ==
  ASSUME TypeInv, IntentInv, FilledInv, CloseInv, StampInv, [Next]_vars
  PROVE  StampInv'
  <1>1. /\ now \in Nat /\ now' \in Nat /\ now <= now'
        /\ ledger.last \in Nat /\ ledger.latest \in Nat
    <2>1. now' \in {now, now + 1}
      BY ClockMoves
    <2>2. now \in Nat /\ ledger.last \in Nat /\ ledger.latest \in Nat
      BY TimesAreNat DEF TypeInv, TypeOK, ProcessTypeOK, Ledgers
    <2> QED
      BY <2>1, <2>2
  <1>2. /\ \A s \in Setups : accepted[s] # None => accepted[s] \in Nat
        /\ \A c \in CloseIds : sold[c] # None => sold[c] \in Nat
    BY TimesAreNat DEF TypeInv, TypeOK, PortTypeOK
  <1>3. \A s \in Setups : accepted'[s] # None => accepted'[s] <= now'
    <2>1. \A s \in Setups : accepted'[s] \in {accepted[s], now}
      BY AccountMoves DEF SubmitBuy, TypeInv, TypeOK, PortTypeOK
    <2> QED
      BY <1>1, <1>2, <2>1 DEF StampInv
  <1>4. \A c \in CloseIds : sold'[c] # None => sold'[c] <= now'
    BY <1>1, <1>2, SoldMoves DEF StampInv
  <1>5. \/ UNCHANGED <<ledger.last, ledger.latest>>
        \/ \E t \in Nat : t <= now /\ Stamps(t)
    <2>1. CASE \E e \in Setups : Appends_Intent(e)
      BY <2>1, SetupsAreNat DEF Appends_Intent
    <2>2. CASE \E s \in Setups : Appends_Fill(s)
      BY <2>2, <1>2 DEF Appends_Fill, StampInv
    <2>3. CASE \E c \in CloseIds : Appends_Close(c)
      BY <2>3, <1>2 DEF Appends_Close, StampInv
    <2> QED
      BY <1>1, <2>1, <2>2, <2>3, StepAppends
      DEF Appends_Nothing, Appends_Drop, Appends_CloseIntent
  <1>6. ledger'.last <= now' /\ ledger.latest <= ledger'.latest
    BY <1>1, <1>5 DEF Stamps, StampInv
  <1>7. \A f \in ledger'.fills :
          f \in ledger.fills \/ \E s \in Setups :
             /\ Appends_Fill(s) /\ f = [buy |-> s, time |-> accepted[s]]
    BY StepAppends DEF Appends_Nothing, Appends_Intent, Appends_Drop,
       Appends_Fill, Appends_CloseIntent, Appends_Close, BuyFacts
  <1>8. \A s \in Setups : accepted[s] # None => accepted'[s] = accepted[s]
    BY AccountMoves DEF SubmitBuy, TypeInv, TypeOK, PortTypeOK
  <1>9. ASSUME NEW f \in ledger'.fills
        PROVE  f.time = accepted'[f.buy] /\ f.time <= ledger'.latest
    <2>1. CASE f \in ledger.fills
      <3>1. f.buy \in Setups /\ f.time \in Times
        BY <2>1 DEF TypeInv, TypeOK, ProcessTypeOK, Ledgers
      <3>2. f.time = accepted[f.buy] /\ f.time <= ledger.latest
        BY <2>1 DEF StampInv
      <3>3. f.time \in Nat /\ f.time # None /\ ledger'.latest \in Nat
        BY <1>1, <1>5, <3>1, TimesAreNat, PortAssumption DEF Stamps
      <3> QED
        BY <1>1, <1>6, <1>8, <3>1, <3>2, <3>3
    <2>2. CASE \E s \in Setups :
                 /\ Appends_Fill(s) /\ f = [buy |-> s, time |-> accepted[s]]
      <3> PICK s \in Setups :
                 /\ Appends_Fill(s) /\ f = [buy |-> s, time |-> accepted[s]]
        BY <2>2
      <3>1. f.buy = s /\ f.time = accepted[s]
        OBVIOUS
      <3>2. accepted[s] # None /\ Stamps(accepted[s])
        BY DEF Appends_Fill
      <3>3. accepted[s] \in Nat
        BY <1>2, <3>2
      <3> QED
        BY <1>1, <1>8, <3>1, <3>2, <3>3 DEF Stamps
    <2> QED
      BY <1>7, <2>1, <2>2
  <1> QED
    BY <1>3, <1>4, <1>6, <1>9 DEF StampInv

(* Stamps and broker times form an inductive invariant.                    *)
LEMMA StampInductive == Spec => []StampInv
  <1>1. Init => StampInv
    BY DEF Init, ProcessInit, PortInit, EmptyLedger, StampInv
  <1>2. TypeInv /\ IntentInv /\ FilledInv /\ CloseInv /\ StampInv /\ [Next]_vars
          => StampInv'
    BY StampStep
  <1> QED
    BY <1>1, <1>2, TypeInductive, IntentInductive, CloseInductive, PTL DEF Spec

(* The fills of a date are finitely many.                                  *)
LEMMA FillsOnFinite ==
  ASSUME TypeInv, NEW d
  PROVE  IsFiniteSet(FillsOn(d)) /\ Cardinality(FillsOn(d)) \in Nat
  <1>1. IsFiniteSet(FillsOn(d))
    BY FS_Subset DEF FillsOn, TypeInv, LocalsInv
  <1> QED
    BY <1>1, FS_CardinalityType

(* A process that starts counts every fill of today: recover_risk_state    *)
(* takes the date of the last line, and a ledger it accepts has no later   *)
(* one (safety.py:42-66, runtime.py:47).                                   *)
LEMMA StartCounts ==
  ASSUME TypeInv, StampInv, RiskRecoverable(ledger),
         NEW d \in Nat, DayOf[now] <= d
  PROVE  Cardinality(FillsOn(d)) <= TradesToday(ledger)
  <1>1. /\ now \in Times /\ ledger.last \in Times /\ ledger.latest \in Times
        /\ \A f \in ledger.fills : f.time \in Times
    BY DEF TypeInv, TypeOK, ProcessTypeOK, Ledgers
  <1>2. \A t \in Times : t \in Nat /\ DayOf[t] \in Nat
    BY TimesAreNat, PortAssumption
  <1>3. TradesToday(ledger) \in Nat
    BY TradesTodayType DEF TypeInv, LocalsInv
  <1>4. DayOf[ledger.last] <= DayOf[now]
    BY <1>1, PortAssumption DEF StampInv
  <1>5. CASE DayOf[ledger.last] = d
    <2>1. FillsOn(d) = {f \in ledger.fills : DayOf[f.time] = DayOf[ledger.last]}
      BY <1>5 DEF FillsOn
    <2>2. Cardinality(FillsOn(d)) = TradesToday(ledger)
      BY <2>1 DEF TradesToday
    <2> QED
      BY <1>3, <2>2
  <1>6. CASE DayOf[ledger.last] # d
    <2>1. \A f \in ledger.fills : DayOf[f.time] <= DayOf[ledger.last]
      <3> SUFFICES ASSUME NEW f \in ledger.fills
                   PROVE  DayOf[f.time] <= DayOf[ledger.last]
        OBVIOUS
      <3>1. f.time <= ledger.last
        BY <1>1, <1>2 DEF StampInv, RiskRecoverable
      <3> QED
        BY <1>1, <3>1, PortAssumption
    <2>2. DayOf[ledger.last] < d
      BY <1>1, <1>2, <1>4, <1>6
    <2>3. \A f \in ledger.fills : DayOf[f.time] # d
      BY <1>1, <1>2, <2>1, <2>2
    <2>4. FillsOn(d) = {}
      BY <2>3 DEF FillsOn
    <2>5. Cardinality(FillsOn(d)) = 0
      BY <2>4, FS_EmptySet
    <2> QED
      BY <1>3, <2>5
  <1> QED
    BY <1>5, <1>6

(* How a step may change the counter of the process.                       *)
LEMMA TradesMoves ==
  ASSUME TypeInv, [Next]_vars, pc' # "down"
  PROVE  \/ /\ pc = "down" /\ RiskRecoverable(ledger)
            /\ UNCHANGED <<ledger, now>> /\ trades' = TradesToday(ledger)
         \/ /\ pc # "down"
            /\ trades' \in {trades, trades + 1}
         \/ UNCHANGED vars
  BY DEF Next, vars, Start, NewCoordinator, StartMonitor, AttachMonitor, Crash,
     Coordinator, ReconcileStartup, RecoverPendingBuy, Rearm, AcceptReceipt,
     CompletedCandle, Tick, DropArmed, Submit, SubmitRaises, AcceptSubmitted,
     Heartbeat, Monitor, RecoverPendingClose, Price, SendClose,
     SendCloseRaises, RecordSentClose, Broker, Operator, Advance, coordVars

(* A line adds at most one fill, together with one to the counter.         *)
LEMMA FillsMoves ==
  ASSUME TypeInv, IntentInv, CloseInv, [Next]_vars, NEW d \in Nat
  PROVE  \/ FillsOn(d)' = FillsOn(d)
         \/ /\ trades' = trades + 1 /\ Cardinality(FillsOn(d)') \in Nat
            /\ Cardinality(FillsOn(d)') <= Cardinality(FillsOn(d)) + 1
  <1>1. CASE UNCHANGED ledger.fills
    BY <1>1 DEF FillsOn
  <1>2. CASE \E s \in Setups : Appends_Fill(s)
    <2> PICK s \in Setups : Appends_Fill(s)
      BY <1>2
    <2> DEFINE f == [buy |-> s, time |-> accepted[s]]
               more == FillsOn(d) \cup {f}
    <2>1. trades' = trades + 1 /\ ledger'.fills = ledger.fills \cup {f}
      BY DEF Appends_Fill
    <2> HIDE DEF f
    <2>2. FillsOn(d)' \subseteq more
      BY <2>1 DEF FillsOn
    <2>3. IsFiniteSet(FillsOn(d)) /\ Cardinality(FillsOn(d)) \in Nat
      BY FillsOnFinite
    <2>4. /\ IsFiniteSet(more)
          /\ Cardinality(more) \in {Cardinality(FillsOn(d)),
                                     Cardinality(FillsOn(d)) + 1}
      BY <2>3, FS_AddElement
    <2> HIDE DEF more
    <2>5. /\ Cardinality(FillsOn(d)') <= Cardinality(more)
          /\ IsFiniteSet(FillsOn(d)')
      BY <2>2, <2>4, FS_Subset
    <2>6. Cardinality(FillsOn(d)') \in Nat
      BY <2>5, FS_CardinalityType
    <2> QED
      BY <2>1, <2>3, <2>4, <2>5, <2>6
  <1> QED
    BY <1>1, <1>2, StepAppends
    DEF Appends_Nothing, Appends_Intent, Appends_Drop, Appends_CloseIntent,
        Appends_Close, BuyFacts

(* The counter of a running process covers the fills of today and later,   *)
(* over restarts and midnights (runtime.py:47, live.py:236).               *)
LEMMA CountStep ==
  ASSUME TypeInv, IntentInv, FilledInv, CloseInv, StampInv, CountInv, TypeInv',
         [Next]_vars
  PROVE  CountInv'
  <1>1. DayOf[now] \in Nat /\ DayOf[now'] \in Nat /\ DayOf[now] <= DayOf[now']
    <2>1. now \in Times /\ now' \in Times
      BY DEF TypeInv, TypeOK, ProcessTypeOK
    <2> QED
      BY <2>1, ClockMoves, PortAssumption
  <1>2. ASSUME pc' # "down", NEW d \in Nat, DayOf[now'] <= d
        PROVE  Cardinality(FillsOn(d)') <= trades'
    <2>0. /\ Cardinality(FillsOn(d)) \in Nat
          /\ trades \in Nat /\ DayOf[now] <= d
      BY <1>1, <1>2, FillsOnFinite DEF TypeInv, TypeOK, CoordinatorTypeOK
    <2>1. CASE pc = "down" /\ RiskRecoverable(ledger)
               /\ UNCHANGED <<ledger, now>> /\ trades' = TradesToday(ledger)
      <3>1. FillsOn(d)' = FillsOn(d)
        BY <2>1 DEF FillsOn
      <3> QED
        BY <2>0, <2>1, <3>1, StartCounts
    <2>2. CASE pc # "down" /\ trades' \in {trades, trades + 1}
      <3>1. Cardinality(FillsOn(d)) <= trades
        BY <2>0, <2>2 DEF CountInv
      <3>2. CASE FillsOn(d)' = FillsOn(d)
        BY <2>0, <2>2, <3>1, <3>2
      <3>3. CASE /\ trades' = trades + 1 /\ Cardinality(FillsOn(d)') \in Nat
                 /\ Cardinality(FillsOn(d)') <= Cardinality(FillsOn(d)) + 1
        BY <2>0, <3>1, <3>3
      <3> QED
        BY <3>2, <3>3, FillsMoves
    <2>3. CASE UNCHANGED vars
      <3>1. FillsOn(d)' = FillsOn(d) /\ trades' = trades /\ pc # "down"
        BY <1>2, <2>3 DEF vars, coordVars, FillsOn
      <3> QED
        BY <2>0, <3>1 DEF CountInv
    <2> QED
      BY <1>2, <2>1, <2>2, <2>3, TradesMoves
  <1>3. pc' = "submit" => trades' < MaxTrades
    BY ControlMoves DEF CountInv
  <1> QED
    BY <1>2, <1>3 DEF CountInv

(* The counters form an inductive invariant.                               *)
LEMMA CountInductive == Spec => []CountInv
  <1>1. Init => CountInv
    BY DEF Init, ProcessInit, CountInv
  <1>2. TypeInv /\ IntentInv /\ FilledInv /\ CloseInv /\ StampInv /\ CountInv
          /\ TypeInv' /\ [Next]_vars => CountInv'
    BY CountStep
  <1> QED
    BY <1>1, <1>2, TypeInductive, IntentInductive, CloseInductive,
       StampInductive, PTL DEF Spec

(* The BUYs the broker accepted on a date.                                 *)
AcceptedOn(d) ==
  {s \in Setups : accepted[s] # None /\ DayOf[accepted[s]] = d}

(* A process about to submit has recorded every accepted BUY, so that it   *)
(* counts at least as many fills of a date as the broker accepted.         *)
LEMMA CountsAccepted ==
  ASSUME TypeInv, IntentInv, StampInv, DurableInv, ExplainedInv,
         pc = "submit", NEW d \in Nat
  PROVE  /\ IsFiniteSet(AcceptedOn(d)) /\ Cardinality(AcceptedOn(d)) \in Nat
         /\ Cardinality(AcceptedOn(d)) <= Cardinality(FillsOn(d))
  <1>1. IsFiniteSet(FillsOn(d))
    BY FillsOnFinite
  <1>2. \A s \in AcceptedOn(d) : \E f \in FillsOn(d) : f.buy = s
    <2> SUFFICES ASSUME NEW s \in AcceptedOn(d)
                 PROVE  \E f \in FillsOn(d) : f.buy = s
      OBVIOUS
    <2>1. s \in Setups /\ accepted[s] # None /\ DayOf[accepted[s]] = d
      BY DEF AcceptedOn
    <2>2. s \in Filled(ledger)
      BY <2>1, NewLong DEF ExplainedInv, Recovering
    <2> PICK f \in ledger.fills : f.buy = s
      BY <2>2 DEF Filled
    <2>3. f.time = accepted[s]
      BY DEF StampInv
    <2> QED
      BY <2>1, <2>3 DEF FillsOn
  <1> DEFINE found == [s \in AcceptedOn(d) |-> CHOOSE f \in FillsOn(d) : f.buy = s]
  <1>3. \A s \in AcceptedOn(d) : found[s] \in FillsOn(d) /\ found[s].buy = s
    BY <1>2
  <1>4. found \in Injection(AcceptedOn(d), FillsOn(d))
    BY <1>3 DEF Injection, IsInjective
  <1>5. IsFiniteSet(AcceptedOn(d)) /\
          Cardinality(AcceptedOn(d)) <= Cardinality(FillsOn(d))
    BY <1>1, <1>4, FS_Injection DEF ExistsInjection
  <1> QED
    BY <1>5, FS_CardinalityType
(* A BUY is submitted only below the limit of its date.                    *)
LEMMA LimitStep ==
  ASSUME TypeInv, IntentInv, StampInv, DurableInv, ExplainedInv, CountInv,
         DailyLimit, [Next]_vars
  PROVE  DailyLimit'
  <1>1. SUFFICES ASSUME NEW t \in Times
                 PROVE  Cardinality(AcceptedOn(DayOf[t])') <= MaxTrades
    BY DEF DailyLimit, AcceptedOn
  <1> DEFINE d == DayOf[t]
  <1>2. Cardinality(AcceptedOn(d)) <= MaxTrades /\ d \in Nat
    BY PortAssumption DEF DailyLimit, AcceptedOn
  <1> HIDE DEF d
  <1>3. CASE UNCHANGED accepted
    BY <1>2, <1>3 DEF AcceptedOn, d
  <1>4. CASE pc = "submit" /\ SubmitBuy(armed, now)
    <2>1. armed \in Setups /\ accepted[armed] = None /\ now \in Times
      BY <1>4 DEF TypeInv, TypeOK, ProcessTypeOK, CoordinatorTypeOK, LocalsInv,
         DurableInv, UnsentInv
    <2>2. accepted' = [accepted EXCEPT ![armed] = now]
      BY <1>4, <2>1 DEF SubmitBuy
    <2>3. \A s \in Setups : s # armed => accepted'[s] = accepted[s]
      BY <2>2 DEF TypeInv, TypeOK, PortTypeOK
    <2>4. accepted'[armed] = now
      BY <2>1, <2>2 DEF TypeInv, TypeOK, PortTypeOK
    <2>5. CASE d # DayOf[now]
      <3>1. AcceptedOn(d)' = AcceptedOn(d)
        BY <2>1, <2>3, <2>4, <2>5, PortAssumption DEF AcceptedOn, d
      <3> QED
        BY <1>2, <3>1 DEF d
    <2>6. CASE d = DayOf[now]
      <3> DEFINE was == AcceptedOn(d)
                 more == was \cup {armed}
      <3>1. AcceptedOn(d)' \subseteq more
        BY <2>3 DEF AcceptedOn, d
      <3>2. /\ IsFiniteSet(was) /\ Cardinality(was) \in Nat
            /\ Cardinality(was) <= Cardinality(FillsOn(d))
        BY <1>2, <1>4, CountsAccepted
      <3>3. Cardinality(FillsOn(d)) <= trades /\ trades < MaxTrades
        BY <1>2, <1>4, <2>6 DEF CountInv
      <3>4. Cardinality(FillsOn(d)) \in Nat /\ trades \in Nat /\ MaxTrades \in Nat
        BY FillsOnFinite, CoordinatorAssumption
        DEF TypeInv, TypeOK, CoordinatorTypeOK
      <3> HIDE DEF was
      <3>5. /\ IsFiniteSet(more)
            /\ Cardinality(more) \in {Cardinality(was), Cardinality(was) + 1}
        BY <3>2, FS_AddElement
      <3> HIDE DEF more
      <3>6. /\ IsFiniteSet(AcceptedOn(d)')
            /\ Cardinality(AcceptedOn(d)') <= Cardinality(more)
        BY <3>1, <3>5, FS_Subset
      <3>7. Cardinality(AcceptedOn(d)') \in Nat
        BY <3>6, FS_CardinalityType
      <3>8. Cardinality(AcceptedOn(d)') <= MaxTrades
        BY <3>2, <3>3, <3>4, <3>5, <3>6, <3>7
      <3> QED
        BY <3>8 DEF d
    <2> QED
      BY <2>5, <2>6
  <1> QED
    BY <1>3, <1>4, AccountMoves

(* With a port whose calls return, the broker accepts at most              *)
(* max_trades_per_day BUYs of one date, for any number of restarts, of     *)
(* crashes between acceptance and record, and of dates (risk.py:88-89,     *)
(* safety.py:61-66).                                                       *)
THEOREM LiveDailyLimit == PortRaises = FALSE /\ Spec => []DailyLimit
  <1> SUFFICES ASSUME PortRaises = FALSE PROVE Spec => []DailyLimit
    OBVIOUS
  <1>1. Init => DailyLimit
    <2> SUFFICES ASSUME Init, NEW t \in Times
                 PROVE  Cardinality({s \in Setups : accepted[s] # None
                                       /\ DayOf[accepted[s]] = DayOf[t]}) <= MaxTrades
      BY DEF DailyLimit
    <2> DEFINE none == {s \in Setups : accepted[s] # None
                                         /\ DayOf[accepted[s]] = DayOf[t]}
    <2>1. none = {}
      BY DEF Init, PortInit
    <2> HIDE DEF none
    <2>2. Cardinality(none) = 0
      BY <2>1, FS_EmptySet
    <2> QED
      BY <2>2, CoordinatorAssumption DEF none
  <1>2. TypeInv /\ IntentInv /\ StampInv /\ DurableInv /\ ExplainedInv
          /\ CountInv /\ DailyLimit /\ [Next]_vars => DailyLimit'
    BY LimitStep
  <1> QED
    BY <1>1, <1>2, TypeInductive, IntentInductive, StampInductive,
       DurableInductive, ExplainedInductive, CountInductive, PTL DEF Spec
=============================================================================
