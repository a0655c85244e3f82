---------------------------- MODULE LiveRuntime ----------------------------
(***************************************************************************)
(* LiveRuntime (runtime.py) at work: a process that is started, recovers,  *)
(* trades through BuyCoordinator and LongPositionMonitor, and can die      *)
(* between any two steps; the broker that fills and sells meanwhile; the   *)
(* operator's kill switch; the clock.                                      *)
(***************************************************************************)
EXTENDS BuyCoordinator, LongPositionMonitor

CONSTANTS
  MaxCrashes,      \* bound: how often the process stops
  BrokerExits,     \* the broker may close the long by itself
  OperatorHalts    \* the operator may engage the kill switch by hand

ASSUME RuntimeAssumption ==
  MaxCrashes \in Nat /\ BrokerExits \in BOOLEAN /\ OperatorHalts \in BOOLEAN

VARIABLE crashes

vars == <<now, pc, ledger, portVars, coordVars, monitorVars, crashes>>

TypeOK ==
  /\ ProcessTypeOK /\ PortTypeOK /\ CoordinatorTypeOK /\ MonitorTypeOK
  /\ crashes \in 0 .. MaxCrashes

Init ==
  /\ ProcessInit /\ PortInit /\ NoCoordinator /\ NoMonitor
  /\ crashes = 0

(* LiveRuntime(...).start(), up to its first reconciliation.               *)
Start ==
  /\ pc = "down" /\ RiskRecoverable(ledger)
  /\ pc' = "reconcile"
  /\ NewCoordinator
  /\ UNCHANGED <<now, ledger, crashes>> /\ UNCHANGED <<portVars, monitorVars>>

StartMonitor ==
  /\ pc = "monitor"
  /\ NewMonitor
  /\ IF Reconciles(ledger.position)
       THEN pc' = "recoverClose" /\ UNCHANGED halted
       ELSE pc' = "idle" /\ halted' = TRUE
  /\ UNCHANGED <<now, ledger, crashes, armed, receipt, engine, trades>>
  /\ UNCHANGED <<lastCandle, lastTick>> /\ UNCHANGED portVars

(* The runtime itself makes a monitor only in start(); after a fill its    *)
(* caller does (tests/test_live.py).                                       *)
AttachMonitor ==
  /\ pc = "idle" /\ monitor \in {"off", "closed"} /\ ledger.position # None
  /\ NewMonitor
  /\ UNCHANGED <<now, pc, ledger, crashes>> /\ UNCHANGED <<portVars, coordVars>>

Crash ==
  /\ pc # "down" /\ crashes < MaxCrashes
  /\ pc' = "down" /\ crashes' = crashes + 1
  /\ ForgetCoordinator /\ ForgetMonitor
  /\ UNCHANGED <<now, ledger>> /\ UNCHANGED portVars

Coordinator ==
  /\ \/ ReconcileStartup \/ RecoverPendingBuy
     \/ \E e \in CandleEnds : CompletedCandle(e)
     \/ \E zone \in Zones, wideSpread \in BOOLEAN : Tick(zone, wideSpread)
     \/ Submit \/ SubmitRaises \/ AcceptSubmitted
     \/ Heartbeat
  /\ UNCHANGED <<monitorVars, crashes>>

Monitor ==
  /\ \/ RecoverPendingClose
     \/ \E zone \in PriceZones, sessionEnd \in BOOLEAN : Price(zone, sessionEnd)
     \/ SendClose \/ SendCloseRaises(PortRaises) \/ RecordSentClose
  /\ UNCHANGED <<coordVars, crashes>>

Broker ==
  /\ \/ \E s \in Setups : FillBuy(s)
     \/ ExecuteClose
     \/ BrokerExits /\ BrokerExit
  /\ UNCHANGED <<now, pc, ledger, crashes>> /\ UNCHANGED <<coordVars, monitorVars>>

(* The kill switch commands append to the ledger from outside the process. *)
Operator ==
  /\ \/ OperatorHalts /\ ~ledger.halted /\ ledger' = KillSwitchOn(ledger, now)
     \/ ledger.halted /\ ledger' = KillSwitchOff(ledger, now)
  /\ UNCHANGED <<now, pc, crashes>>
  /\ UNCHANGED <<portVars, coordVars, monitorVars>>

Advance ==
  /\ now < MaxTime /\ now' = now + 1
  /\ UNCHANGED <<pc, ledger, crashes>>
  /\ UNCHANGED <<portVars, coordVars, monitorVars>>

Next ==
  \/ Start \/ StartMonitor \/ AttachMonitor \/ Crash
  \/ Coordinator \/ Monitor \/ Broker \/ Operator \/ Advance

Spec == Init /\ [][Next]_vars

-----------------------------------------------------------------------------
(* Safety *)

(* A BUY the broker has accepted is never forgotten: the ledger records    *)
(* its fill or still holds it as the pending intent, whatever crashes lie  *)
(* between submit_buy and BUY_FILLED (live.py:222-225, 88-103).            *)
AcceptedIsDurable ==
  \A s \in Setups : accepted[s] # None =>
                       s \in Filled(ledger) \/ ledger.pendingBuy = s

(* Restarts included, the broker accepts at most max_trades_per_day BUYs   *)
(* of one date (risk.py:88-89, safety.py:61-66).                           *)
DailyLimit ==
  \A d \in {DayOf[t] : t \in Times} :
    Cardinality({s \in Setups : accepted[s] # None /\ DayOf[accepted[s]] = d})
      <= MaxTrades

(* Startup reconciliation keeps its promise for as long as the process     *)
(* runs: when a BUY is accepted, every long the account holds is one the   *)
(* ledger has recorded as filled (live.py:64-74).                          *)
NoBlindBuy ==
  [][accepted' # accepted => open \subseteq Filled(ledger)]_vars

(* One position is sold by at most one order, however often its close is   *)
(* retried and whichever exit fires at the retry (position.py:97-118).     *)
SoldOnce ==
  \A s \in Setups : Cardinality({r \in Results : sold[<<s, r>>] # None}) <= 1

(* A close the broker has accepted is recorded, or still pending in the    *)
(* ledger for recover_pending_close (position.py:41-64, 108-119).          *)
AcceptedCloseIsDurable ==
  \A c \in CloseIds : sold[c] # None =>
                         c \in ledger.closed \/ ledger.pendingClose = c

(* No BUY reaches the broker while the persisted kill switch is engaged    *)
(* (live.py:62, 67-68, 81-85; safety.py:17-18).                            *)
HaltBlocksBuy == [][ledger.halted => accepted' = accepted]_vars

-----------------------------------------------------------------------------
(* Inductive invariants *)

(* What the locals of a handler and of a monitor hold while it runs.       *)
LocalsInv ==
  /\ pc \in {"submit", "accept"} => armed # None
  /\ pc = "accept" => accepted[armed] # None
  /\ pc = "monitor" => ledger.position # None
  /\ monitor # "off" => monitored # None
  /\ pc = "recoverClose" => monitor # "off"
  /\ pc \in {"close", "recordClose"} => monitor = "watching" /\ exit # None
  /\ pc = "recordClose" => sold[CloseId(exit)] # None
  /\ IsFiniteSet(ledger.fills)

(* A process that may arm holds the ledger's pending intent in memory, so  *)
(* it never overwrites one; an intent is written once, before its order.   *)
Recovering == pc \in {"down", "reconcile", "recoverBuy"}

IntentInv ==
  /\ armed # None => ledger.pendingBuy = armed
  /\ ~Recovering /\ ~halted => ledger.pendingBuy = armed
  /\ Recovering => armed = None /\ receipt = None
  /\ ledger.pendingBuy # None => ledger.pendingBuy \in ledger.intents
  /\ \A s \in ledger.intents :
       s <= now /\ (pc # "down" => s <= lastCandle)
  /\ \A s \in Setups : accepted[s] # None => s \in ledger.intents

(* Without lost answers, a process that may still drop its armed BUY has   *)
(* not sent it.                                                            *)
UnsentInv == armed # None /\ pc # "accept" => accepted[armed] = None

(* With nobody but the runtime to engage it, the persisted kill switch     *)
(* never halts the ledger without halting the coordinator that runs.       *)
HaltInv ==
  /\ pc # "down" /\ ledger.halted => halted
  /\ pc = "submit" => ~halted

(* Only a BUY the broker accepted becomes a position, is watched or sold.  *)
BoughtInv ==
  /\ ledger.position # None => accepted[ledger.position] # None
  /\ monitored # None => accepted[monitored] # None
  /\ \A c \in CloseIds : sold[c] # None => accepted[c[1]] # None

(* Only a setup the ledger knows as filled is held, watched or closed, and *)
(* a filled one is never pending again.                                    *)
FilledInv ==
  /\ Filled(ledger) \subseteq ledger.intents
  /\ ledger.pendingBuy \notin Filled(ledger)
  /\ {ledger.position, monitored} \subseteq Filled(ledger) \cup {None}
  /\ ledger.pendingClose # None => ledger.pendingClose[1] \in Filled(ledger)
  /\ \A c \in ledger.closed : c[1] \in Filled(ledger)

(* A close is on its way only as the ledger's pending close, and a setup   *)
(* that was closed is not held, watched or being closed any more.          *)
CloseInv ==
  /\ pc \in {"close", "recordClose"} => ledger.pendingClose = CloseId(exit)
  /\ AcceptedCloseIsDurable
  /\ \A c \in ledger.closed :
       /\ c[1] # ledger.position
       /\ monitor = "watching" => c[1] # monitored
       /\ ledger.pendingClose # None => c[1] # ledger.pendingClose[1]
       /\ \A d \in ledger.closed : c[1] = d[1] => c = d

(* Without lost answers, a coordinator that may submit explains every long *)
(* of the account by a fill, or by the order it is about to record.        *)
ExplainedInv ==
  /\ \A s \in open : accepted[s] # None
  /\ pc \in {"submit", "accept"} => ~halted
  /\ ~Recovering /\ ~halted /\ pc # "accept" => open \subseteq Filled(ledger)
  /\ pc = "accept" => open \subseteq Filled(ledger) \cup {armed}
  /\ pc = "recoverBuy" /\ ~halted =>
       open \subseteq Filled(ledger) \cup {ledger.pendingBuy}

(* No stamp lies in the future, and a fill carries the broker's time.      *)
StampInv ==
  /\ \A s \in Setups : accepted[s] # None => accepted[s] <= now
  /\ \A c \in CloseIds : sold[c] # None => sold[c] <= now
  /\ ledger.last <= now
  /\ \A f \in ledger.fills : f.time = accepted[f.buy] /\ f.time <= ledger.latest

(* What a running process counts covers the fills of today and later.      *)
FillsOn(d) == {f \in ledger.fills : DayOf[f.time] = d}

CountInv ==
  /\ pc # "down" => \A d \in Nat :
       DayOf[now] <= d => Cardinality(FillsOn(d)) <= trades
  /\ pc = "submit" => trades < MaxTrades

-----------------------------------------------------------------------------
(* The promise of BuyLifecycle, kept by the runtime: the phase of a setup  *)
(* as the broker's and the ledger's records show it.  An accepted BUY is   *)
(* orphaned when the ledger neither holds its intent nor records its fill. *)

Sold(s)  == \E r \in Results : sold[<<s, r>>] # None
Known(s) == ledger.pendingBuy = s \/ s \in Filled(ledger)

Phase(s) ==
  CASE Sold(s)                                  -> "closed"
    [] ~Sold(s) /\ accepted[s] # None           ->
         IF Known(s) THEN "bought" ELSE "orphaned"
    [] ~Sold(s) /\ accepted[s] = None           ->
         IF ledger.pendingBuy = s THEN "intended"
         ELSE IF s \in ledger.intents THEN "dropped" ELSE "new"

Lifecycle ==
  INSTANCE BuyLifecycle WITH phase <- [s \in Setups |-> Phase(s)],
                             MayOrphan <- PortRaises

(* Every step of the runtime, of a crash and of a recovery is a step of    *)
(* the lifecycle or does not touch it.  After a submit_buy that raised,    *)
(* an accepted BUY is still armed in memory, and a later tick can write it *)
(* off as expired or cancelled (live.py:173-210, 224): it is orphaned.  If *)
(* calls of the port return, none ever is.                                 *)
KeepsLifecycle == Lifecycle!Spec

-----------------------------------------------------------------------------
(* Liveness *)

(* A running handler goes on, a stopped process is started again, time     *)
(* passes, and the market keeps sending ticks: callbacks run in the order  *)
(* their events arrive, so other callbacks never keep a tick out for good. *)
HandlerStep ==
  \/ Start \/ StartMonitor
  \/ /\ ReconcileStartup \/ RecoverPendingBuy \/ Submit \/ AcceptSubmitted
     /\ UNCHANGED <<monitorVars, crashes>>
  \/ /\ \/ RecoverPendingClose \/ SendClose \/ RecordSentClose
        \/ SendCloseRaises(PortRaises)
     /\ UNCHANGED <<coordVars, crashes>>

TickArrives ==
  /\ \E zone \in Zones, wideSpread \in BOOLEAN : Tick(zone, wideSpread)
  /\ UNCHANGED <<monitorVars, crashes>>

FairSpec ==
  /\ Spec
  /\ WF_vars(HandlerStep) /\ WF_vars(Advance) /\ SF_vars(TickArrives)

(* No intent stays open: it is filled, expires or is cancelled, unless a   *)
(* halt freezes it for the operator or the ledger's timestamps run         *)
(* backwards, which no restart survives (live.py:167-212, safety.py:59).   *)
PendingResolves ==
  \A s \in Setups : ledger.pendingBuy = s ~>
    ledger.pendingBuy # s \/ halted \/ ~RiskRecoverable(ledger)
=============================================================================
