------------------------ MODULE PaperPipeline_proofs ------------------------
(***************************************************************************)
(* Proofs about PaperPipeline for every value of its constants: its types, *)
(* that memory and ledger agree between callbacks, that a restart is       *)
(* always possible, the minute of a fill, the lifecycle of a setup and the *)
(* daily limit.                                                            *)
(***************************************************************************)
EXTENDS PaperPipeline, FiniteSetTheorems, TLAPS

-----------------------------------------------------------------------------
(* Dates and minutes                                                       *)
(* Quotient and remainder.                                                 *)
LEMMA DivMod ==
  ASSUME NEW d \in Nat \ {0}, NEW t \in Nat
  PROVE  /\ t \div d \in Nat /\ (t % d) \in 0 .. (d - 1)
         /\ t = d * (t \div d) + (t % d)
  OBVIOUS

(* Quotient and remainder are determined by the sum they make up.          *)
LEMMA DivModUnique ==
  ASSUME NEW d \in Nat \ {0}, NEW q \in Nat, NEW r \in 0 .. (d - 1)
  PROVE  /\ (d * q + r) \div d = q /\ (d * q + r) % d = r
  OBVIOUS

(* A whole number of units.                                                *)
LEMMA Multiple ==
  ASSUME NEW d \in Nat \ {0}, NEW q \in Nat
  PROVE  (d * q) % d = 0
  OBVIOUS

(* Of two whole numbers of units the greater is a unit greater.            *)
LEMMA MulStep ==
  ASSUME NEW d \in Nat, NEW p \in Nat, NEW q \in Nat, p < q
  PROVE  d * p + d <= d * q
  OBVIOUS

(* Two numbers of which one is a whole number of units later differ by a   *)
(* unit.                                                                   *)
LEMMA WholeUnits ==
  ASSUME NEW d \in Nat \ {0}, NEW p \in Nat, NEW q \in Nat,
         p % d = 0, q % d = 0, p < q
  PROVE  p + d <= q
  <1>1. p = d * (p \div d) /\ q = d * (q \div d)
        /\ p \div d \in Nat /\ q \div d \in Nat
    BY DivMod
  <1> DEFINE i == p \div d
             j == q \div d
  <1>2. i \in Nat /\ j \in Nat /\ p = d * i /\ q = d * j
    BY <1>1
  <1> HIDE DEF i, j
  <1>3. i < j
    <2>1. CASE i = j BY <1>2, <2>1
    <2>2. CASE j < i
      BY <1>2, <2>2, MulStep
    <2> QED BY <1>2, <2>1, <2>2
  <1> QED
    BY <1>2, <1>3, MulStep

(* Whole numbers of units add up to one.                                   *)
LEMMA SumOfUnits ==
  ASSUME NEW d \in Nat \ {0}, NEW p \in Nat, NEW q \in Nat,
         p % d = 0, q % d = 0
  PROVE  (p + q) % d = 0
  <1> DEFINE i == p \div d
             j == q \div d
  <1>1. i \in Nat /\ j \in Nat /\ p = d * i /\ q = d * j
    BY DivMod
  <1> HIDE DEF i, j
  <1>2. p + q = d * (i + j) /\ i + j \in Nat
    BY <1>1
  <1>3. (d * (i + j)) % d = 0
    BY <1>2, Multiple
  <1> QED
    BY <1>2, <1>3

(* The start of a minute of a session.                                    *)
Aligned(m) == InSession(m) /\ (m % DayLength) % Minute = 0

(* What the assumptions say of the clock: both ends of a session are whole *)
(* minutes.                                                                *)
LEMMA Clock ==
  /\ Minute \in Nat \ {0} /\ DayLength \in Nat \ {0} /\ Open \in Nat
  /\ Close \in Nat /\ Close % Minute = 0 /\ Open % Minute = 0
  /\ Close + Minute <= DayLength
  /\ None \notin Nat
  <1>1. Close % Minute = 0
    BY ClockAssumption, SumOfUnits DEF Close
  <1> QED
    BY <1>1, ClockAssumption DEF Close

(* A time is its date and a time of the day.                               *)
LEMMA DateTime ==
  ASSUME NEW t \in Nat
  PROVE  /\ Date(t) \in Nat
         /\ (t % DayLength) \in Nat /\ t % DayLength < DayLength
         /\ t = (DayLength * Date(t)) + (t % DayLength)
  BY Clock, DivMod DEF Date

(* Times of different dates: the later one lies behind the midnight.       *)
LEMMA LaterDate ==
  ASSUME NEW t \in Nat, NEW u \in Nat, Date(t) < Date(u)
  PROVE  t + DayLength <= u + (t % DayLength) /\ t < u - (u % DayLength)
  <1> DEFINE p == Date(t)
             q == Date(u)
             r == t % DayLength
             v == u % DayLength
  <1>1. /\ p \in Nat /\ q \in Nat /\ r \in Nat /\ v \in Nat /\ r < DayLength
        /\ t = (DayLength * p) + r /\ u = (DayLength * q) + v
    BY DateTime
  <1>2. (DayLength * p) + DayLength <= DayLength * q
    BY <1>1, Clock, MulStep
  <1> HIDE DEF p, q, r, v
  <1>3. (DayLength * p) \in Nat /\ (DayLength * q) \in Nat
    BY <1>1, Clock
  <1>4. t + DayLength <= u + r /\ t < u - v
    BY <1>1, <1>2, <1>3, Clock
  <1> QED
    BY <1>4 DEF r, v

(* Dates follow the times.                                                 *)
LEMMA DatesInOrder ==
  ASSUME NEW t \in Nat, NEW u \in Nat, t <= u
  PROVE  Date(t) <= Date(u)
  <1>1. CASE Date(u) < Date(t)
    <2>1. u < t - (t % DayLength)
      BY <1>1, LaterDate
    <2> QED
      BY <2>1, DateTime
  <1> QED
    BY <1>1, DateTime

(* A number less its remainder is a whole number of units.                 *)
LEMMA WholePart ==
  ASSUME NEW d \in Nat \ {0}, NEW p \in Nat
  PROVE  /\ p - (p % d) \in Nat /\ (p - (p % d)) % d = 0
         /\ (p % d) \in Nat /\ p % d < d
  <1> DEFINE k == p \div d
  <1>1. k \in Nat /\ (p % d) \in 0 .. (d - 1) /\ p = d * k + (p % d)
    BY DivMod
  <1> HIDE DEF k
  <1>2. (d * k) % d = 0
    BY <1>1, Multiple
  <1>3. (d * k) \in Nat
    BY <1>1
  <1>4. p - (p % d) = d * k
    BY <1>1, <1>3
  <1> QED
    BY <1>1, <1>2, <1>3, <1>4

(* candles.py:102: the minute of a tick of the session starts in the session*)
(* of the same date, at or before the tick.                                *)
LEMMA MinuteOfTime ==
  ASSUME NEW t \in Nat, InSession(t)
  PROVE  /\ MinuteOf(t) \in Nat /\ MinuteOf(t) <= t /\ t < MinuteOf(t) + Minute
         /\ Date(MinuteOf(t)) = Date(t) /\ Aligned(MinuteOf(t))
  <1> DEFINE r == t % DayLength
             w == r % Minute
             s == r - w
             b == DayLength * Date(t)
  <1>1. /\ r \in Nat /\ r < DayLength /\ t = b + r /\ Date(t) \in Nat
    BY DateTime
  <1>2. b \in Nat
    BY <1>1, Clock
  <1>3. s \in Nat /\ s % Minute = 0 /\ w \in Nat /\ w < Minute
    BY <1>1, Clock, WholePart
  <1>4. MinuteOf(t) = t - w
    BY DEF MinuteOf
  <1>5. s \in 0 .. (DayLength - 1)
    <2> HIDE DEF r, w
    <2> QED BY <1>1, <1>3, Clock
  <1>6. MinuteOf(t) = b + s
    <2> HIDE DEF r, w, b
    <2> QED BY <1>1, <1>2, <1>3, <1>4
  <1>7. Date(MinuteOf(t)) = Date(t) /\ MinuteOf(t) % DayLength = s
    <2> HIDE DEF s
    <2>1. (b + s) \div DayLength = Date(t) /\ (b + s) % DayLength = s
      BY <1>1, <1>5, Clock, DivModUnique
    <2> HIDE DEF b
    <2> QED BY <1>6, <2>1 DEF Date
  <1>8. Open <= s /\ s < Close
    <2>1. Open <= r /\ r < Close
      BY DEF InSession
    <2>2. s < Open => s + Minute <= Open
      <3> HIDE DEF s
      <3> QED BY <1>3, Clock, WholeUnits
    <2> HIDE DEF r, w
    <2> QED
      BY <1>1, <1>3, <2>1, <2>2, Clock
  <1>9. MinuteOf(t) \in Nat /\ MinuteOf(t) <= t /\ t < MinuteOf(t) + Minute
    <2> HIDE DEF r, w, b
    <2> QED BY <1>1, <1>2, <1>3, <1>4, Clock
  <1> QED
    BY <1>3, <1>7, <1>8, <1>9 DEF Aligned, InSession

(* A minute of the session is over before a later one starts.              *)
LEMMA MinuteEnds ==
  ASSUME NEW m \in Nat, Aligned(m), NEW u \in Nat, m < u,
         Date(m) # Date(u) \/ Aligned(u) \/ Close <= u % DayLength
  PROVE  m + Minute <= u
  <1> DEFINE r == m % DayLength
             v == u % DayLength
  <1>1. /\ r \in Nat /\ v \in Nat /\ Date(m) \in Nat /\ Date(u) \in Nat
        /\ m = (DayLength * Date(m)) + r /\ u = (DayLength * Date(u)) + v
    BY DateTime
  <1>2. r < Close /\ r % Minute = 0
    BY DEF Aligned, InSession
  <1>3. r + Minute <= Close
    BY <1>1, <1>2, Clock, WholeUnits
  <1>4. CASE Date(m) # Date(u)
    <2>1. Date(m) < Date(u)
      BY <1>1, <1>4, DatesInOrder
    <2>2. m + DayLength <= u + r
      BY <2>1, LaterDate
    <2> HIDE DEF r, v
    <2> QED
      BY <2>2, <1>1, <1>3, Clock
  <1>5. CASE Date(m) = Date(u) /\ Aligned(u)
    <2>1. v % Minute = 0
      BY <1>5 DEF Aligned
    <2>2. r < v
      <3> HIDE DEF r, v
      <3>1. (DayLength * Date(m)) \in Nat
        BY <1>1, Clock
      <3> QED BY <1>1, <1>5, <3>1
    <2>3. r + Minute <= v
      BY <1>1, <1>2, <2>1, <2>2, Clock, WholeUnits
    <2> HIDE DEF r, v
    <2>4. (DayLength * Date(m)) \in Nat
      BY <1>1, Clock
    <2> QED
      BY <2>3, <2>4, <1>1, <1>5, Clock
  <1>6. CASE Date(m) = Date(u) /\ Close <= v
    <2> HIDE DEF r, v
    <2>1. (DayLength * Date(m)) \in Nat
      BY <1>1, Clock
    <2> QED
      BY <2>1, <1>1, <1>3, <1>6, Clock
  <1> QED
    BY <1>4, <1>5, <1>6
-----------------------------------------------------------------------------
(* What an append does to a ledger of the pipeline                         *)

PaperLedgers == Ledgers(Signals, Times)

(* What the phase of a setup is read from.                                 *)
SameFacts(l, m) ==
  /\ m.position = l.position /\ m.pendingBuy = l.pendingBuy
  /\ m.intents = l.intents /\ m.fills = l.fills /\ m.closed = l.closed

(* Timestamps are numbers.                                                 *)
LEMMA TimesAreNat == Times \subseteq Nat /\ 0 \in Times
  BY PaperAssumption DEF Times

(* Stamping a line changes only the two timestamps.                        *)
LEMMA StampLine ==
  ASSUME NEW l \in PaperLedgers, NEW t \in Times
  PROVE  /\ Stamp(l, t) \in PaperLedgers /\ SameFacts(l, Stamp(l, t))
         /\ Stamp(l, t).latest \in {l.latest, t}
         /\ Stamp(l, t).halted = l.halted
         /\ Stamp(l, t).pendingClose = l.pendingClose
         /\ Stamp(l, t).last = t
  BY TimesAreNat DEF Stamp, SameFacts, PaperLedgers, Ledgers

(* BUY_INTENT (ledger.py:64-65).                                           *)
LEMMA IntentLine ==
  ASSUME NEW l \in PaperLedgers, NEW s \in Signals, NEW t \in Times
  PROVE  /\ BuyIntent(l, s, t) \in PaperLedgers
         /\ BuyIntent(l, s, t).latest \in {l.latest, t}
         /\ BuyIntent(l, s, t).pendingBuy = s
         /\ BuyIntent(l, s, t).intents = l.intents \cup {s}
         /\ BuyIntent(l, s, t).position = l.position
         /\ BuyIntent(l, s, t).fills = l.fills
         /\ BuyIntent(l, s, t).closed = l.closed
  BY TimesAreNat DEF BuyIntent, Stamp, PaperLedgers, Ledgers

(* BUY_FILLED (ledger.py:66-68).                                           *)
LEMMA FillLine ==
  ASSUME NEW l \in PaperLedgers, NEW s \in Signals, NEW t \in Times
  PROVE  /\ BuyFilled(l, s, t) \in PaperLedgers
         /\ BuyFilled(l, s, t).latest \in {l.latest, t}
         /\ BuyFilled(l, s, t).pendingBuy = None
         /\ BuyFilled(l, s, t).position = s
         /\ BuyFilled(l, s, t).intents = l.intents
         /\ BuyFilled(l, s, t).fills = l.fills \cup {[buy |-> s, time |-> t]}
         /\ BuyFilled(l, s, t).closed = l.closed
         /\ Filled(BuyFilled(l, s, t)) = Filled(l) \cup {s}
  <1> DEFINE fill == [buy |-> s, time |-> t]
             m == Stamp(l, t)
  <1>1. fill \in [buy : Signals, time : Times] /\ fill.buy = s
    OBVIOUS
  <1>2. BuyFilled(l, s, t) =
          [m EXCEPT !.pendingBuy = None, !.position = s,
                    !.fills = @ \cup {fill}]
    BY DEF BuyFilled
  <1>3. /\ m \in PaperLedgers /\ m.fills = l.fills /\ m.intents = l.intents
        /\ m.closed = l.closed /\ m.latest \in {l.latest, t}
    BY StampLine DEF SameFacts
  <1> HIDE DEF fill, m
  <1>4. m.fills \cup {fill} \in SUBSET [buy : Signals, time : Times]
    BY <1>1, <1>3 DEF PaperLedgers, Ledgers
  <1>5. /\ BuyFilled(l, s, t) \in PaperLedgers
        /\ BuyFilled(l, s, t).fills = l.fills \cup {fill}
    BY <1>2, <1>3, <1>4 DEF PaperLedgers, Ledgers
  <1>6. /\ BuyFilled(l, s, t).pendingBuy = None
        /\ BuyFilled(l, s, t).position = s
        /\ BuyFilled(l, s, t).intents = l.intents
        /\ BuyFilled(l, s, t).closed = l.closed
        /\ BuyFilled(l, s, t).latest \in {l.latest, t}
    BY <1>2, <1>3 DEF PaperLedgers, Ledgers
  <1>7. Filled(BuyFilled(l, s, t)) = Filled(l) \cup {s}
    BY <1>1, <1>5 DEF Filled
  <1> QED
    BY <1>5, <1>6, <1>7 DEF fill

(* BUY_EXPIRED and BUY_CANCELLED (ledger.py:69-70).                        *)
LEMMA DropLine ==
  ASSUME NEW l \in PaperLedgers, NEW t \in Times
  PROVE  /\ BuyDropped(l, t) \in PaperLedgers
         /\ BuyDropped(l, t).latest \in {l.latest, t}
         /\ BuyDropped(l, t).pendingBuy = None
         /\ BuyDropped(l, t).position = l.position
         /\ BuyDropped(l, t).intents = l.intents
         /\ BuyDropped(l, t).fills = l.fills
         /\ BuyDropped(l, t).closed = l.closed
  BY TimesAreNat DEF BuyDropped, Stamp, PaperLedgers, Ledgers

(* POSITION_CLOSED (ledger.py:76-78).                                      *)
LEMMA CloseLine ==
  ASSUME NEW l \in PaperLedgers, NEW c \in Signals \X Results, NEW t \in Times
  PROVE  /\ PositionClosed(l, c, t) \in PaperLedgers
         /\ PositionClosed(l, c, t).latest \in {l.latest, t}
         /\ PositionClosed(l, c, t).position = None
         /\ PositionClosed(l, c, t).pendingBuy = l.pendingBuy
         /\ PositionClosed(l, c, t).intents = l.intents
         /\ PositionClosed(l, c, t).fills = l.fills
         /\ PositionClosed(l, c, t).closed = l.closed \cup {c}
  BY TimesAreNat DEF PositionClosed, Stamp, PaperLedgers, Ledgers

(* KILL_SWITCH_ON and KILL_SWITCH_OFF (ledger.py:79-82).                   *)
LEMMA SwitchLine ==
  ASSUME NEW l \in PaperLedgers, NEW t \in Times,
         NEW k, k = KillSwitchOn(l, t) \/ k = KillSwitchOff(l, t)
  PROVE  k \in PaperLedgers /\ SameFacts(l, k) /\ k.latest \in {l.latest, t}
  BY TimesAreNat DEF KillSwitchOn, KillSwitchOff, SameFacts, Stamp,
                     PaperLedgers, Ledgers

-----------------------------------------------------------------------------
(* The inductive invariant                                                 *)

(* candles.py:94-146: the open minute starts at a whole minute of a        *)
(* session and not after the last tick taken.                              *)
BuilderInv ==
  /\ builderLast # None => builderLast <= now /\ InSession(builderLast)
  /\ minute # None =>
       /\ builderLast # None /\ minute <= builderLast
       /\ Aligned(minute)

(* Nothing in memory or in the ledger is stamped later than the clock, and *)
(* a completed candle ended before the tick that completed it.             *)
ClockInv ==
  /\ tick <= now
  /\ candle # None => /\ Aligned(candle) /\ candle + Minute <= tick
                      /\ minute # None => candle <= minute
  /\ ledger.latest <= now
  /\ heartbeat # None => heartbeat[2] <= now

InMinute == armed <= tick /\ tick < armed + Minute

(* The steps at which memory and ledger agree: all but those between the   *)
(* broker's decision and the acknowledgement of its fill.                  *)
Settled == {"idle", "candle", "end", "tick", "submit", "rejected"}

ThreadInv ==
  /\ pc = "down" => position = None /\ armed = None /\ sessionDate = None
  /\ pc \in {"down", "idle"} => candle = None
  /\ pc \in {"candle", "end"} => candle # None
  /\ position # None => entryTime # None
  /\ pc \in Settled => position = ledger.position /\ armed = ledger.pendingBuy
  /\ pc \in {"submit", "rejected"} => armed # None /\ InMinute
  /\ pc = "fill" => /\ position = armed /\ armed # None /\ entryTime = tick
                    /\ ledger.pendingBuy = armed /\ InMinute
                    /\ trades <= MaxTrades
  /\ pc = "ack"  => /\ position = armed /\ armed # None
                    /\ ledger.position = armed

(* An outstanding intent was not filled, an open position was and is not   *)
(* closed, and there is never one beside the other.                        *)
LedgerInv ==
  /\ IsFiniteSet(ledger.fills)
  /\ Filled(ledger) \subseteq ledger.intents
  /\ ledger.pendingBuy # None =>
       /\ ledger.position = None
       /\ ledger.pendingBuy \in ledger.intents \ Filled(ledger)
  /\ ledger.position # None => ledger.position \in Filled(ledger)
  /\ \A c \in ledger.closed : c[1] \in Filled(ledger) /\ c[1] # ledger.position

(* Setups and fills lie in the past, a setup in the hours of trading.      *)
PastInv ==
  /\ \A s \in ledger.intents : s <= now /\ s % DayLength <= Close
  /\ \A f \in ledger.fills : f.time <= now

IInv ==
  /\ TypeOK /\ BuilderInv /\ ClockInv /\ ThreadInv
  /\ LedgerInv /\ PastInv /\ FillsInItsMinute

-----------------------------------------------------------------------------
(* What a step of the process does to the facts of the ledger: nothing, or *)
(* one of the four moves of a setup.                                       *)

Intends(s) ==
  /\ s \notin ledger.intents /\ s <= now /\ s % DayLength <= Close
  /\ ledger.position = None /\ ledger.pendingBuy = None
  /\ ledger'.position = None /\ ledger'.pendingBuy = s
  /\ ledger'.intents = ledger.intents \cup {s}
  /\ ledger'.fills = ledger.fills /\ ledger'.closed = ledger.closed

Drops ==
  /\ ledger.pendingBuy # None
  /\ ledger'.pendingBuy = None /\ ledger'.position = ledger.position
  /\ ledger'.intents = ledger.intents
  /\ ledger'.fills = ledger.fills /\ ledger'.closed = ledger.closed

Fills(s) ==
  /\ ledger.pendingBuy = s
  /\ s <= tick /\ tick < s + Minute
  /\ ledger'.position = s /\ ledger'.pendingBuy = None
  /\ ledger'.intents = ledger.intents /\ ledger'.closed = ledger.closed
  /\ ledger'.fills = ledger.fills \cup {[buy |-> s, time |-> tick]}

Closes(result) ==
  /\ ledger.position # None
  /\ ledger'.position = None /\ ledger'.pendingBuy = ledger.pendingBuy
  /\ ledger'.intents = ledger.intents /\ ledger'.fills = ledger.fills
  /\ ledger'.closed = ledger.closed \cup {<<ledger.position, result>>}

LedgerStep ==
  /\ now' \in Times /\ now <= now' /\ ledger' \in PaperLedgers
  /\ \/ SameFacts(ledger, ledger')
     \/ \E s \in Signals : Intends(s)
     \/ Drops
     \/ \E s \in Signals : Fills(s)
     \/ \E result \in Results : Closes(result)

(* Each of the moves keeps what the ledger means.                          *)
LEMMA LedgerKept ==
  ASSUME IInv, LedgerStep
  PROVE  LedgerInv' /\ PastInv' /\ FillsInItsMinute'
  <1> USE DEF IInv
  <1>1. ledger \in PaperLedgers /\ tick \in Times /\ tick <= now
        /\ now \in Times /\ now' \in Times /\ now <= now'
    BY DEF TypeOK, PaperLedgers, ClockInv, LedgerStep
  <1>2. \A s \in Signals : s \in Times
    BY PaperAssumption
  <1>3. /\ ledger.intents \subseteq Signals
        /\ ledger.fills \subseteq [buy : Signals, time : Times]
        /\ ledger.closed \subseteq Signals \X Results
        /\ ledger.position \in Signals \cup {None}
    BY <1>1 DEF PaperLedgers, Ledgers
  <1>4. \A s \in Signals : s # None
    BY <1>2, TimesAreNat, ClockAssumption
  <1>10. /\ \A s \in ledger.intents : s \in Nat /\ s <= now'
         /\ \A f \in ledger.fills : f.time \in Nat /\ f.time <= now'
    <2>1. \A s \in ledger.intents : s \in Nat /\ s <= now
      BY <1>2, <1>3, TimesAreNat DEF PastInv
    <2>2. \A f \in ledger.fills : f.time \in Nat /\ f.time <= now
      BY <1>3, TimesAreNat DEF PastInv
    <2> QED
      BY <1>1, <2>1, <2>2, TimesAreNat
  <1>5. CASE SameFacts(ledger, ledger')
    <2>1. Filled(ledger)' = Filled(ledger)
      BY <1>5 DEF SameFacts, Filled
    <2>2. LedgerInv'
      BY <1>5, <2>1 DEF SameFacts, LedgerInv
    <2>3. PastInv' /\ FillsInItsMinute'
      BY <1>5, <1>10
      DEF SameFacts, PastInv, FillsInItsMinute
    <2> QED BY <2>2, <2>3
  <1>6. ASSUME NEW s \in Signals, Intends(s)
        PROVE  LedgerInv' /\ PastInv' /\ FillsInItsMinute'
    <2>1. Filled(ledger)' = Filled(ledger)
      BY <1>6 DEF Intends, Filled
    <2>2. LedgerInv'
      BY <1>4, <1>6, <2>1 DEF Intends, LedgerInv
    <2>0. s <= now
      BY <1>6 DEF Intends
    <2>3. s <= now'
      <3>1. s \in Nat /\ now \in Nat /\ now' \in Nat
        BY <1>1, <1>2, TimesAreNat
      <3> QED BY <1>1, <2>0, <3>1
    <2>4. PastInv' /\ FillsInItsMinute'
      BY <1>6, <1>10, <2>3 DEF Intends, PastInv, FillsInItsMinute
    <2> QED BY <2>2, <2>4
  <1>7. CASE Drops
    <2>1. Filled(ledger)' = Filled(ledger)
      BY <1>7 DEF Drops, Filled
    <2>2. LedgerInv'
      BY <1>7, <2>1 DEF Drops, LedgerInv
    <2>3. PastInv' /\ FillsInItsMinute'
      BY <1>7, <1>10
      DEF Drops, PastInv, FillsInItsMinute
    <2> QED BY <2>2, <2>3
  <1>8. ASSUME NEW s \in Signals, Fills(s)
        PROVE  LedgerInv' /\ PastInv' /\ FillsInItsMinute'
    <2> DEFINE fill == [buy |-> s, time |-> tick]
    <2>1. fill.buy = s /\ fill.time = tick
      OBVIOUS
    <2>2. ledger'.fills = ledger.fills \cup {fill}
      BY <1>8 DEF Fills
    <2> HIDE DEF fill
    <2>3. Filled(ledger)' = Filled(ledger) \cup {s}
      BY <2>1, <2>2 DEF Filled
    <2>4. IsFiniteSet(ledger'.fills)
      BY <2>2, FS_AddElement DEF LedgerInv
    <2>5. /\ ledger.pendingBuy = s /\ s # None /\ ledger.position = None
          /\ s \in ledger.intents /\ s \notin Filled(ledger)
      BY <1>4, <1>8 DEF Fills, LedgerInv
    <2>6. /\ ledger'.position = s /\ ledger'.pendingBuy = None
          /\ ledger'.intents = ledger.intents /\ ledger'.closed = ledger.closed
      BY <1>8 DEF Fills
    <2>7. LedgerInv'
      BY <2>3, <2>4, <2>5, <2>6 DEF LedgerInv
    <2>8. PastInv'
      <3>1. \A q \in ledger'.intents : q <= now' /\ q % DayLength <= Close
        BY <1>10, <2>6 DEF PastInv
      <3>2. tick <= now'
        <4>1. tick \in Nat /\ now \in Nat /\ now' \in Nat
          BY <1>1, TimesAreNat
        <4> QED BY <1>1, <4>1
      <3>3. \A f \in ledger'.fills : f.time <= now'
        BY <1>10, <2>1, <2>2, <3>2
      <3> QED BY <3>1, <3>3 DEF PastInv
    <2>9. s <= tick /\ tick < s + Minute
      BY <1>8 DEF Fills
    <2>10. FillsInItsMinute'
      BY <2>1, <2>2, <2>9 DEF FillsInItsMinute
    <2> QED BY <2>7, <2>8, <2>10
  <1>9. ASSUME NEW result \in Results, Closes(result)
        PROVE  LedgerInv' /\ PastInv' /\ FillsInItsMinute'
    <2> DEFINE c == <<ledger.position, result>>
    <2>1. c[1] = ledger.position
      OBVIOUS
    <2>2. ledger'.closed = ledger.closed \cup {c}
      BY <1>9 DEF Closes
    <2> HIDE DEF c
    <2>3. /\ ledger'.position = None /\ ledger'.pendingBuy = ledger.pendingBuy
          /\ ledger'.intents = ledger.intents /\ ledger'.fills = ledger.fills
          /\ ledger.position # None
      BY <1>9 DEF Closes
    <2>4. Filled(ledger)' = Filled(ledger)
      BY <2>3 DEF Filled
    <2>5. \A k \in ledger.closed : k[1] # None
      BY <1>3, <1>4
    <2>6. LedgerInv'
      BY <2>1, <2>2, <2>3, <2>4, <2>5 DEF LedgerInv
    <2>7. PastInv' /\ FillsInItsMinute'
      BY <2>3, <1>10
      DEF PastInv, FillsInItsMinute
    <2> QED BY <2>6, <2>7
  <1> QED
    BY <1>5, <1>6, <1>7, <1>8, <1>9 DEF LedgerStep

-----------------------------------------------------------------------------
(* The candle builder                                                      *)

(* The times of the builder and of the tick are numbers.                   *)
LEMMA BuilderTypes ==
  ASSUME TypeOK
  PROVE  /\ now \in Nat /\ tick \in Nat /\ tick \in Times
         /\ minute # None => minute \in Nat
         /\ builderLast # None => builderLast \in Nat
         /\ candle # None => candle \in Nat
         /\ FeedDelay \in Nat
  BY TimesAreNat, PaperAssumption DEF TypeOK

(* candles.py:94-146: the candle a tick completes ended no later than the  *)
(* tick, also when the tick is late and of an earlier date.                *)
LEMMA CompletedInTime ==
  ASSUME TypeOK, BuilderInv, NEW t \in Times, t <= now, now <= t + FeedDelay,
         CompletedBy(t) # None
  PROVE  /\ CompletedBy(t) = minute /\ minute # None
         /\ Aligned(minute) /\ minute + Minute <= t
  <1>1. CompletedBy(t) = minute /\ minute # None
    BY DEF CompletedBy
  <1>2. /\ t \in Nat /\ minute \in Nat /\ builderLast \in Nat /\ now \in Nat
        /\ minute <= builderLast /\ builderLast <= now /\ Aligned(minute)
    BY <1>1, BuilderTypes, TimesAreNat DEF BuilderInv
  <1>3. CASE InSession(t)
    <2>1. minute < MinuteOf(t) /\ MinuteOf(t) \in Nat /\ MinuteOf(t) <= t
      BY <1>1, <1>2, <1>3, MinuteOfTime DEF CompletedBy
    <2>2. Aligned(MinuteOf(t))
      BY <1>2, <1>3, MinuteOfTime
    <2>3. minute + Minute <= MinuteOf(t)
      BY <1>2, <2>1, <2>2, MinuteEnds
    <2> QED BY <1>1, <1>2, <2>1, <2>3, Clock
  <1>4. CASE ~InSession(t)
    <2>1. Date(t) # Date(minute) \/ Close <= t % DayLength
      BY <1>1, <1>4, DateTime, Clock, <1>2 DEF CompletedBy
    <2>2. minute < t
      <3>1. CASE Date(t) < Date(minute)
        <4>1. t < minute - (minute % DayLength)
          BY <1>2, <3>1, LaterDate
        <4>2. Open <= minute % DayLength /\ FeedDelay <= Open
          BY <1>2, PaperAssumption DEF Aligned, InSession
        <4>3. (minute % DayLength) \in Nat /\ FeedDelay \in Nat /\ Open \in Nat
          BY <1>2, DateTime, BuilderTypes, Clock
        <4> QED
          BY <1>2, <4>1, <4>2, <4>3
      <3>2. CASE Date(minute) < Date(t)
        <4>1. minute < t - (t % DayLength)
          BY <1>2, <3>2, LaterDate
        <4> QED BY <1>2, <4>1, DateTime
      <3>3. CASE Date(minute) = Date(t)
        <4> DEFINE b == DayLength * Date(t)
                   r == t % DayLength
                   v == minute % DayLength
        <4>1. /\ r \in Nat /\ v \in Nat /\ t = b + r /\ minute = b + v
              /\ Date(t) \in Nat
          BY <1>2, <3>3, DateTime
        <4>2. v < Close /\ Close <= r
          BY <1>2, <2>1, <3>3 DEF Aligned, InSession
        <4>3. b \in Nat
          BY <4>1, Clock
        <4> HIDE DEF b, r, v
        <4> QED BY <4>1, <4>2, <4>3, Clock
      <3> QED
        BY <3>1, <3>2, <3>3, <1>2, DateTime
    <2> QED
      BY <1>1, <1>2, <2>1, <2>2, MinuteEnds
  <1> QED
    BY <1>3, <1>4

(* candles.py:94-121: taking a tick leaves the builder on a minute of a    *)
(* session.                                                                *)
LEMMA AddKeepsBuilder ==
  ASSUME TypeOK, BuilderInv, NEW t \in Times, t <= now, Add(t), UNCHANGED now
  PROVE  /\ BuilderInv'
         /\ minute' \in Times \cup {None} /\ builderLast' \in Times \cup {None}
         /\ minute' # None => \/ minute' = minute /\ CompletedBy(t) = None
                              \/ InSession(t) /\ minute' = MinuteOf(t)
  <1>1. /\ t \in Nat /\ now \in Nat /\ now <= MaxTime
    BY BuilderTypes, TimesAreNat DEF TypeOK, Times
  <1>2. CASE ~InSession(t)
    BY <1>2 DEF Add, BuilderInv, TypeOK
  <1>3. CASE InSession(t) /\ Reordered(t)
    BY <1>3 DEF Add, BuilderInv, TypeOK, builderVars, CompletedBy
  <1>4. CASE InSession(t) /\ ~Reordered(t)
    <2>1. /\ builderLast' = t
          /\ \/ minute' = MinuteOf(t)
             \/ minute' = minute /\ minute # None /\ CompletedBy(t) = None
      BY <1>4 DEF Add
    <2>2. /\ MinuteOf(t) \in Nat /\ MinuteOf(t) <= t /\ Aligned(MinuteOf(t))
      BY <1>1, <1>4, MinuteOfTime
    <2>3. MinuteOf(t) \in Times
      BY <1>1, <2>2, PaperAssumption DEF Times
    <2>4. t # None
      BY <1>1, Clock
    <2>5. minute # None => minute <= t
      <3>1. minute # None => /\ minute \in Nat /\ builderLast \in Nat
                             /\ minute <= builderLast /\ ~(t < builderLast)
        BY <1>4, BuilderTypes DEF BuilderInv, Reordered
      <3> QED BY <1>1, <3>1
    <2>6. BuilderInv'
      BY <1>1, <1>4, <2>1, <2>2, <2>4, <2>5
      DEF BuilderInv, Aligned, InSession
    <2> QED
      BY <1>4, <2>1, <2>3, <2>6 DEF TypeOK
  <1> QED
    BY <1>2, <1>3, <1>4

-----------------------------------------------------------------------------
(* One lemma per group of actions: the step keeps the types, the stamps    *)
(* and what the threads hold, and makes at most one move in the ledger.    *)

StepKept == TypeOK' /\ BuilderInv' /\ ClockInv' /\ ThreadInv' /\ LedgerStep

(* What the steps below need of the invariant.                             *)
LEMMA IInvFacts ==
  ASSUME IInv
  PROVE  /\ now \in Times /\ tick \in Times /\ ledger \in PaperLedgers
         /\ ledger.latest \in Nat /\ ledger.latest <= now
         /\ Signals \subseteq Times /\ None \notin Times /\ None \notin Signals
         /\ armed # None => armed \in Signals
         /\ position # None => position \in Signals
         /\ candle # None => candle \in Times /\ candle + Minute \in Times
                             /\ candle + Minute <= now
  <1>1. /\ now \in Times /\ tick \in Times /\ ledger \in PaperLedgers
        /\ ledger.latest \in Times /\ ledger.latest <= now
        /\ tick <= now /\ now <= MaxTime /\ now \in Nat /\ tick \in Nat
        /\ candle # None => candle \in Nat /\ candle + Minute <= tick
    BY TimesAreNat DEF IInv, TypeOK, ClockInv, PaperLedgers, Ledgers, Times
  <1>2. candle # None => candle \in Times /\ candle + Minute \in Times
                         /\ candle + Minute <= now
    BY <1>1, Clock, PaperAssumption DEF Times
  <1> QED
    BY <1>1, <1>2, TimesAreNat, PaperAssumption, Clock DEF IInv, TypeOK

(* A step that leaves the facts of the ledger alone.                       *)
LEMMA NoMove ==
  ASSUME IInv, ledger' \in PaperLedgers, SameFacts(ledger, ledger'),
         UNCHANGED now
  PROVE  LedgerStep
  <1>1. now \in Nat /\ now \in Times
    BY IInvFacts, TimesAreNat
  <1> QED BY <1>1 DEF LedgerStep

(* A line stamped no later than the clock keeps the stamps in the past.    *)
LEMMA StampsKept ==
  ASSUME IInv, NEW t \in Times, t <= now, ledger'.latest \in {ledger.latest, t},
         UNCHANGED <<now, tick, candle, heartbeat, minute>>
  PROVE  ClockInv'
  BY DEF IInv, ClockInv

(* main() and recover() (fyers_paper.py:92-111): a restart takes position, *)
(* armed BUY and counter from the ledger.                                  *)
LEMMA StartKept ==
  ASSUME IInv, Start
  PROVE  StepKept
  <1>1. LedgerStep
    BY NoMove, IInvFacts DEF Start, clockVars, SameFacts
  <1>2. FilledAt(ledger.position) \in Times \/ ledger.position = None
    <2>1. CASE ledger.position # None
      <3>1. ledger.position \in Filled(ledger)
        BY <2>1 DEF IInv, LedgerInv
      <3>2. PICK f \in ledger.fills : f.buy = ledger.position
        BY <3>1 DEF Filled
      <3>3. (CHOOSE g \in ledger.fills : g.buy = ledger.position) \in ledger.fills
        BY <3>2
      <3> QED
        BY <3>3, IInvFacts DEF FilledAt, PaperLedgers, Ledgers
    <2> QED BY <2>1
  <1>3. trades' \in Nat
    <2>1. IsFiniteSet({f \in ledger.fills : Date(f.time) = Date(now)})
      BY FS_Subset DEF IInv, LedgerInv
    <2> QED
      BY <2>1, FS_CardinalityType DEF Start
  <1>4. TypeOK'
    <2>1. position' \in Signals \cup {None} /\ armed' \in Signals \cup {None}
      BY IInvFacts DEF Start, PaperLedgers, Ledgers
    <2>2. entryTime' \in Times \cup {None}
      BY <1>2 DEF Start
    <2> QED
      BY <1>3, <2>1, <2>2
      DEF Start, IInv, TypeOK, Controls, clockVars, feedVars, NewBuilder
  <1>5. BuilderInv'
    BY DEF Start, NewBuilder, BuilderInv
  <1>6. ClockInv'
    BY DEF Start, NewBuilder, ClockInv, IInv, ThreadInv, clockVars
  <1>7. ThreadInv'
    BY <1>2, IInvFacts DEF Start, ThreadInv, IInv, Settled, clockVars
  <1> QED
    BY <1>1, <1>4, <1>5, <1>6, <1>7 DEF StepKept

(* The process can die between any two steps of either thread.             *)
LEMMA CrashKept ==
  ASSUME IInv, Crash
  PROVE  StepKept
  <1>1. LedgerStep
    BY NoMove, IInvFacts DEF Crash, SameFacts
  <1>2. TypeOK'
    <2>1. crashes' \in 0 .. MaxCrashes
      BY PaperAssumption DEF Crash, IInv, TypeOK
    <2> QED
      BY <2>1 DEF Crash, IInv, TypeOK, Controls, NewBuilder
  <1>3. BuilderInv' /\ ClockInv'
    BY DEF Crash, NewBuilder, BuilderInv, ClockInv, IInv
  <1>4. ThreadInv'
    BY DEF Crash, ThreadInv, IInv, Settled, LedgerInv
  <1> QED
    BY <1>1, <1>2, <1>3, <1>4 DEF StepKept

(* fyers_m1.py:50-58: a tick reaches the builder.                          *)
LEMMA ArrivalKept ==
  ASSUME IInv, NEW t \in Times, TickArrives(t)
  PROVE  StepKept
  <1>0. /\ t <= now /\ now <= t + FeedDelay /\ Add(t) /\ UNCHANGED now
        /\ tick' = t /\ candle' = CompletedBy(t) /\ UNCHANGED <<ledger, heartbeat>>
        /\ TypeOK /\ BuilderInv
    BY DEF TickArrives, clockVars, IInv
  <1>1. LedgerStep
    BY <1>0, NoMove, IInvFacts DEF SameFacts
  <1>2. candle' # None => /\ candle' = minute /\ minute # None
                          /\ Aligned(minute) /\ minute + Minute <= t
    BY <1>0, CompletedInTime
  <1>3. /\ BuilderInv'
        /\ minute' \in Times \cup {None} /\ builderLast' \in Times \cup {None}
        /\ minute' # None => \/ minute' = minute /\ CompletedBy(t) = None
                             \/ InSession(t) /\ minute' = MinuteOf(t)
    BY <1>0, AddKeepsBuilder
  <1>4. TypeOK'
    BY <1>0, <1>2, <1>3
    DEF TickArrives, TypeOK, Controls, clockVars, brokerVars, feedVars
  <1>5. candle' # None /\ minute' # None => candle' <= minute'
    <2> SUFFICES ASSUME candle' # None, minute' # None
                 PROVE  candle' <= minute'
      OBVIOUS
    <2>1. InSession(t) /\ minute' = MinuteOf(t) /\ candle' = minute
      BY <1>0, <1>2, <1>3
    <2>2. minute < MinuteOf(t)
      BY <1>0, <2>1 DEF CompletedBy
    <2>3. minute \in Nat /\ MinuteOf(t) \in Nat
      BY <1>0, <1>2, <2>1, BuilderTypes, MinuteOfTime, TimesAreNat
    <2> QED BY <2>1, <2>2, <2>3
  <1>6. ClockInv'
    <2>1. candle' # None => Aligned(candle)' /\ candle' + Minute <= tick'
      BY <1>0, <1>2 DEF Aligned, InSession
    <2> QED
      BY <1>0, <1>5, <2>1 DEF ClockInv, IInv
  <1>7. ThreadInv'
    BY <1>0 DEF TickArrives, ThreadInv, IInv, Settled, brokerVars
  <1> QED
    BY <1>1, <1>3, <1>4, <1>6, <1>7 DEF StepKept

(* Cancelling an armed BUY drops the outstanding intent                    *)
(* (fyers_paper.py:229-234).                                               *)
LEMMA CancelKept ==
  ASSUME IInv, pc \in Settled, armed # None, NEW t \in Times, t <= now,
         CancelArmed(t), UNCHANGED now
  PROVE  /\ LedgerStep /\ ledger'.latest \in {ledger.latest, t}
         /\ ledger' \in PaperLedgers
         /\ ledger'.position = ledger.position /\ ledger'.pendingBuy = None
         /\ armed' = None /\ engine' = "DONE"
  <1>1. /\ ledger' = BuyDropped(ledger, t) /\ armed' = None /\ engine' = "DONE"
        /\ ledger.pendingBuy # None
    BY DEF CancelArmed, IInv, ThreadInv
  <1>2. ledger \in PaperLedgers /\ now \in Nat /\ now \in Times
    BY IInvFacts, TimesAreNat
  <1> QED
    BY <1>1, <1>2, DropLine DEF LedgerStep, Drops

(* Closing the position of the broker closes that of the ledger            *)
(* (paper.py:117-138).                                                     *)
LEMMA CloseKept ==
  ASSUME IInv, pc \in Settled, position # None, NEW t \in Times, t <= now,
         NEW result \in Results, CloseBroker(result, t), UNCHANGED now
  PROVE  /\ LedgerStep /\ ledger'.latest \in {ledger.latest, t}
         /\ ledger' \in PaperLedgers
         /\ ledger'.position = None /\ ledger'.pendingBuy = ledger.pendingBuy
         /\ ledger.pendingBuy = None
         /\ position' = None /\ entryTime' = None /\ trades' = trades
  <1> DEFINE c == <<position, result>>
  <1>1. /\ ledger' = PositionClosed(ledger, c, t)
        /\ position' = None /\ entryTime' = None /\ trades' = trades
        /\ position = ledger.position /\ ledger.pendingBuy = None
    BY DEF CloseBroker, IInv, ThreadInv, LedgerInv
  <1>2. /\ ledger \in PaperLedgers /\ now \in Nat /\ now \in Times
        /\ c \in Signals \X Results
    BY IInvFacts, TimesAreNat
  <1> HIDE DEF c
  <1>3. /\ ledger'.latest \in {ledger.latest, t}
        /\ ledger' \in PaperLedgers
        /\ ledger'.position = None /\ ledger'.pendingBuy = ledger.pendingBuy
        /\ ledger'.intents = ledger.intents /\ ledger'.fills = ledger.fills
        /\ ledger'.closed = ledger.closed \cup {c}
    BY <1>1, <1>2, CloseLine
  <1>4. Closes(result)
    BY <1>1, <1>3 DEF Closes, c
  <1> QED
    BY <1>1, <1>2, <1>3, <1>4 DEF LedgerStep

(* The rollover clears what an earlier session left, then starts the new   *)
(* one (fyers_paper.py:236-255).                                           *)
LEMMA RolloverKept ==
  ASSUME IInv, RollArmed \/ RollPosition \/ StartSession
  PROVE  StepKept
  <1>1. /\ pc = "candle" /\ candle \in Times /\ candle <= now /\ UNCHANGED now
        /\ UNCHANGED <<clockVars, tick, candle, feedVars, heartbeat, builderVars>>
        /\ pc' = pc /\ pc \in Settled
    <2>1. pc = "candle" /\ candle # None /\ Stays /\ pc' = pc
      BY DEF RollArmed, RollPosition, StartSession, Rollover, IInv, ThreadInv
    <2>2. candle \in Times /\ candle + Minute <= now
      BY <2>1, IInvFacts
    <2>3. candle <= now
      <3>1. candle \in Nat /\ now \in Nat /\ Minute \in Nat
        BY <2>2, IInvFacts, TimesAreNat, Clock
      <3> QED BY <2>2, <3>1
    <2> QED
      BY <2>1, <2>2, <2>3 DEF Stays, clockVars, Settled
  <1>2. BuilderInv'
    BY <1>1 DEF BuilderInv, IInv, builderVars
  <1>3. CASE RollArmed
    <2>1. /\ LedgerStep /\ ledger'.latest \in {ledger.latest, candle}
          /\ ledger' \in PaperLedgers
          /\ ledger'.position = ledger.position /\ ledger'.pendingBuy = None
          /\ armed' = None /\ engine' = "DONE"
      BY <1>1, <1>3, CancelKept DEF RollArmed
    <2>2. ClockInv'
      BY <1>1, <2>1, StampsKept DEF builderVars
    <2>3. TypeOK' /\ ThreadInv'
      BY <1>1, <1>3, <2>1
      DEF RollArmed, IInv, TypeOK, ThreadInv, Settled, brokerVars, PaperLedgers,
          clockVars, feedVars, builderVars
    <2> QED BY <1>2, <2>1, <2>2, <2>3 DEF StepKept
  <1>4. CASE RollPosition
    <2>1. /\ LedgerStep /\ ledger'.latest \in {ledger.latest, candle}
          /\ ledger' \in PaperLedgers
          /\ ledger'.position = None /\ ledger'.pendingBuy = ledger.pendingBuy
          /\ position' = None /\ entryTime' = None /\ trades' = trades
      BY <1>1, <1>4, CloseKept DEF RollPosition, Results
    <2>2. ClockInv'
      BY <1>1, <2>1, StampsKept DEF builderVars
    <2>3. TypeOK' /\ ThreadInv'
      BY <1>1, <1>4, <2>1
      DEF RollPosition, IInv, TypeOK, ThreadInv, Settled, PaperLedgers,
          clockVars, feedVars, builderVars
    <2> QED BY <1>2, <2>1, <2>2, <2>3 DEF StepKept
  <1>5. CASE StartSession
    <2>1. ledger' = ledger
      BY <1>5 DEF StartSession
    <2>2. LedgerStep /\ ClockInv'
      BY <1>1, <2>1, NoMove, IInvFacts
      DEF SameFacts, ClockInv, IInv, builderVars
    <2>3. TypeOK'
      <3>1. trades' \in Nat
        BY <1>5 DEF StartSession, ResetDay, IInv, TypeOK
      <3>2. sessionDate' \in {Date(t) : t \in Times} \cup {None}
        BY <1>1, <1>5 DEF StartSession
      <3> QED
        BY <1>1, <1>5, <3>1, <3>2
        DEF StartSession, IInv, TypeOK, clockVars, feedVars, builderVars
    <2>4. ThreadInv'
      BY <1>1, <1>5 DEF StartSession, ThreadInv, IInv, Settled
    <2> QED BY <1>2, <2>2, <2>3, <2>4 DEF StepKept
  <1> QED
    BY <1>3, <1>4, <1>5

(* A candle: it may end the confirmation minute, or be the signal          *)
(* (fyers_paper.py:121-145, 209-227).                                      *)
LEMMA CandleKept ==
  ASSUME IInv, OnCandle
  PROVE  StepKept
  <1>1. /\ pc = "candle" /\ candle \in Times /\ candle <= now /\ UNCHANGED now
        /\ candle + Minute \in Times /\ candle + Minute <= now /\ Aligned(candle)
        /\ UNCHANGED <<clockVars, tick, candle, feedVars, heartbeat, builderVars>>
        /\ pc' \in {"end", "tick"} /\ pc \in Settled /\ candle # None
        /\ UNCHANGED <<brokerVars, sessionDate>>
    <2>1. pc = "candle" /\ candle # None /\ Stays
      BY DEF OnCandle, IInv, ThreadInv
    <2>2. candle \in Times /\ candle + Minute <= now /\ candle + Minute \in Times
      BY <2>1, IInvFacts
    <2>3. candle <= now
      <3>1. candle \in Nat /\ now \in Nat /\ Minute \in Nat
        BY <2>2, IInvFacts, TimesAreNat, Clock
      <3> QED BY <2>2, <3>1
    <2> QED
      BY <2>1, <2>2, <2>3 DEF OnCandle, Stays, clockVars, Settled, IInv, ClockInv
  <1>2. BuilderInv'
    BY <1>1 DEF BuilderInv, IInv, builderVars
  <1>3. ASSUME UNCHANGED <<armed, ledger>>, engine' \in {"WAIT", "DONE", engine}
        PROVE  StepKept
    <2>1. LedgerStep /\ ClockInv'
      BY <1>1, <1>3, NoMove, IInvFacts
      DEF SameFacts, ClockInv, IInv, builderVars
    <2>2. TypeOK' /\ ThreadInv'
      BY <1>1, <1>3
      DEF IInv, TypeOK, ThreadInv, Settled, Controls, brokerVars,
          clockVars, feedVars, builderVars
    <2> QED BY <1>2, <2>1, <2>2 DEF StepKept
  <1>4. ASSUME ConfirmationOver, CancelArmed(candle)
        PROVE  StepKept
    <2>1. /\ LedgerStep /\ ledger'.latest \in {ledger.latest, candle}
          /\ ledger' \in PaperLedgers
          /\ ledger'.position = ledger.position /\ ledger'.pendingBuy = None
          /\ armed' = None /\ engine' = "DONE"
      BY <1>1, <1>4, CancelKept DEF ConfirmationOver
    <2>2. ClockInv'
      BY <1>1, <2>1, StampsKept DEF builderVars
    <2>3. TypeOK' /\ ThreadInv'
      BY <1>1, <2>1
      DEF IInv, TypeOK, ThreadInv, Settled, Controls, brokerVars, PaperLedgers,
          clockVars, feedVars, builderVars
    <2> QED BY <1>2, <2>1, <2>2, <2>3 DEF StepKept
  <1>5. ASSUME Strategy, candle + Minute \in Signals \ ledger.intents,
               armed' = candle + Minute, engine' = "LONG_READY",
               ledger' = BuyIntent(ledger, candle + Minute, candle + Minute)
        PROVE  StepKept
    <2> DEFINE s == candle + Minute
    <2>1. s \in Signals /\ s \notin ledger.intents /\ s \in Times /\ s <= now
          /\ armed' = s /\ ledger' = BuyIntent(ledger, s, s)
      BY <1>1, <1>5
    <2>2. ledger.position = None /\ ledger.pendingBuy = None /\ position = None
      BY <1>1, <1>5 DEF Strategy, IInv, ThreadInv
    <2>3. s % DayLength <= Close
      <3> DEFINE r == candle % DayLength
                 b == DayLength * Date(candle)
      <3>1. /\ candle \in Nat /\ r \in Nat /\ Date(candle) \in Nat
            /\ candle = b + r
        BY <1>1, TimesAreNat, DateTime
      <3>2. r < Close /\ r % Minute = 0
        BY <1>1 DEF Aligned, InSession
      <3>3. r + Minute <= Close
        BY <3>1, <3>2, Clock, WholeUnits
      <3>4. b \in Nat
        BY <3>1, Clock
      <3>5. s = b + (r + Minute) /\ r + Minute \in 0 .. (DayLength - 1)
        <4> HIDE DEF r, b
        <4> QED BY <3>1, <3>3, <3>4, Clock
      <3>6. (b + (r + Minute)) % DayLength = r + Minute
        <4> HIDE DEF r
        <4> QED BY <3>1, <3>5, Clock, DivModUnique
      <3> HIDE DEF r, b, s
      <3> QED BY <3>3, <3>5, <3>6
    <2> HIDE DEF s
    <2>4. /\ ledger' \in PaperLedgers /\ ledger'.latest \in {ledger.latest, s}
          /\ ledger'.pendingBuy = s /\ ledger'.position = None
          /\ ledger'.intents = ledger.intents \cup {s}
          /\ ledger'.fills = ledger.fills /\ ledger'.closed = ledger.closed
      BY <2>1, <2>2, IInvFacts, IntentLine
    <2>5. Intends(s)
      BY <2>1, <2>2, <2>3, <2>4 DEF Intends
    <2>6. now \in Times /\ now \in Nat
      BY IInvFacts, TimesAreNat
    <2>7. LedgerStep
      <3>1. now' \in Times /\ now <= now'
        BY <1>1, <2>6
      <3>2. \E setup \in Signals : Intends(setup)
        BY <2>1, <2>5
      <3> QED BY <2>4, <3>1, <3>2 DEF LedgerStep
    <2>8. ClockInv'
      BY <1>1, <2>1, <2>4, StampsKept DEF builderVars
    <2>9. TypeOK' /\ ThreadInv'
      BY <1>1, <1>5, <2>1, <2>2, <2>4
      DEF IInv, TypeOK, ThreadInv, Settled, Controls, brokerVars, PaperLedgers,
          clockVars, feedVars, builderVars
    <2> QED BY <1>2, <2>7, <2>8, <2>9 DEF StepKept
  <1> QED
    BY <1>3, <1>4, <1>5 DEF OnCandle

(* The session's end (fyers_paper.py:147-152).                             *)
LEMMA EndKept ==
  ASSUME IInv, EndArmed \/ EndPosition \/ EndDone
  PROVE  StepKept
  <1>1. /\ pc = "end" /\ candle + Minute \in Times /\ candle + Minute <= now
        /\ UNCHANGED <<clockVars, tick, candle, feedVars, heartbeat, builderVars>>
        /\ UNCHANGED <<now, sessionDate>> /\ pc' \in {pc, "tick"} /\ pc \in Settled
        /\ candle # None
    <2>1. pc = "end" /\ candle # None /\ Stays
      BY DEF EndArmed, EndPosition, EndDone, IInv, ThreadInv
    <2> QED
      BY <2>1, IInvFacts
      DEF EndArmed, EndPosition, EndDone, Stays, clockVars, Settled
  <1>2. BuilderInv'
    BY <1>1 DEF BuilderInv, IInv, builderVars
  <1>3. CASE EndArmed
    <2>1. /\ LedgerStep /\ ledger'.latest \in {ledger.latest, candle + Minute}
          /\ ledger' \in PaperLedgers
          /\ ledger'.position = ledger.position /\ ledger'.pendingBuy = None
          /\ armed' = None /\ engine' = "DONE"
      BY <1>1, <1>3, CancelKept DEF EndArmed
    <2>2. ClockInv'
      BY <1>1, <2>1, StampsKept DEF builderVars
    <2>3. TypeOK' /\ ThreadInv'
      BY <1>1, <1>3, <2>1
      DEF EndArmed, IInv, TypeOK, ThreadInv, Settled, Controls, brokerVars,
          PaperLedgers, clockVars, feedVars, builderVars
    <2> QED BY <1>2, <2>1, <2>2, <2>3 DEF StepKept
  <1>4. CASE EndPosition
    <2>1. /\ LedgerStep /\ ledger'.latest \in {ledger.latest, candle + Minute}
          /\ ledger' \in PaperLedgers
          /\ ledger'.position = None /\ ledger'.pendingBuy = ledger.pendingBuy
          /\ position' = None /\ entryTime' = None /\ trades' = trades
      BY <1>1, <1>4, CloseKept DEF EndPosition, Results
    <2>2. ClockInv'
      BY <1>1, <2>1, StampsKept DEF builderVars
    <2>3. TypeOK' /\ ThreadInv'
      BY <1>1, <1>4, <2>1
      DEF EndPosition, IInv, TypeOK, ThreadInv, Settled, Controls, PaperLedgers,
          clockVars, feedVars, builderVars
    <2> QED BY <1>2, <2>1, <2>2, <2>3 DEF StepKept
  <1>5. CASE EndDone
    <2>1. LedgerStep /\ ClockInv'
      BY <1>1, <1>5, NoMove, IInvFacts
      DEF EndDone, SameFacts, ClockInv, IInv, builderVars
    <2>2. TypeOK' /\ ThreadInv'
      BY <1>1, <1>5
      DEF EndDone, IInv, TypeOK, ThreadInv, Settled, Controls, brokerVars,
          clockVars, feedVars, builderVars
    <2> QED BY <1>2, <2>1, <2>2 DEF StepKept
  <1> QED
    BY <1>3, <1>4, <1>5

(* on_tick with a position, or with nothing to do (fyers_paper.py:154-177).*)
LEMMA QuietTickKept ==
  ASSUME IInv, NEW zone \in Zones,
         IgnoreOlder \/ PositionTick(zone) \/ NoEntry(zone) \/ FeedHalts
         \/ DropArmed(zone) \/ Enter
  PROVE  StepKept
  <1>1. /\ pc = "tick" /\ pc \in Settled /\ UNCHANGED now
        /\ UNCHANGED <<clockVars, tick, sessionDate, heartbeat, builderVars>>
        /\ now \in Times /\ tick \in Times /\ tick <= now
        /\ ledger \in PaperLedgers
    BY IInvFacts
    DEF IgnoreOlder, PositionTick, NoEntry, FeedHalts, DropArmed, Enter,
        Considers, Held, clockVars, Settled, IInv, ClockInv
  <1>2. BuilderInv'
    BY <1>1 DEF BuilderInv, IInv, builderVars
  <1>3. /\ lastTick' \in Times \cup {None} /\ feedHalted' \in BOOLEAN
    BY <1>1 DEF IgnoreOlder, PositionTick, NoEntry, FeedHalts, DropArmed, Enter,
        Considers, Observe, feedVars, IInv, TypeOK
  <1>4. ledger'.latest \in {ledger.latest, tick} => ClockInv'
    BY <1>1 DEF IgnoreOlder, PositionTick, NoEntry, FeedHalts, DropArmed, Enter,
        Finished, ClockInv, IInv, builderVars, Aligned, InSession
  <1>5. ASSUME UNCHANGED <<ledger, brokerVars, armed, engine>>,
               pc' = "idle" /\ candle' = None
        PROVE  StepKept
    <2>1. LedgerStep
      BY <1>1, <1>5, NoMove DEF SameFacts
    <2>2. TypeOK' /\ ThreadInv'
      BY <1>1, <1>3, <1>5
      DEF IInv, TypeOK, ThreadInv, Settled, Controls, brokerVars,
          clockVars, builderVars
    <2> QED BY <1>2, <1>4, <1>5, <2>1, <2>2 DEF StepKept
  <1>6. CASE IgnoreOlder
    BY <1>5, <1>6 DEF IgnoreOlder, Finished
  <1>7. CASE PositionTick(zone)
    <2>1. ASSUME NEW result \in Results, CloseBroker(result, tick),
                 engine' = "DONE", armed' = None, Finished, position # None
          PROVE  StepKept
      <3>1. /\ LedgerStep /\ ledger'.latest \in {ledger.latest, tick}
            /\ ledger' \in PaperLedgers
            /\ ledger'.position = None /\ ledger'.pendingBuy = ledger.pendingBuy
            /\ ledger.pendingBuy = None
            /\ position' = None /\ entryTime' = None /\ trades' = trades
        BY <1>1, <2>1, CloseKept
      <3>2. TypeOK' /\ ThreadInv'
        BY <1>1, <1>3, <2>1, <3>1
        DEF Finished, IInv, TypeOK, ThreadInv, Settled, Controls, PaperLedgers,
            clockVars, builderVars
      <3> QED BY <1>2, <1>4, <3>1, <3>2 DEF StepKept
    <2>2. CASE UNCHANGED <<ledger, brokerVars, armed, engine>>
      BY <1>5, <1>7, <2>2 DEF PositionTick, Finished
    <2> QED
      BY <1>7, <2>1, <2>2 DEF PositionTick, Results
  <1>8. CASE NoEntry(zone)
    BY <1>5, <1>8 DEF NoEntry, Considers, Finished
  <1>9. CASE FeedHalts
    <2>1. /\ ledger' \in PaperLedgers /\ SameFacts(ledger, ledger')
          /\ ledger'.latest \in {ledger.latest, tick}
      BY <1>1, <1>9, SwitchLine DEF FeedHalts
    <2>2. LedgerStep
      BY <1>1, <2>1, NoMove
    <2>3. TypeOK' /\ ThreadInv'
      BY <1>1, <1>3, <1>9, <2>1
      DEF FeedHalts, Considers, Finished, IInv, TypeOK, ThreadInv, Settled,
          Controls, brokerVars, SameFacts, PaperLedgers, clockVars, builderVars
    <2> QED BY <1>2, <1>4, <2>1, <2>2, <2>3 DEF StepKept
  <1>10. CASE DropArmed(zone)
    <2>1. armed # None /\ CancelArmed(tick) /\ Finished /\ UNCHANGED brokerVars
      BY <1>10 DEF DropArmed, Live, Considers
    <2>2. /\ LedgerStep /\ ledger'.latest \in {ledger.latest, tick}
          /\ ledger' \in PaperLedgers
          /\ ledger'.position = ledger.position /\ ledger'.pendingBuy = None
          /\ armed' = None /\ engine' = "DONE"
      BY <1>1, <2>1, CancelKept
    <2>3. TypeOK' /\ ThreadInv'
      BY <1>1, <1>3, <2>1, <2>2
      DEF Finished, IInv, TypeOK, ThreadInv, Settled, Controls, brokerVars,
          PaperLedgers, clockVars, builderVars
    <2> QED BY <1>2, <1>4, <2>2, <2>3 DEF StepKept
  <1>11. CASE Enter
    <2>1. LedgerStep
      BY <1>1, <1>11, NoMove DEF Enter, SameFacts
    <2>2. armed # None /\ InMinute /\ position = None
      <3>1. armed # None /\ ~(tick >= armed + Minute) /\ tick >= armed
            /\ position = None
        BY <1>11 DEF Enter, Live, Expired, Considers
      <3>2. armed \in Nat /\ tick \in Nat /\ Minute \in Nat
        BY <1>1, <3>1, IInvFacts, TimesAreNat, Clock
      <3> QED
        BY <3>1, <3>2 DEF InMinute
    <2>3. TypeOK' /\ ThreadInv'
      BY <1>1, <1>3, <1>11, <2>2
      DEF Enter, Considers, IInv, TypeOK, ThreadInv, Settled, Controls, brokerVars,
          InMinute, clockVars, builderVars
    <2> QED BY <1>1, <1>2, <1>4, <1>11, <2>1, <2>3 DEF StepKept, Enter
  <1> QED
    BY <1>6, <1>7, <1>8, <1>9, <1>10, <1>11

(* The broker's decision, its appends and the acknowledgement of the fill  *)
(* (paper.py:77-104, fyers_paper.py:185-207).                              *)
LEMMA SubmitKept ==
  ASSUME IInv, SubmitAllowed \/ SubmitRejected \/ AfterRejection \/ AppendFill
               \/ AfterFill
  PROVE  StepKept
  <1>1. /\ UNCHANGED <<clockVars, tick, sessionDate, heartbeat, builderVars, feedVars>>
        /\ UNCHANGED now /\ now \in Times /\ tick \in Times /\ tick <= now
        /\ ledger \in PaperLedgers
    BY IInvFacts
    DEF SubmitAllowed, SubmitRejected, AfterRejection, AppendFill, AfterFill,
        Held, clockVars, IInv, ClockInv
  <1>2. BuilderInv'
    BY <1>1 DEF BuilderInv, IInv, builderVars
  <1>3. ledger'.latest \in {ledger.latest, tick} => ClockInv'
    BY <1>1 DEF SubmitAllowed, SubmitRejected, AfterRejection, AppendFill,
        AfterFill, Finished, ClockInv, IInv, builderVars, Aligned, InSession
  <1>4. CASE SubmitAllowed
    <2>1. LedgerStep
      BY <1>1, <1>4, NoMove DEF SubmitAllowed, SameFacts
    <2>2. /\ armed # None /\ InMinute /\ ledger.pendingBuy = armed
          /\ ledger.position = None /\ trades \in Nat /\ trades < MaxTrades
      BY <1>4 DEF SubmitAllowed, BrokerAllows, IInv, ThreadInv, Settled, TypeOK
    <2>3. trades' = trades + 1 /\ trades' <= MaxTrades /\ trades' \in Nat
      BY <1>4, <2>2, PaperAssumption DEF SubmitAllowed
    <2>4. TypeOK'
      BY <1>1, <1>4, <2>2, <2>3
      DEF SubmitAllowed, IInv, TypeOK, Controls, clockVars, builderVars, feedVars
    <2>5. ThreadInv'
      BY <1>1, <1>4, <2>2, <2>3, Clock, TimesAreNat
      DEF SubmitAllowed, IInv, ThreadInv, Settled, InMinute
    <2> QED BY <1>1, <1>2, <1>3, <1>4, <2>1, <2>4, <2>5 DEF StepKept, SubmitAllowed
  <1>5. CASE SubmitRejected
    <2>1. /\ ledger' \in PaperLedgers /\ SameFacts(ledger, ledger')
          /\ ledger'.latest \in {ledger.latest, tick}
      BY <1>1, <1>5, StampLine DEF SubmitRejected
    <2>2. LedgerStep
      BY <1>1, <2>1, NoMove
    <2>3. TypeOK' /\ ThreadInv'
      BY <1>1, <1>5, <2>1
      DEF SubmitRejected, IInv, TypeOK, ThreadInv, Settled, InMinute,
          Controls, brokerVars, SameFacts, PaperLedgers, clockVars, builderVars,
          feedVars
    <2> QED BY <1>2, <1>3, <2>1, <2>2, <2>3 DEF StepKept
  <1>6. CASE AfterRejection
    <2>1. /\ pc \in Settled /\ armed # None /\ CancelArmed(tick) /\ Finished
          /\ UNCHANGED brokerVars
      BY <1>6 DEF AfterRejection, Settled, IInv, ThreadInv
    <2>2. /\ LedgerStep /\ ledger'.latest \in {ledger.latest, tick}
          /\ ledger' \in PaperLedgers
          /\ ledger'.position = ledger.position /\ ledger'.pendingBuy = None
          /\ armed' = None /\ engine' = "DONE"
      BY <1>1, <2>1, CancelKept
    <2>3. TypeOK' /\ ThreadInv'
      BY <1>1, <2>1, <2>2
      DEF Finished, IInv, TypeOK, ThreadInv, Settled, Controls, brokerVars,
          PaperLedgers, clockVars, builderVars, feedVars
    <2> QED BY <1>2, <1>3, <2>2, <2>3 DEF StepKept
  <1>7. CASE AppendFill
    <2>1. /\ armed # None /\ armed \in Signals /\ InMinute
          /\ ledger.pendingBuy = armed /\ position = armed
      BY <1>7, IInvFacts DEF AppendFill, IInv, ThreadInv
    <2>2. /\ ledger' \in PaperLedgers /\ ledger'.latest \in {ledger.latest, tick}
          /\ ledger'.pendingBuy = None /\ ledger'.position = armed
          /\ ledger'.intents = ledger.intents /\ ledger'.closed = ledger.closed
          /\ ledger'.fills = ledger.fills \cup {[buy |-> armed, time |-> tick]}
      BY <1>1, <1>7, <2>1, FillLine DEF AppendFill
    <2>3. Fills(armed)
      BY <2>1, <2>2 DEF Fills, InMinute
    <2>4. LedgerStep
      <3>1. now' \in Times /\ now <= now'
        BY <1>1, TimesAreNat
      <3>2. \E s \in Signals : Fills(s)
        BY <2>1, <2>3
      <3> QED BY <2>2, <3>1, <3>2 DEF LedgerStep
    <2>5. TypeOK' /\ ThreadInv'
      BY <1>1, <1>7, <2>1, <2>2
      DEF AppendFill, IInv, TypeOK, ThreadInv, Settled, Controls, brokerVars,
          PaperLedgers, clockVars, builderVars, feedVars
    <2> QED BY <1>2, <1>3, <2>2, <2>4, <2>5 DEF StepKept
  <1>8. CASE AfterFill
    <2>1. /\ ledger' \in PaperLedgers /\ SameFacts(ledger, ledger')
          /\ ledger'.latest \in {ledger.latest, tick}
      BY <1>1, <1>8, StampLine DEF AfterFill
    <2>2. LedgerStep
      BY <1>1, <2>1, NoMove
    <2>3. ledger.position = armed /\ ledger.pendingBuy = None /\ armed = position
      BY <1>8 DEF AfterFill, IInv, ThreadInv, LedgerInv
    <2>4. TypeOK' /\ ThreadInv'
      BY <1>1, <1>8, <2>1, <2>3
      DEF AfterFill, Finished, IInv, TypeOK, ThreadInv, Settled,
          Controls, brokerVars, SameFacts, PaperLedgers, clockVars, builderVars,
          feedVars
    <2> QED BY <1>2, <1>3, <2>1, <2>2, <2>4 DEF StepKept
  <1> QED
    BY <1>4, <1>5, <1>6, <1>7, <1>8

(* The main thread, the operator and the clock run between any two steps   *)
(* of the market-data thread (fyers_paper.py:114-119).                     *)
LEMMA MainKept ==
  ASSUME IInv, \/ HeartbeatStale \/ HeartbeatRefuses \/ HeartbeatHalts
               \/ HeartbeatEngages \/ Operator
  PROVE  StepKept
  <1>0. now \in Nat /\ now \in Times /\ ledger \in PaperLedgers
    BY IInvFacts, TimesAreNat
  <1>1. /\ Main /\ UNCHANGED now /\ now \in Times /\ now <= now
        /\ ledger \in PaperLedgers
    BY <1>0
    DEF HeartbeatStale, HeartbeatRefuses, HeartbeatHalts, HeartbeatEngages, Operator, Main, clockVars
  <1>2. BuilderInv'
    BY <1>1 DEF BuilderInv, IInv, builderVars, Main
  <1>3. heartbeat # None =>
          /\ heartbeat \in {"stale", "engage"} \X Times
          /\ heartbeat[2] \in Times /\ heartbeat[2] <= now
    BY DEF IInv, TypeOK, ClockInv
  <1>4. /\ ledger' \in PaperLedgers /\ SameFacts(ledger, ledger')
        /\ ledger'.latest <= now
    <2>1. CASE ledger' = ledger
      BY <1>1, <2>1 DEF SameFacts, IInv, ClockInv
    <2>2. ASSUME NEW t \in Times, t <= now,
                 ledger' = KillSwitchOn(ledger, t) \/ ledger' = KillSwitchOff(ledger, t)
          PROVE  /\ ledger' \in PaperLedgers /\ SameFacts(ledger, ledger')
                 /\ ledger'.latest <= now
      <3>1. /\ ledger' \in PaperLedgers /\ SameFacts(ledger, ledger')
            /\ ledger'.latest \in {ledger.latest, t}
        BY <1>1, <2>2, SwitchLine
      <3> QED BY <2>2, <3>1 DEF IInv, ClockInv
    <2> QED
      BY <1>1, <1>3, <2>1, <2>2
      DEF HeartbeatStale, HeartbeatRefuses, HeartbeatHalts, HeartbeatEngages, Operator
  <1>5. LedgerStep
    BY <1>1, <1>4, NoMove
  <1>6. /\ heartbeat' \in ({"stale", "engage"} \X Times) \cup {None}
        /\ heartbeat' # None => heartbeat'[2] <= now
        /\ feedHalted' \in BOOLEAN
    <2>1. CASE HeartbeatStale
      BY <1>1, <2>1 DEF HeartbeatStale, IInv, TypeOK
    <2>4. CASE HeartbeatRefuses
      BY <1>1, <2>4 DEF HeartbeatRefuses, IInv, TypeOK
    <2>2. CASE HeartbeatHalts
      BY <1>3, <2>2 DEF HeartbeatHalts
    <2>3. CASE HeartbeatEngages \/ Operator
      BY <1>3, <2>3 DEF HeartbeatEngages, Operator, IInv, TypeOK
    <2> QED
      BY <2>1, <2>2, <2>3, <2>4
  <1>7. TypeOK'
    BY <1>1, <1>4, <1>6
    DEF Main, IInv, TypeOK, PaperLedgers, clockVars, brokerVars, builderVars
  <1>8. ClockInv'
    BY <1>1, <1>4, <1>6
    DEF Main, IInv, ClockInv, clockVars, builderVars, Aligned, InSession
  <1>9. ThreadInv'
    BY <1>1, <1>4
    DEF Main, IInv, ThreadInv, SameFacts, Settled, InMinute, brokerVars
  <1> QED
    BY <1>2, <1>5, <1>7, <1>8, <1>9 DEF StepKept

(* Time passes between any two steps.                                      *)
LEMMA AdvanceKept ==
  ASSUME IInv, Advance
  PROVE  StepKept
  <1>1. now \in Nat /\ now' = now + 1 /\ now' \in Times /\ now' \in Nat
    BY IInvFacts, TimesAreNat, PaperAssumption DEF Advance, Times
  <1>2. LedgerStep
    BY <1>1, IInvFacts DEF Advance, LedgerStep, SameFacts
  <1>3. TypeOK'
    BY <1>1 DEF Advance, IInv, TypeOK, brokerVars, builderVars, feedVars
  <1>4. BuilderInv'
    <2>1. builderLast # None => builderLast \in Nat
      BY BuilderTypes DEF IInv
    <2>2. builderLast # None => builderLast <= now'
      BY <1>1, <2>1 DEF IInv, BuilderInv
    <2> QED
      BY <2>2 DEF Advance, IInv, BuilderInv, builderVars, Aligned, InSession
  <1>5. ClockInv'
    <2>1. tick <= now' /\ ledger.latest <= now'
      <3>1. /\ tick \in Nat /\ ledger.latest \in Nat
            /\ tick <= now /\ ledger.latest <= now
        BY IInvFacts, TimesAreNat DEF IInv, ClockInv
      <3> QED BY <1>1, <3>1
    <2>2. heartbeat # None => heartbeat[2] <= now'
      <3>1. heartbeat # None => heartbeat[2] \in Nat /\ heartbeat[2] <= now
        BY TimesAreNat DEF IInv, TypeOK, ClockInv
      <3> QED BY <1>1, <3>1
    <2> QED
      BY <2>1, <2>2
      DEF Advance, IInv, ClockInv, builderVars, Aligned, InSession
  <1>6. ThreadInv'
    BY DEF Advance, IInv, ThreadInv, Settled, InMinute, brokerVars
  <1> QED
    BY <1>2, <1>3, <1>4, <1>5, <1>6 DEF StepKept

(* Every step of the pipeline.                                             *)
LEMMA StepKeeps ==
  ASSUME IInv, Next
  PROVE  StepKept
  <1>1. CASE CandleStep
    BY <1>1, RolloverKept, CandleKept, EndKept DEF CandleStep
  <1>2. CASE TickStep
    <2>1. ASSUME NEW zone \in Zones,
                 PositionTick(zone) \/ NoEntry(zone) \/ DropArmed(zone)
          PROVE  StepKept
      BY <2>1, QuietTickKept
    <2>2. ASSUME IgnoreOlder \/ FeedHalts \/ Enter
          PROVE  StepKept
      <3>1. "stop" \in Zones
        BY DEF Zones
      <3> QED BY <2>2, <3>1, QuietTickKept
    <2> QED
      BY <1>2, <2>1, <2>2, SubmitKept DEF TickStep
  <1> QED
    BY <1>1, <1>2, StartKept, CrashKept, ArrivalKept, MainKept, AdvanceKept
    DEF Next

(* A step that changes nothing.                                            *)
LEMMA StutterKept ==
  ASSUME IInv, UNCHANGED vars
  PROVE  StepKept
  <1>1. UNCHANGED now /\ ledger' = ledger
    BY DEF vars, clockVars
  <1>2. LedgerStep
    BY <1>1, NoMove, IInvFacts DEF SameFacts
  <1>3. TypeOK' /\ BuilderInv' /\ ClockInv' /\ ThreadInv'
    BY DEF vars, clockVars, brokerVars, feedVars, builderVars, IInv, TypeOK,
           BuilderInv, ClockInv, ThreadInv, Settled, InMinute, Aligned, InSession
  <1> QED
    BY <1>2, <1>3 DEF StepKept

-----------------------------------------------------------------------------
(* The theorems                                                            *)

(* The pipeline that was never started satisfies the invariant.            *)
LEMMA InitIInv == Init => IInv
  <1> SUFFICES ASSUME Init PROVE IInv
    OBVIOUS
  <1>1. 0 \in Times /\ 0 \in Nat
    BY TimesAreNat
  <1>2. /\ EmptyLedger \in PaperLedgers /\ IsFiniteSet(EmptyLedger.fills)
        /\ EmptyLedger.fills = {} /\ EmptyLedger.intents = {}
        /\ EmptyLedger.closed = {} /\ EmptyLedger.position = None
        /\ EmptyLedger.pendingBuy = None /\ EmptyLedger.latest = 0
    BY <1>1, FS_EmptySet DEF EmptyLedger, PaperLedgers, Ledgers
  <1>3. TypeOK
    <2>1. crashes \in 0 .. MaxCrashes
      BY PaperAssumption DEF Init
    <2>2. ledger \in Ledgers(Signals, Times)
      BY <1>2 DEF Init, PaperLedgers
    <2> QED
      BY <1>1, <2>1, <2>2 DEF Init, TypeOK, Controls
  <1>4. BuilderInv /\ ClockInv /\ ThreadInv
    BY <1>1, <1>2 DEF Init, BuilderInv, ClockInv, ThreadInv, Settled
  <1>5. LedgerInv
    BY <1>2 DEF Init, LedgerInv, Filled
  <1>6. PastInv /\ FillsInItsMinute
    BY <1>2 DEF Init, PastInv, FillsInItsMinute
  <1> QED
    BY <1>3, <1>4, <1>5, <1>6 DEF IInv

(* IInv is inductive.                                                      *)
LEMMA Invariant == Spec => []IInv
  <1>1. IInv /\ [Next]_vars => IInv'
    <2> SUFFICES ASSUME IInv, [Next]_vars PROVE IInv'
      OBVIOUS
    <2>1. StepKept
      BY StepKeeps, StutterKept
    <2>2. LedgerInv' /\ PastInv' /\ FillsInItsMinute'
      BY <2>1, LedgerKept DEF StepKept
    <2> QED
      BY <2>1, <2>2 DEF IInv, StepKept
  <1> QED
    BY InitIInv, <1>1, PTL DEF Spec

(* fyers_paper.py, paper.py: every variable keeps its type; in particular  *)
(* no line is stamped beyond the horizon of the clock and no BUY filled    *)
(* without a setup.                                                        *)
THEOREM PaperTypeCorrect == Spec => []TypeOK
  BY Invariant, PTL DEF IInv

(* fyers_paper.py:92-111, 191-210; paper.py:91-97, 131-137: between two    *)
(* callbacks memory is what a restart would recover.                       *)
THEOREM MemoryMatchesLedger == Spec => []MemoryIsDurable
  <1>1. IInv => MemoryIsDurable
    BY DEF IInv, ThreadInv, Settled, MemoryIsDurable
  <1> QED
    BY Invariant, <1>1, PTL

(* fyers_paper.py:103, safety.py:59: whenever the process dies, the next   *)
(* start finds a ledger it can continue.                                   *)
THEOREM RestartIsPossible == Spec => []AlwaysRecoverable
  <1>1. IInv => AlwaysRecoverable
    BY DEF IInv, ClockInv, LedgerInv, AlwaysRecoverable, Recoverable
  <1> QED
    BY Invariant, <1>1, PTL

(* fyers_paper.py:179-183: a BUY fills in the minute after its signal.     *)
THEOREM FillsOnTime == Spec => []FillsInItsMinute
  BY Invariant, PTL DEF IInv

-----------------------------------------------------------------------------
(* The lifecycle of a setup, read from the ledger                          *)

PhaseNow == [s \in Signals |-> Phase(s)]

(* A step of the process is a move of one setup in BuyLifecycle, or none.  *)
LEMMA LifecycleStep ==
  ASSUME IInv, LedgerStep
  PROVE  Lifecycle!Next \/ UNCHANGED PhaseNow
  <1>1. /\ ledger \in PaperLedgers /\ None \notin Signals
        /\ ledger.intents \subseteq Signals
        /\ ledger.closed \subseteq Signals \X Results
    BY IInvFacts DEF PaperLedgers, Ledgers
  <1>2. \A s \in Signals : PhaseNow[s] = Phase(s) /\ PhaseNow'[s] = Phase(s)'
    BY DEF PhaseNow
  <1>3. CASE SameFacts(ledger, ledger')
    <2>1. Filled(ledger') = Filled(ledger)
      BY <1>3 DEF SameFacts, Filled
    <2>2. \A s \in Signals : Phase(s)' = Phase(s)
      BY <1>3, <2>1 DEF SameFacts, Phase
    <2> QED BY <2>2 DEF PhaseNow
  <1>4. ASSUME NEW s \in Signals, Intends(s)
        PROVE  Lifecycle!Next
    <2>1. Filled(ledger') = Filled(ledger)
      BY <1>4 DEF Intends, Filled
    <2>2. s \notin Filled(ledger) /\ \A r \in Results : <<s, r>> \notin ledger.closed
      <3>1. s \notin Filled(ledger)
        BY <1>4 DEF Intends, IInv, LedgerInv
      <3>2. \A r \in Results : <<s, r>> \in ledger.closed => s \in Filled(ledger)
        BY DEF IInv, LedgerInv
      <3> QED BY <3>1, <3>2
    <2>3. Phase(s) = "new" /\ Phase(s)' = "intended"
      BY <1>1, <1>4, <2>1, <2>2 DEF Intends, Phase
    <2>4. \A o \in Signals : o # s => Phase(o)' = Phase(o)
      BY <1>1, <1>4, <2>1 DEF Intends, Phase
    <2>5. \A o \in Signals : Phase(o) # "intended"
      BY <1>1, <1>4 DEF Intends, Phase
    <2>6. PhaseNow' = [PhaseNow EXCEPT ![s] = "intended"]
      BY <2>3, <2>4 DEF PhaseNow
    <2> QED
      BY <1>2, <1>4, <2>3, <2>5, <2>6
      DEF Lifecycle!Next, Lifecycle!Intend, Lifecycle!Move, PhaseNow
  <1>5. CASE Drops
    <2>0. PICK s \in Signals : s = ledger.pendingBuy
      BY <1>1, <1>5 DEF Drops, IInv, LedgerInv
    <2>1. s # None /\ s \in ledger.intents /\ s \notin Filled(ledger)
      BY <1>1, <1>5, <2>0 DEF Drops, IInv, LedgerInv
    <2>2. Filled(ledger') = Filled(ledger)
      BY <1>5 DEF Drops, Filled
    <2>3. \A r \in Results : <<s, r>> \notin ledger.closed
      <3>1. \A r \in Results : <<s, r>> \in ledger.closed => s \in Filled(ledger)
        BY DEF IInv, LedgerInv
      <3> QED BY <2>1, <3>1
    <2>4. Phase(s) = "intended" /\ Phase(s)' = "dropped"
      BY <1>1, <1>5, <2>0, <2>1, <2>2, <2>3 DEF Drops, Phase
    <2>5. \A o \in Signals : o # s => Phase(o)' = Phase(o)
      BY <1>1, <1>5, <2>0, <2>2 DEF Drops, Phase
    <2>6. PhaseNow' = [PhaseNow EXCEPT ![s] = "dropped"]
      BY <2>4, <2>5 DEF PhaseNow
    <2> QED
      BY <1>2, <2>1, <2>4, <2>6
      DEF Lifecycle!Next, Lifecycle!Drop, Lifecycle!Move, PhaseNow
  <1>6. ASSUME NEW s \in Signals, Fills(s)
        PROVE  Lifecycle!Next
    <2> DEFINE fill == [buy |-> s, time |-> tick]
    <2>1. Filled(ledger') = Filled(ledger) \cup {s}
      <3>1. ledger'.fills = ledger.fills \cup {fill} /\ fill.buy = s
        BY <1>6 DEF Fills
      <3> HIDE DEF fill
      <3> QED BY <3>1 DEF Filled
    <2>2. /\ s # None /\ ledger.pendingBuy = s /\ s \notin Filled(ledger)
          /\ s \in ledger.intents
      BY <1>1, <1>6 DEF Fills, IInv, LedgerInv
    <2>3. \A r \in Results : <<s, r>> \notin ledger.closed
      <3>1. \A r \in Results : <<s, r>> \in ledger.closed => s \in Filled(ledger)
        BY DEF IInv, LedgerInv
      <3> QED BY <2>2, <3>1
    <2>4. Phase(s) = "intended" /\ Phase(s)' = "bought"
      BY <1>1, <1>6, <2>1, <2>2, <2>3 DEF Fills, Phase
    <2>5. \A o \in Signals : o # s => Phase(o)' = Phase(o)
      BY <1>1, <1>6, <2>1, <2>2 DEF Fills, Phase
    <2>6. PhaseNow' = [PhaseNow EXCEPT ![s] = "bought"]
      BY <2>4, <2>5 DEF PhaseNow
    <2> QED
      BY <1>2, <1>6, <2>4, <2>6
      DEF Lifecycle!Next, Lifecycle!Buy, Lifecycle!Move, PhaseNow
  <1>7. ASSUME NEW result \in Results, Closes(result)
        PROVE  Lifecycle!Next
    <2>0. PICK s \in Signals : s = ledger.position
      BY <1>1, <1>7 DEF Closes, PaperLedgers, Ledgers
    <2> DEFINE c == <<s, result>>
    <2>1. /\ s \in Filled(ledger)
          /\ \A r \in Results : <<s, r>> \notin ledger.closed
      <3>1. s \in Filled(ledger)
        BY <1>7, <2>0 DEF Closes, IInv, LedgerInv
      <3>2. \A r \in Results : <<s, r>> \in ledger.closed => <<s, r>>[1] # s
        BY <2>0 DEF IInv, LedgerInv
      <3> QED BY <3>1, <3>2
    <2>2. Filled(ledger') = Filled(ledger)
      BY <1>7 DEF Closes, Filled
    <2>3. ledger'.closed = ledger.closed \cup {c}
      BY <1>7, <2>0 DEF Closes
    <2>4. Phase(s) = "bought" /\ Phase(s)' = "closed"
      <3>1. Phase(s) = "bought"
        BY <2>1 DEF Phase
      <3>2. <<s, result>> \in ledger'.closed
        BY <2>3
      <3> QED BY <3>1, <3>2 DEF Phase
    <2>5. \A o \in Signals : o # s => Phase(o)' = Phase(o)
      <3>1. \A o \in Signals, r \in Results :
              o # s => (<<o, r>> \in ledger'.closed <=> <<o, r>> \in ledger.closed)
        BY <2>3
      <3> QED
        BY <1>7, <2>2, <3>1 DEF Closes, Phase
    <2> HIDE DEF c
    <2>6. PhaseNow' = [PhaseNow EXCEPT ![s] = "closed"]
      BY <2>4, <2>5 DEF PhaseNow
    <2> QED
      BY <1>2, <2>1, <2>4, <2>6
      DEF Lifecycle!Next, Lifecycle!Close, Lifecycle!Move, PhaseNow
  <1> QED
    BY <1>3, <1>4, <1>5, <1>6, <1>7 DEF LedgerStep

(* The paper pipeline implements BuyLifecycle: an intent before a fill,    *)
(* one intent at a time, a dropped intent is never bought, a bought setup  *)
(* is sold once (fyers_paper.py:92-255).                                   *)
THEOREM PaperImplementsLifecycle == Spec => KeepsLifecycle
  <1>1. Init => Lifecycle!Init
    <2> SUFFICES ASSUME Init PROVE \A s \in Signals : Phase(s) = "new"
      BY DEF Lifecycle!Init
    <2>1. /\ ledger.closed = {} /\ ledger.fills = {} /\ ledger.intents = {}
          /\ ledger.pendingBuy = None
      BY DEF Init, EmptyLedger
    <2>2. Filled(ledger) = {}
      BY <2>1 DEF Filled
    <2>3. None \notin Signals
      BY InitIInv, IInvFacts
    <2> QED
      BY <2>1, <2>2, <2>3 DEF Phase
  <1>2. IInv /\ [Next]_vars => [Lifecycle!Next]_PhaseNow
    <2> SUFFICES ASSUME IInv, [Next]_vars PROVE [Lifecycle!Next]_PhaseNow
      OBVIOUS
    <2>1. LedgerStep
      BY StepKeeps, StutterKept DEF StepKept
    <2> QED
      BY <2>1, LifecycleStep
  <1> QED
    BY Invariant, <1>1, <1>2, PTL DEF Spec, KeepsLifecycle, Lifecycle!Spec, PhaseNow

-----------------------------------------------------------------------------
(* The daily limit                                                         *)

Dates == {Date(t) : t \in Times}

FillsOn(d) == {f \in ledger.fills : Date(f.time) = d}

(* trades_today counts the fills of date b and of later ones.  In a        *)
(* session b is its date; after a restart, until the first candle, it is   *)
(* the date of the restart.  No fill, setup or open minute is of a later   *)
(* date than what is still to come, and a late tick of an earlier date     *)
(* comes after the hours in which a BUY can fill.                          *)
CountedFrom(b) ==
  /\ b <= Date(now)
  /\ sessionDate # None => b = sessionDate
  /\ candle # None => b <= Date(candle)
  /\ minute # None => b <= Date(minute)
  /\ armed # None => Date(armed) <= b
  /\ \A f \in ledger.fills : Date(f.time) <= b
  /\ pc \in {"candle", "end", "tick"} =>
       b <= Date(tick) \/ Close + Minute <= tick % DayLength
  /\ pc \in {"submit", "fill"} => Date(tick) = b
  /\ Cardinality(FillsOn(b)) <= IF pc = "fill" THEN trades - 1 ELSE trades

CountInv == pc # "down" => \E b \in Dates : CountedFrom(b)

(* Dates are numbers.                                                      *)
LEMMA DatesAreNat == ASSUME NEW t \in Times PROVE Date(t) \in Nat /\ Date(t) \in Dates
  BY TimesAreNat, DateTime DEF Dates

(* The same, of a date whose time is not named.                            *)
LEMMA DateIsNat == ASSUME NEW b \in Dates PROVE b \in Nat
  BY DatesAreNat DEF Dates

(* No event but BUY_FILLED adds a fill.                                    *)
LEMMA FillsUntouched ==
  ASSUME NEW l \in PaperLedgers, NEW t, NEW s, NEW c
  PROVE  /\ Stamp(l, t).fills = l.fills
         /\ BuyIntent(l, s, t).fills = l.fills
         /\ BuyDropped(l, t).fills = l.fills
         /\ PositionClosed(l, c, t).fills = l.fills
         /\ KillSwitchOn(l, t).fills = l.fills
         /\ KillSwitchOff(l, t).fills = l.fills
  BY DEF Stamp, BuyIntent, BuyDropped, PositionClosed, KillSwitchOn,
         KillSwitchOff, PaperLedgers, Ledgers

(* The fills of a date can be counted.                                     *)
LEMMA FillsOnFinite ==
  ASSUME IInv, NEW d
  PROVE  IsFiniteSet(FillsOn(d)) /\ Cardinality(FillsOn(d)) \in Nat
  <1>1. IsFiniteSet(FillsOn(d))
    BY FS_Subset DEF FillsOn, IInv, LedgerInv
  <1> QED
    BY <1>1, FS_CardinalityType

(* Steps that neither start a session nor buy keep the count.              *)
LEMMA QuietCount ==
  ASSUME IInv, StepKept, NEW b \in Dates, CountedFrom(b),
         UNCHANGED <<sessionDate, trades, minute, tick>>,
         ledger'.fills = ledger.fills,
         candle' \in {candle, None}, armed' \in {armed, None},
         \/ pc' = pc
         \/ /\ pc # "fill" /\ pc' \notin {"submit", "fill"}
            /\ pc' \in {"candle", "end", "tick"} => pc \in {"candle", "end", "tick"}
  PROVE  CountedFrom(b)'
  <1>1. b <= Date(now')
    <2>1. now \in Nat /\ now' \in Nat /\ now <= now'
      BY IInvFacts, TimesAreNat DEF StepKept, LedgerStep
    <2>2. Date(now) <= Date(now') /\ Date(now) \in Nat /\ Date(now') \in Nat
      BY <2>1, DatesInOrder, DateTime
    <2> QED
      BY <2>2, DateIsNat DEF CountedFrom
  <1>2. FillsOn(b)' = FillsOn(b)
    BY DEF FillsOn
  <1>3. Date(now)' = Date(now') /\ Date(tick)' = Date(tick)
    BY DEF Date
  <1>4. /\ candle' # None => Date(candle)' = Date(candle) /\ candle # None
        /\ minute' # None => Date(minute)' = Date(minute) /\ minute # None
        /\ armed' # None => Date(armed)' = Date(armed) /\ armed # None
    BY DEF Date
  <1> QED
    BY <1>1, <1>2, <1>3, <1>4 DEF CountedFrom

(* A restart counts the fills of its own date (safety.py:50-62).           *)
LEMMA StartCount ==
  ASSUME IInv, Start
  PROVE  CountedFrom(Date(now))'
  <1>1. now \in Times /\ now' = now /\ now \in Nat /\ Date(now) \in Nat
    BY IInvFacts, TimesAreNat, DateTime DEF Start, clockVars
  <1>2. /\ pc' = "idle" /\ sessionDate' = None /\ candle' = None /\ minute' = None
        /\ ledger' = ledger /\ armed' = ledger.pendingBuy
        /\ trades' = Cardinality(FillsOn(Date(now)))
    BY DEF Start, IInv, ThreadInv, NewBuilder, FillsOn
  <1>3. armed' # None => Date(armed') <= Date(now)
    <2> SUFFICES ASSUME armed' # None PROVE Date(armed') <= Date(now)
      OBVIOUS
    <2>1. armed' \in ledger.intents /\ armed' <= now
      BY <1>2 DEF IInv, LedgerInv, PastInv
    <2>2. armed' \in Nat
      BY <2>1, IInvFacts, TimesAreNat DEF PaperLedgers, Ledgers
    <2> QED BY <1>1, <2>1, <2>2, DatesInOrder
  <1>4. \A f \in ledger.fills : Date(f.time) <= Date(now)
    <2> TAKE f \in ledger.fills
    <2>1. f.time \in Nat /\ f.time <= now
      BY IInvFacts, TimesAreNat DEF PaperLedgers, Ledgers, IInv, PastInv
    <2> QED BY <1>1, <2>1, DatesInOrder
  <1>5. FillsOn(Date(now))' = FillsOn(Date(now))
    BY <1>1, <1>2 DEF FillsOn
  <1>6. Cardinality(FillsOn(Date(now))) \in Nat
    BY FillsOnFinite
  <1>7. Date(now)' = Date(now) /\ Date(armed)' = Date(armed')
    BY <1>1 DEF Date
  <1> QED
    BY <1>1, <1>2, <1>3, <1>4, <1>5, <1>6, <1>7 DEF CountedFrom

(* A tick that arrives is of a counted date, or after hours.               *)
LEMMA ArrivalCount ==
  ASSUME IInv, NEW t \in Times, TickArrives(t), NEW b \in Dates, CountedFrom(b)
  PROVE  CountedFrom(b)'
  <1>1. /\ pc = "idle" /\ t <= now /\ now <= t + FeedDelay /\ UNCHANGED now
        /\ tick' = t /\ candle' = CompletedBy(t) /\ Add(t)
        /\ pc' \in {"tick", "candle"}
        /\ UNCHANGED <<ledger, brokerVars, armed, sessionDate>>
        /\ TypeOK /\ BuilderInv
    BY DEF TickArrives, clockVars, IInv
  <1>2. t \in Nat /\ now \in Nat /\ FeedDelay \in Nat /\ b \in Nat
    BY <1>1, TimesAreNat, BuilderTypes, DateIsNat
  <1>3. b <= Date(t) \/ Close + Minute <= t % DayLength
    <2>1. CASE b <= Date(t)
      BY <2>1
    <2>2. CASE Date(t) < b
      <3>1. Date(t) < Date(now)
        BY <1>2, <2>2, DateTime DEF CountedFrom
      <3>2. t + DayLength <= now + (t % DayLength)
        BY <1>2, <3>1, LaterDate
      <3>3. Close + Minute + FeedDelay <= DayLength /\ (t % DayLength) \in Nat
        BY <1>2, PaperAssumption, DateTime
      <3> QED
        BY <1>1, <1>2, <3>2, <3>3, Clock
    <2> QED
      BY <1>2, <2>1, <2>2, DateTime
  <1>4. candle' # None => b <= Date(candle')
    BY <1>1, CompletedInTime DEF CountedFrom
  <1>5. minute' # None => b <= Date(minute')
    <2>1. minute' # None => \/ minute' = minute
                            \/ InSession(t) /\ minute' = MinuteOf(t)
      BY <1>1, AddKeepsBuilder
    <2>2. InSession(t) => Date(MinuteOf(t)) = Date(t) /\ t % DayLength < Close
      BY <1>2, MinuteOfTime DEF InSession
    <2>3. InSession(t) => b <= Date(t)
      BY <1>2, <1>3, <2>2, Clock, DateTime
    <2> QED
      BY <2>1, <2>2, <2>3 DEF CountedFrom
  <1>6. FillsOn(b)' = FillsOn(b) /\ trades' = trades /\ pc' # "fill"
    BY <1>1 DEF FillsOn, brokerVars
  <1>7. /\ Date(now)' = Date(now) /\ Date(tick)' = Date(t)
        /\ Date(candle)' = Date(candle') /\ Date(minute)' = Date(minute')
        /\ Date(armed)' = Date(armed)
    BY <1>1 DEF Date
  <1> QED
    BY <1>1, <1>3, <1>4, <1>5, <1>6, <1>7 DEF CountedFrom

(* A new session counts from zero, and nothing was filled on its date; the *)
(* first session after a restart goes on with the restart's count.         *)
LEMMA SessionCount ==
  ASSUME IInv, StartSession, NEW b \in Dates, CountedFrom(b)
  PROVE  \E d \in Dates : CountedFrom(d)'
  <1>0. PICK d \in Dates : d = Date(candle)
    <2>1. candle \in Times
      BY IInvFacts DEF StartSession, Rollover, IInv, ThreadInv
    <2> QED BY <2>1, DatesAreNat
  <1>1. /\ pc = "candle" /\ pc' = pc /\ candle # None /\ sessionDate # d
        /\ UNCHANGED <<now, tick, candle, minute, ledger, armed>>
        /\ sessionDate' = d
        /\ trades' = IF sessionDate = None THEN trades ELSE 0
    BY <1>0 DEF StartSession, Rollover, ResetDay, Stays, clockVars, builderVars,
           IInv, ThreadInv
  <1>2. candle \in Times /\ candle \in Nat /\ tick \in Nat /\ now \in Nat
        /\ d \in Nat /\ d \in Dates /\ b \in Nat
    BY <1>0, <1>1, IInvFacts, TimesAreNat, DateIsNat
  <1>3. b <= d
    BY <1>0, <1>1 DEF CountedFrom
  <1>4. d <= Date(tick)
    <2>1. candle + Minute <= tick
      BY <1>1 DEF IInv, ClockInv
    <2>2. candle <= tick
      BY <1>2, <2>1, Clock
    <2> QED BY <1>0, <1>2, <2>2, DatesInOrder
  <1>5. d <= Date(now)
    <2>1. tick <= now
      BY DEF IInv, ClockInv
    <2>2. Date(tick) <= Date(now)
      BY <1>2, <2>1, DatesInOrder
    <2> QED BY <1>2, <1>4, <2>2, DateTime
  <1>6. minute # None => d <= Date(minute)
    <2>1. minute # None => minute \in Nat /\ candle <= minute
      BY <1>1, BuilderTypes DEF IInv, ClockInv
    <2> QED BY <1>0, <1>2, <2>1, DatesInOrder
  <1>7. armed # None => Date(armed) <= d
    <2>1. armed # None => Date(armed) \in Nat /\ Date(armed) <= b
      BY IInvFacts, DatesAreNat DEF CountedFrom
    <2> QED BY <1>2, <1>3, <2>1
  <1>8. \A f \in ledger.fills : Date(f.time) \in Nat /\ Date(f.time) <= b
    BY IInvFacts, DatesAreNat DEF PaperLedgers, Ledgers, CountedFrom
  <1>9. \A f \in ledger.fills : Date(f.time) <= d
    BY <1>2, <1>3, <1>8
  <1>10. Cardinality(FillsOn(d)) <= trades'
    <2>1. trades \in Nat /\ Cardinality(FillsOn(b)) <= trades
      BY <1>1 DEF IInv, TypeOK, CountedFrom
    <2>2. CASE b = d
      <3>1. sessionDate = None
        BY <1>1, <2>2 DEF CountedFrom
      <3> QED BY <1>1, <2>1, <2>2, <3>1
    <2>3. CASE b # d
      <3>1. FillsOn(d) = {}
        BY <1>2, <1>3, <1>8, <2>3 DEF FillsOn
      <3> QED BY <1>1, <2>1, <3>1, FS_EmptySet
    <2> QED BY <2>2, <2>3
  <1>11. FillsOn(d)' = FillsOn(d) /\ pc' # "fill" /\ pc' \notin {"submit", "fill"}
    BY <1>1 DEF FillsOn, Date
  <1>12. /\ Date(now)' = Date(now) /\ Date(tick)' = Date(tick)
         /\ Date(candle)' = Date(candle) /\ Date(minute)' = Date(minute)
         /\ Date(armed)' = Date(armed)
    BY <1>1 DEF Date
  <1>13. CountedFrom(d)'
    <2>1. d <= d
      BY <1>2
    <2> QED
      BY <2>1, <1>0, <1>1, <1>4, <1>5, <1>6, <1>7, <1>9, <1>10, <1>11, <1>12
      DEF CountedFrom
  <1> QED
    BY <1>13

(* A candle arms a BUY of its own date, which is the date counted.         *)
LEMMA CandleCount ==
  ASSUME IInv, StepKept, OnCandle, NEW b \in Dates, CountedFrom(b)
  PROVE  CountedFrom(b)'
  <1>1. /\ pc = "candle" /\ pc' \in {"end", "tick"} /\ candle # None
        /\ sessionDate = Date(candle)
        /\ UNCHANGED <<now, tick, candle, minute, sessionDate, trades>>
        /\ ledger \in PaperLedgers
    BY IInvFacts
    DEF OnCandle, Stays, clockVars, builderVars, brokerVars, IInv, ThreadInv
  <1>2. ledger'.fills = ledger.fills
    BY <1>1, FillsUntouched DEF OnCandle, CancelArmed
  <1>3. CASE armed' \in {armed, None}
    BY <1>1, <1>2, <1>3, QuietCount
  <1>4. CASE /\ candle + Minute \in Signals /\ armed' = candle + Minute
    <2>1. Date(candle + Minute) = Date(candle)
      <3> DEFINE r == candle % DayLength
                 q == Date(candle)
      <3>1. /\ candle \in Nat /\ r \in Nat /\ q \in Nat
            /\ candle = (DayLength * q) + r
        BY <1>1, IInvFacts, TimesAreNat, DateTime
      <3>2. r < Close /\ r % Minute = 0
        BY <1>1 DEF IInv, ClockInv, Aligned, InSession
      <3>3. r + Minute <= Close
        BY <3>1, <3>2, Clock, WholeUnits
      <3> HIDE DEF r, q
      <3>4. (DayLength * q) \in Nat
        BY <3>1, Clock
      <3>5. /\ candle + Minute = (DayLength * q) + (r + Minute)
            /\ r + Minute \in 0 .. (DayLength - 1)
        BY <3>1, <3>3, <3>4, Clock
      <3>6. ((DayLength * q) + (r + Minute)) \div DayLength = q
        BY <3>1, <3>5, Clock, DivModUnique
      <3> QED BY <3>5, <3>6 DEF Date, q
    <2>2. b = Date(candle) /\ b \in Nat
      BY <1>1, DateIsNat, IInvFacts, Clock, DatesAreNat DEF CountedFrom
    <2>3. Date(armed)' <= b
      BY <1>4, <2>1, <2>2 DEF Date
    <2>4. FillsOn(b)' = FillsOn(b)
      BY <1>2 DEF FillsOn
    <2>5. /\ Date(now)' = Date(now) /\ Date(tick)' = Date(tick)
          /\ Date(candle)' = Date(candle) /\ Date(minute)' = Date(minute)
      BY <1>1 DEF Date
    <2> QED
      BY <1>1, <1>2, <2>3, <2>4, <2>5 DEF CountedFrom
  <1> QED
    BY <1>3, <1>4 DEF OnCandle, CancelArmed

(* The tick that enters is of the date counted, since it is in the minute  *)
(* of a setup and not after hours.                                         *)
LEMMA EnterCount ==
  ASSUME IInv, StepKept, Enter, NEW b \in Dates, CountedFrom(b)
  PROVE  CountedFrom(b)'
  <1>1. /\ pc = "tick" /\ pc' = "submit" /\ armed # None /\ ledger' = ledger
        /\ UNCHANGED <<now, tick, candle, minute, sessionDate, trades, armed>>
        /\ armed \in ledger.intents
        /\ tick >= armed /\ ~(tick >= armed + Minute)
    BY DEF Enter, Considers, Live, Expired, Held, clockVars, builderVars,
           brokerVars, IInv, ThreadInv, Settled, LedgerInv
  <1>2. /\ armed \in Nat /\ tick \in Nat /\ armed <= tick /\ tick < armed + Minute
        /\ armed % DayLength <= Close
    <2>1. armed \in Nat /\ tick \in Nat /\ armed % DayLength <= Close
      BY <1>1, IInvFacts, TimesAreNat DEF IInv, PastInv
    <2> QED BY <1>1, <2>1, Clock
  <1>3. Date(tick) = Date(armed) /\ tick % DayLength < Close + Minute
    <2> DEFINE r == armed % DayLength
               q == Date(armed)
               k == tick - armed
    <2>0. k \in Nat /\ k < Minute /\ tick = armed + k
      BY <1>2, Clock
    <2>1. /\ r \in Nat /\ q \in Nat /\ armed = (DayLength * q) + r
          /\ r <= Close /\ k \in Nat /\ k < Minute /\ tick = armed + k
      <3> HIDE DEF k
      <3> QED BY <1>2, <2>0, DateTime
    <2> HIDE DEF r, q, k
    <2>2. (DayLength * q) \in Nat
      BY <2>1, Clock
    <2>3. /\ tick = (DayLength * q) + (r + k)
          /\ r + k \in 0 .. (DayLength - 1) /\ r + k < Close + Minute
      BY <1>2, <2>1, <2>2, Clock
    <2>4. /\ ((DayLength * q) + (r + k)) \div DayLength = q
          /\ ((DayLength * q) + (r + k)) % DayLength = r + k
      BY <2>1, <2>3, Clock, DivModUnique
    <2> QED BY <2>3, <2>4 DEF Date, q
  <1>4. Date(tick) = b
    <2>1. b \in Nat /\ Date(tick) \in Nat /\ Date(armed) <= b
      BY <1>1, <1>2, DateIsNat, DateTime DEF CountedFrom
    <2>2. b <= Date(tick)
      <3>1. ~(Close + Minute <= tick % DayLength)
        <4>1. (tick % DayLength) \in Nat
          BY <1>2, DateTime
        <4> QED BY <1>3, <4>1, Clock
      <3> QED BY <1>1, <3>1 DEF CountedFrom
    <2> QED BY <1>3, <2>1, <2>2
  <1>5. FillsOn(b)' = FillsOn(b) /\ pc # "fill" /\ pc' # "fill"
    BY <1>1 DEF FillsOn
  <1>6. /\ Date(now)' = Date(now) /\ Date(tick)' = Date(tick)
        /\ Date(candle)' = Date(candle) /\ Date(minute)' = Date(minute)
        /\ Date(armed)' = Date(armed)
    BY <1>1 DEF Date
  <1> QED
    BY <1>1, <1>4, <1>5, <1>6 DEF CountedFrom

(* The broker counts the trade before it appends the fill                  *)
(* (paper.py:91-97).                                                       *)
LEMMA FillCount ==
  ASSUME IInv, StepKept, SubmitAllowed \/ AppendFill, NEW b \in Dates,
         CountedFrom(b)
  PROVE  /\ CountedFrom(b)'
         /\ AppendFill => /\ Cardinality(FillsOn(b)') <= MaxTrades
                          /\ \A d \in Dates : d # b => FillsOn(d)' = FillsOn(d)
  <1>1. /\ UNCHANGED <<now, tick, candle, minute, sessionDate, armed>>
        /\ ledger \in PaperLedgers /\ trades \in Nat /\ Date(tick) = b
        /\ tick \in Times /\ b \in Nat
    BY IInvFacts, DateIsNat
    DEF SubmitAllowed, AppendFill, Held, clockVars, builderVars, IInv, TypeOK,
        CountedFrom
  <1>2. /\ Date(now)' = Date(now) /\ Date(tick)' = Date(tick)
        /\ Date(candle)' = Date(candle) /\ Date(minute)' = Date(minute)
        /\ Date(armed)' = Date(armed)
    BY <1>1 DEF Date
  <1>3. CASE SubmitAllowed
    <2>1. /\ pc = "submit" /\ pc' = "fill" /\ trades' = trades + 1
          /\ ledger' = ledger
      BY <1>3 DEF SubmitAllowed
    <2>2. FillsOn(b)' = FillsOn(b)
      BY <2>1 DEF FillsOn
    <2>3. trades' - 1 = trades
      BY <1>1, <2>1
    <2>4. ~AppendFill
      BY <2>1 DEF AppendFill
    <2> QED
      BY <1>1, <1>2, <2>1, <2>2, <2>3, <2>4 DEF CountedFrom
  <1>4. CASE AppendFill
    <2> DEFINE fill == [buy |-> armed, time |-> tick]
    <2>1. /\ pc = "fill" /\ pc' = "ack" /\ trades' = trades
          /\ ledger' = BuyFilled(ledger, armed, tick)
          /\ armed \in Signals /\ trades <= MaxTrades
      BY <1>4, IInvFacts DEF AppendFill, brokerVars, IInv, ThreadInv
    <2>2. ledger'.fills = ledger.fills \cup {fill} /\ fill.time = tick
      BY <1>1, <2>1, FillLine
    <2> HIDE DEF fill
    <2>3. FillsOn(b)' = FillsOn(b) \cup {fill}
      BY <1>1, <2>2 DEF FillsOn
    <2>4. \A d \in Dates : d # b => FillsOn(d)' = FillsOn(d)
      BY <1>1, <2>2 DEF FillsOn
    <2>5. /\ IsFiniteSet(FillsOn(b)) /\ Cardinality(FillsOn(b)) \in Nat
          /\ Cardinality(FillsOn(b)) <= trades - 1
      BY <2>1, FillsOnFinite DEF CountedFrom
    <2>6. Cardinality(FillsOn(b) \cup {fill}) <= trades
      <3>1. Cardinality(FillsOn(b) \cup {fill}) \in
              {Cardinality(FillsOn(b)), Cardinality(FillsOn(b)) + 1}
        BY <2>5, FS_AddElement
      <3> QED BY <1>1, <2>5, <3>1
    <2>7. \A f \in ledger'.fills : Date(f.time) <= b
      BY <1>1, <2>2 DEF CountedFrom
    <2>8. CountedFrom(b)'
      BY <1>1, <1>2, <2>1, <2>3, <2>6, <2>7 DEF CountedFrom
    <2>9. Cardinality(FillsOn(b)') <= MaxTrades
      <3>1. IsFiniteSet(FillsOn(b) \cup {fill})
        BY <2>5, FS_AddElement
      <3>2. Cardinality(FillsOn(b) \cup {fill}) \in Nat
        BY <3>1, FS_CardinalityType
      <3> QED BY <1>1, <2>1, <2>3, <2>6, <3>2, PaperAssumption
    <2> QED BY <2>4, <2>8, <2>9
  <1> QED BY <1>3, <1>4

(* All other steps change neither the fills nor what is counted.           *)
LEMMA OtherCount ==
  ASSUME IInv, Next, pc # "down",
         ~(\E t \in Times : TickArrives(t)), ~Crash, ~StartSession, ~OnCandle,
         ~Enter, ~SubmitAllowed, ~AppendFill,
         NEW b \in Dates, CountedFrom(b)
  PROVE  CountedFrom(b)' /\ ledger'.fills = ledger.fills
  <1>1. ledger \in PaperLedgers
    BY IInvFacts
  <1>2. StepKept
    BY StepKeeps
  <1>3. /\ UNCHANGED <<sessionDate, trades, minute, tick>>
        /\ ledger'.fills = ledger.fills
        /\ candle' \in {candle, None} /\ armed' \in {armed, None}
        /\ \/ pc' = pc
           \/ /\ pc # "fill" /\ pc' \notin {"submit", "fill"}
              /\ pc' \in {"candle", "end", "tick"} => pc \in {"candle", "end", "tick"}
    <2>1. CASE RollArmed \/ RollPosition \/ EndArmed \/ EndPosition \/ EndDone
      BY <1>1, <2>1, FillsUntouched
      DEF RollArmed, RollPosition, EndArmed, EndPosition, EndDone, Rollover,
          CancelArmed, CloseBroker, Stays, brokerVars, builderVars
    <2>2. CASE IgnoreOlder
      BY <2>2 DEF IgnoreOlder, Finished, Held, brokerVars, builderVars
    <2>8. ASSUME NEW zone \in Zones, PositionTick(zone)
          PROVE  /\ UNCHANGED <<sessionDate, trades, minute, tick>>
                 /\ ledger'.fills = ledger.fills
                 /\ candle' = None /\ armed' \in {armed, None}
                 /\ pc = "tick" /\ pc' = "idle"
      <3>1. /\ pc = "tick" /\ Finished /\ Held
        BY <2>8 DEF PositionTick
      <3>2. /\ ledger'.fills = ledger.fills /\ UNCHANGED trades
            /\ armed' \in {armed, None}
        BY <1>1, <2>8, FillsUntouched DEF PositionTick, CloseBroker, brokerVars
      <3> QED
        BY <3>1, <3>2 DEF Finished, Held, builderVars
    <2>3. CASE (\E zone \in Zones : NoEntry(zone) \/ DropArmed(zone)) \/ FeedHalts
      BY <1>1, <2>3, FillsUntouched
      DEF NoEntry, DropArmed, FeedHalts, Considers, CancelArmed, Finished, Held,
          brokerVars, builderVars
    <2>4. CASE SubmitRejected \/ AfterRejection \/ AfterFill
      BY <1>1, <2>4, FillsUntouched
      DEF SubmitRejected, AfterRejection, AfterFill, CancelArmed, Finished, Held,
          brokerVars, builderVars
    <2>5. CASE \/ HeartbeatStale \/ HeartbeatRefuses \/ HeartbeatHalts
               \/ HeartbeatEngages \/ Operator
      BY <1>1, <2>5, FillsUntouched
      DEF HeartbeatStale, HeartbeatRefuses, HeartbeatHalts, HeartbeatEngages, Operator, Main,
          brokerVars, builderVars
    <2>6. CASE Advance
      BY <2>6 DEF Advance, brokerVars, builderVars
    <2>7. CASE Start
      BY <2>7 DEF Start
    <2> QED
      BY <2>1, <2>2, <2>3, <2>4, <2>5, <2>6, <2>7, <2>8
      DEF Next, CandleStep, TickStep
  <1> QED
    BY <1>2, <1>3, QuietCount

(* The count and the limit together are inductive.                         *)
LEMMA CountKept ==
  ASSUME IInv, IInv', CountInv, DailyLimit, [Next]_vars
  PROVE  CountInv' /\ DailyLimit'
  <1> DEFINE Limit == \A d \in Dates : Cardinality(FillsOn(d)) <= MaxTrades
  <1>0. DailyLimit <=> Limit
    BY DEF DailyLimit, Dates, FillsOn
  <1>1. ledger'.fills = ledger.fills => Limit'
    BY <1>0 DEF FillsOn, Dates
  <1>2. CASE UNCHANGED vars
    <2>1. Limit'
      BY <1>1, <1>2 DEF vars
    <2>2. CountInv'
      <3>1. /\ now' = now /\ sessionDate' = sessionDate /\ candle' = candle
            /\ minute' = minute /\ armed' = armed /\ ledger' = ledger
            /\ pc' = pc /\ tick' = tick /\ trades' = trades
        BY <1>2 DEF vars, clockVars, brokerVars, builderVars
      <3>2. ASSUME NEW d \in Dates, CountedFrom(d) PROVE CountedFrom(d)'
        BY <3>1, <3>2 DEF CountedFrom, FillsOn, Date
      <3> QED BY <3>1, <3>2 DEF CountInv, Dates
    <2> QED BY <1>0, <2>1, <2>2 DEF DailyLimit, Dates, FillsOn
  <1>3. CASE Next
    <2>1. StepKept
      BY <1>3, StepKeeps
    <2>2. CASE Start
      <3>1. CountedFrom(Date(now))' /\ now' = now /\ now \in Times
        BY <2>2, StartCount, IInvFacts DEF Start, clockVars
      <3>2. Date(now) \in Dates
        BY <3>1, DatesAreNat
      <3>3. CountInv'
        BY <3>1, <3>2 DEF CountInv, Date, Dates
      <3> QED BY <1>0, <1>1, <2>2, <3>3 DEF Start, DailyLimit, Dates, FillsOn
    <2>3. CASE Crash
      BY <1>0, <1>1, <2>3 DEF Crash, CountInv, DailyLimit, Dates, FillsOn
    <2>4. CASE pc # "down" /\ ~Crash
      <3>1. PICK b \in Dates : CountedFrom(b)
        BY <2>4 DEF CountInv
      <3>2. ASSUME NEW d \in Dates, CountedFrom(d)', Limit'
            PROVE  CountInv' /\ DailyLimit'
        BY <3>2 DEF CountInv, DailyLimit, Dates, FillsOn
      <3>3. CASE \E t \in Times : TickArrives(t)
        BY <1>1, <3>1, <3>2, <3>3, ArrivalCount DEF TickArrives
      <3>4. CASE StartSession
        BY <1>1, <3>1, <3>2, <3>4, SessionCount DEF StartSession
      <3>5. CASE OnCandle
        <4>1. ledger'.fills = ledger.fills
          BY <3>5, FillsUntouched, IInvFacts DEF OnCandle, CancelArmed
        <4> QED
          BY <1>1, <2>1, <3>1, <3>2, <3>5, <4>1, CandleCount
      <3>6. CASE Enter
        BY <1>1, <2>1, <3>1, <3>2, <3>6, EnterCount DEF Enter
      <3>7. CASE SubmitAllowed
        BY <1>1, <2>1, <3>1, <3>2, <3>7, FillCount DEF SubmitAllowed
      <3>8. CASE AppendFill
        <4>1. /\ CountedFrom(b)' /\ Cardinality(FillsOn(b)') <= MaxTrades
              /\ \A d \in Dates : d # b => FillsOn(d)' = FillsOn(d)
          BY <2>1, <3>1, <3>8, FillCount
        <4>2. \A d \in Dates : Cardinality(FillsOn(d)') <= MaxTrades
          BY <1>0, <4>1
        <4>3. Limit'
          BY <4>2 DEF FillsOn, Dates, Date
        <4> QED BY <3>2, <4>1, <4>3
      <3> QED
        BY <1>1, <1>3, <2>4, <3>1, <3>2, <3>3, <3>4, <3>5, <3>6, <3>7, <3>8,
           OtherCount
    <2>5. CASE pc = "down" /\ ~Start
      <3>1. Advance \/ HeartbeatHalts \/ HeartbeatEngages \/ Operator
        BY <1>3, <2>5
        DEF Next, Crash, TickArrives, CandleStep, RollArmed, RollPosition,
            StartSession, Rollover, OnCandle, EndArmed, EndPosition, EndDone,
            TickStep, IgnoreOlder, PositionTick, NoEntry, DropArmed, FeedHalts,
            Considers, Enter, SubmitAllowed, SubmitRejected, AfterRejection,
            AppendFill, AfterFill, HeartbeatStale, HeartbeatRefuses
      <3>2. pc' = "down" /\ ledger'.fills = ledger.fills
        BY <2>5, <3>1, FillsUntouched, IInvFacts
        DEF Advance, HeartbeatHalts, HeartbeatEngages, Operator, Main
      <3> QED
        BY <1>1, <3>2 DEF CountInv, DailyLimit, Dates, FillsOn
    <2> QED
      BY <1>3, <2>2, <2>3, <2>4, <2>5
  <1> QED
    BY <1>2, <1>3

(* risk.py:88, fyers_paper.py:249: at most max_trades_per_day BUYs fill on *)
(* one date, over any restarts, rollovers and late ticks.                  *)
THEOREM PaperDailyLimit == Spec => []DailyLimit
  <1>1. Init => CountInv /\ DailyLimit
    <2> SUFFICES ASSUME Init PROVE CountInv /\ DailyLimit
      OBVIOUS
    <2>1. CountInv
      BY DEF Init, CountInv
    <2>2. ledger.fills = {} /\ Cardinality({}) = 0
      BY FS_EmptySet DEF Init, EmptyLedger
    <2>3. \A d \in Dates : {f \in ledger.fills : Date(f.time) = d} = {}
      BY <2>2
    <2>4. DailyLimit
      BY <2>2, <2>3, PaperAssumption DEF DailyLimit, Dates
    <2> QED BY <2>1, <2>4
  <1> QED
    BY Invariant, CountKept, <1>1, PTL DEF Spec

=============================================================================
