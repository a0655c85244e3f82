----------------------------- MODULE LedgerFile -----------------------------
(***************************************************************************)
(* TradeLedger's file (ledger.py): one line per event, appended, flushed   *)
(* and fsynced.  A machine failure during an append can leave any prefix   *)
(* of the line: nothing, an unfinished record, or a whole record without   *)
(* its newline; the next append then continues that same line.  events()   *)
(* parses every line and raises on the first it cannot parse.              *)
(***************************************************************************)
EXTENDS Ledger, Integers, Sequences

CONSTANTS
  Events,       \* the events appended: [event, id, time]
  MaxLines,     \* bound: lines of the file
  Garbage       \* a line that does not parse

EventKinds ==
  {"BUY_INTENT", "BUY_FILLED", "BUY_EXPIRED", "BUY_CANCELLED", "SESSION_END",
   "LONG_CLOSE_INTENT", "POSITION_CLOSED", "KILL_SWITCH_ON", "KILL_SWITCH_OFF",
   "PAPER_BUY_ACK", "REJECT"}

Ids == {e.id : e \in Events}

(* A line that does not parse is no event.                                 *)
ASSUME FileAssumption ==
  /\ MaxLines \in Nat /\ Garbage \notin Events
  /\ Events \subseteq [event : EventKinds, id : Ids, time : Nat]

VARIABLES
  file,         \* the lines
  tail,         \* how the file ends: "newline", "bare" record, "torn" record
  acked         \* the events whose append returned, for the properties

vars == <<file, tail, acked>>

Init == file = <<>> /\ tail = "newline" /\ acked = <<>>

TypeOK ==
  /\ file \in Seq(Events \cup {Garbage}) /\ Len(file) <= MaxLines
  /\ tail \in {"newline", "bare", "torn"}
  /\ acked \in Seq(Events)

(* Text written now starts a line only if the last line was ended.         *)
Write_Retried(line, ending) ==
  /\ file' = (IF tail = "newline" THEN Append(file, line) ELSE file) \o <<line>>
  /\ tail' = ending
Write(line, ending) ==
  /\ file' = IF tail = "newline" THEN Append(file, line)
             ELSE [file EXCEPT ![Len(file)] = Garbage]
  /\ tail' = ending

Room == Len(file) < MaxLines

Readable_Skips == TRUE
Readable == \A i \in DOMAIN file : file[i] # Garbage

(* A process appends only after it has read the whole ledger at its start; *)
(* while it runs only its own appends change the file.                     *)
AppendEvent(e) ==
  /\ Readable /\ Room
  /\ Write(e, "newline")
  /\ acked' = Append(acked, e)

FailInAppend(e) ==
  /\ Readable /\ Room
  /\ Write(e, "bare") \/ Write(Garbage, "torn")
  /\ UNCHANGED acked

Next == \E e \in Events : AppendEvent(e) \/ FailInAppend(e)

Spec == Init /\ [][Next]_vars

-----------------------------------------------------------------------------
(* snapshot(): the fold over the events, one Ledger operator per event; it *)
(* skips the events it does not name.                                      *)

Apply(l, e) ==
  CASE e.event = "BUY_INTENT"        -> BuyIntent(l, e.id, e.time)
    [] e.event = "BUY_FILLED"        -> BuyFilled(l, e.id, e.time)
    [] e.event \in {"BUY_EXPIRED", "BUY_CANCELLED"} -> BuyDropped(l, e.time)
    [] e.event = "SESSION_END"       -> SessionEnd(l, e.time)
    [] e.event = "LONG_CLOSE_INTENT" -> CloseIntent(l, e.id, e.time)
    [] e.event = "POSITION_CLOSED"   -> PositionClosed(l, e.id, e.time)
    [] e.event = "KILL_SWITCH_ON"    -> KillSwitchOn(l, e.time)
    [] e.event = "KILL_SWITCH_OFF"   -> KillSwitchOff(l, e.time)
    [] e.event \in {"PAPER_BUY_ACK", "REJECT"}      -> Stamp(l, e.time)

Snapshot ==
  LET fold[i \in 0 .. Len(file)] ==
        IF i = 0 THEN EmptyLedger ELSE Apply(fold[i - 1], file[i])
  IN fold[Len(file)]

-----------------------------------------------------------------------------
(* Whatever failures came before, a file that can be read yields every     *)
(* acknowledged event, in order, and beside them only events whose append  *)
(* was cut short: nothing is lost silently (ledger.py:26-49).              *)
IsSubsequence(s, t) ==
  \E place \in [1 .. Len(s) -> 1 .. Len(t)] :
    /\ \A i \in 1 .. Len(s) : s[i] = t[place[i]]
    /\ \A i, j \in 1 .. Len(s) : i < j => place[i] < place[j]

NoSilentLoss == Readable => IsSubsequence(acked, file)

(* The fold says what the history means: a position or an intent is open   *)
(* exactly when the event that opened it is later than every event that    *)
(* ends it, and the stamps are the last and the greatest (ledger.py:57-88, *)
(* safety.py:45-46).                                                       *)
OpenSince(x, opening, ending, n) ==
  \/ /\ x = None
     /\ \A i \in 1 .. n : file[i].event \in opening =>
          \E j \in i + 1 .. n : file[j].event \in ending
  \/ \E i \in 1 .. n :
       /\ file[i].event \in opening /\ file[i].id = x
       /\ \A j \in i + 1 .. n : file[j].event \notin opening \cup ending

HaltedSince(n) ==
  \E i \in 1 .. n :
    /\ file[i].event = "KILL_SWITCH_ON"
    /\ \A j \in i + 1 .. n : file[j].event # "KILL_SWITCH_OFF"

EndsBuy == {"BUY_FILLED", "BUY_EXPIRED", "BUY_CANCELLED"}
EndsPosition == {"POSITION_CLOSED", "SESSION_END"}

Means(l, n) ==
  /\ OpenSince(l.position, {"BUY_FILLED"}, EndsPosition, n)
  /\ OpenSince(l.pendingBuy, {"BUY_INTENT"}, EndsBuy, n)
  /\ OpenSince(l.pendingClose, {"LONG_CLOSE_INTENT"}, EndsPosition, n)
  /\ l.halted <=> HaltedSince(n)
  /\ RiskRecoverable(l) <=> \A i \in 1 .. n : file[i].time <= file[n].time

SnapshotMeansHistory == Readable => Means(Snapshot, Len(file))

(* ledger.py:20, "Append-only event ledger with flush+fsync durability":    *)
(* an append that returned leaves a ledger that can be read.               *)
AckedAppendIsReadable == [][acked' # acked => Readable']_vars
=============================================================================
