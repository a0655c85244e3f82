------------------------- MODULE LedgerFile_proofs -------------------------
(***************************************************************************)
(* Proofs about LedgerFile for every set of events and every file length:  *)
(* an acknowledged event is in every file that can be read, and the fold   *)
(* of snapshot says what the history means.                                *)
(***************************************************************************)
EXTENDS LedgerFile, Induction

(* A file that does not end in a newline has a last line, which the next   *)
(* append will ruin.                                                       *)
FileInv ==
  /\ TypeOK /\ NoSilentLoss
  /\ tail # "newline" => file # <<>>

(* A line continued by another append does not parse (ledger.py:27-32).    *)
LEMMA WriteContinues ==
  ASSUME FileInv, NEW line, NEW ending, Write(line, ending), tail # "newline"
  PROVE  ~Readable'
  <1>1. Len(file) \in DOMAIN file
    BY DEF FileInv, TypeOK
  <1>2. file' = [file EXCEPT ![Len(file)] = Garbage]
    BY DEF Write
  <1>3. Len(file) \in DOMAIN file' /\ file'[Len(file)] = Garbage
    BY <1>1, <1>2
  <1> QED
    BY <1>3 DEF Readable

(* Every write leaves a well-typed file with a last line.                  *)
LEMMA WriteType ==
  ASSUME FileInv, Room, NEW line \in Events \cup {Garbage},
         NEW ending \in {"newline", "bare", "torn"}, Write(line, ending)
  PROVE  /\ file' \in Seq(Events \cup {Garbage}) /\ Len(file') <= MaxLines
         /\ file' # <<>> /\ tail' = ending
  <1> DEFINE Lines == Events \cup {Garbage}
  <1>1. file \in Seq(Lines) /\ Len(file) <= MaxLines
    BY DEF FileInv, TypeOK
  <1>2. CASE tail = "newline"
    <2>1. file' = Append(file, line)
      BY <1>2 DEF Write
    <2> HIDE DEF Lines
    <2>2. file' \in Seq(Lines) /\ Len(file') = Len(file) + 1 /\ file' # <<>>
      BY <1>1, <2>1 DEF Lines
    <2> QED
      BY <1>1, <2>2, FileAssumption DEF Write, Room, Lines
  <1>3. CASE tail # "newline"
    <2>1. file' = [file EXCEPT ![Len(file)] = Garbage]
      BY <1>3 DEF Write
    <2>2. Len(file) \in 1 .. Len(file)
      BY <1>1, <1>3 DEF FileInv
    <2> HIDE DEF Lines
    <2>3. file' \in Seq(Lines) /\ Len(file') = Len(file) /\ file' # <<>>
      BY <1>1, <2>1, <2>2 DEF Lines
    <2> QED
      BY <1>1, <2>3 DEF Write, Lines
  <1> QED
    BY <1>2, <1>3

(* What was found in a file is found in the longer one.                    *)
LEMMA AppendKeeps ==
  ASSUME NEW S, NEW s \in Seq(S), NEW t \in Seq(S), NEW e,
         IsSubsequence(s, t)
  PROVE  /\ IsSubsequence(s, Append(t, e))
         /\ IsSubsequence(Append(s, e), Append(t, e))
  <1> PICK place \in [1 .. Len(s) -> 1 .. Len(t)] :
        /\ \A i \in 1 .. Len(s) : s[i] = t[place[i]]
        /\ \A i, j \in 1 .. Len(s) : i < j => place[i] < place[j]
    BY DEF IsSubsequence
  <1> DEFINE t2 == Append(t, e)
             s2 == Append(s, e)
  <1>1. /\ Len(t2) = Len(t) + 1 /\ \A i \in 1 .. Len(t) : t2[i] = t[i]
        /\ t2[Len(t) + 1] = e
    OBVIOUS
  <1>2. /\ Len(s2) = Len(s) + 1 /\ \A i \in 1 .. Len(s) : s2[i] = s[i]
        /\ s2[Len(s) + 1] = e
    OBVIOUS
  <1>3. Len(s) \in Nat /\ Len(t) \in Nat
    OBVIOUS
  <1> HIDE DEF t2, s2
  <1>4. IsSubsequence(s, t2)
    <2>1. place \in [1 .. Len(s) -> 1 .. Len(t2)]
      BY <1>1, <1>3
    <2>2. \A i \in 1 .. Len(s) : s[i] = t2[place[i]]
      BY <1>1
    <2> QED
      BY <2>1, <2>2 DEF IsSubsequence
  <1>5. IsSubsequence(s2, t2)
    <2> DEFINE next == [i \in 1 .. Len(s2) |->
                          IF i <= Len(s) THEN place[i] ELSE Len(t) + 1]
    <2>1. next \in [1 .. Len(s2) -> 1 .. Len(t2)]
      BY <1>1, <1>2, <1>3
    <2>2. ASSUME NEW i \in 1 .. Len(s2) PROVE s2[i] = t2[next[i]]
      <3>1. CASE i <= Len(s)
        <4>1. i \in 1 .. Len(s) /\ next[i] = place[i]
          BY <1>2, <1>3, <3>1
        <4>2. place[i] \in 1 .. Len(t) /\ s[i] = t[place[i]]
          BY <4>1
        <4> QED BY <1>1, <1>2, <4>1, <4>2
      <3>2. CASE ~ i <= Len(s)
        <4>1. i = Len(s) + 1 /\ next[i] = Len(t) + 1
          BY <1>2, <1>3, <3>2
        <4> QED BY <1>1, <1>2, <4>1
      <3> QED BY <3>1, <3>2
    <2>3. \A i, j \in 1 .. Len(s2) : i < j => next[i] < next[j]
      BY <1>2, <1>3
    <2> QED
      BY <2>1, <2>2, <2>3 DEF IsSubsequence
  <1> QED
    BY <1>4, <1>5 DEF t2, s2

(* Appends, whole or cut short, keep the invariant.                        *)
LEMMA FileStep ==
  ASSUME FileInv, [Next]_vars
  PROVE  FileInv'
  <1>1. CASE UNCHANGED vars
    BY <1>1 DEF vars, FileInv, TypeOK, NoSilentLoss, Readable
  <1>2. ASSUME NEW e \in Events, AppendEvent(e)
        PROVE  FileInv'
    <2>1. TypeOK' /\ file' # <<>>
      <3>1. acked' \in Seq(Events)
        BY <1>2 DEF AppendEvent, FileInv, TypeOK
      <3> QED
        BY <1>2, <3>1, WriteType DEF AppendEvent, TypeOK
    <2>2. NoSilentLoss'
      <3>1. CASE tail # "newline"
        BY <1>2, <3>1, WriteContinues DEF AppendEvent, NoSilentLoss
      <3>2. CASE tail = "newline"
        <4> DEFINE Lines == Events \cup {Garbage}
        <4>1. file \in Seq(Lines) /\ acked \in Seq(Lines)
          BY DEF FileInv, TypeOK
        <4>2. IsSubsequence(acked, file)
          BY <1>2 DEF AppendEvent, FileInv, NoSilentLoss
        <4>3. file' = Append(file, e) /\ acked' = Append(acked, e)
          BY <1>2, <3>2 DEF AppendEvent, Write
        <4> HIDE DEF Lines
        <4>4. IsSubsequence(Append(acked, e), Append(file, e))
          BY <4>1, <4>2, AppendKeeps
        <4> QED
          BY <4>3, <4>4 DEF NoSilentLoss
      <3> QED
        BY <3>1, <3>2
    <2> QED
      BY <2>1, <2>2 DEF FileInv
  <1>3. ASSUME NEW e \in Events, FailInAppend(e)
        PROVE  FileInv'
    <2>1. PICK line \in {e, Garbage}, ending \in {"bare", "torn"} :
            Write(line, ending)
      BY <1>3 DEF FailInAppend
    <2>2. TypeOK' /\ file' # <<>>
      BY <1>3, <2>1, WriteType DEF FailInAppend, TypeOK, FileInv
    <2>3. NoSilentLoss'
      <3>1. CASE tail # "newline"
        BY <2>1, <3>1, WriteContinues DEF NoSilentLoss
      <3>2. CASE tail = "newline"
        <4> DEFINE Lines == Events \cup {Garbage}
        <4>1. file \in Seq(Lines) /\ acked \in Seq(Lines)
          BY DEF FileInv, TypeOK
        <4>2. IsSubsequence(acked, file)
          BY <1>3 DEF FailInAppend, FileInv, NoSilentLoss
        <4>3. file' = Append(file, line) /\ acked' = acked
          BY <1>3, <2>1, <3>2 DEF FailInAppend, Write
        <4> HIDE DEF Lines
        <4>4. IsSubsequence(acked, Append(file, line))
          BY <4>1, <4>2, AppendKeeps
        <4> QED
          BY <4>3, <4>4 DEF NoSilentLoss
      <3> QED
        BY <3>1, <3>2
    <2> QED
      BY <2>2, <2>3 DEF FileInv
  <1> QED
    BY <1>1, <1>2, <1>3 DEF Next

(* The empty file satisfies the invariant, and every append keeps it.      *)
LEMMA FileInductive == Spec => []FileInv
  <1>1. Init => FileInv
    <2> SUFFICES ASSUME Init PROVE FileInv
      OBVIOUS
    <2>1. TypeOK
      BY FileAssumption DEF Init, TypeOK
    <2>2. NoSilentLoss
      <3> DEFINE place == [i \in 1 .. 0 |-> i]
      <3>1. place \in [1 .. Len(acked) -> 1 .. Len(file)]
        BY DEF Init
      <3>2. 1 .. Len(acked) = {}
        BY DEF Init
      <3> QED
        BY <3>1, <3>2 DEF NoSilentLoss, IsSubsequence
    <2> QED
      BY <2>1, <2>2 DEF FileInv, Init
  <1> QED
    BY <1>1, FileStep, PTL DEF Spec

(* The file is a sequence of events and of lines that do not parse, and    *)
(* what was acknowledged are events, for any number of failed appends.     *)
THEOREM FileTypeCorrect == Spec => []TypeOK
  BY FileInductive, PTL DEF FileInv

(* A file that can be read holds every event whose append returned, in the *)
(* order of the appends, whatever machine failures cut other appends short *)
(* (ledger.py:26-49).                                                      *)
THEOREM NothingLostSilently == Spec => []NoSilentLoss
  BY FileInductive, PTL DEF FileInv

-----------------------------------------------------------------------------
(* The fold of snapshot, by induction over the lines.                      *)

(* What the fold knows after i lines.                                      *)
Facts ==
  [position : Ids \cup {None}, pendingBuy : Ids \cup {None},
   pendingClose : Ids \cup {None}, halted : BOOLEAN,
   intents : SUBSET Ids, fills : SUBSET [buy : Ids, time : Nat],
   closed : SUBSET Ids, last : Nat, latest : Nat]

(* What one line does to each of the facts the history is about.           *)
Opened(x, e, opening, ending) ==
  IF e.event \in opening THEN e.id ELSE IF e.event \in ending THEN None ELSE x

(* A line that parses is an event.                                         *)
LEMMA EventType ==
  ASSUME NEW e \in Events
  PROVE  e.event \in EventKinds /\ e.id \in Ids /\ e.time \in Nat
  <1>1. e \in [event : EventKinds, id : Ids, time : Nat]
    BY FileAssumption
  <1> QED
    BY <1>1

(* Every event stamps the ledger, and stamps touch nothing else.           *)
LEMMA StampType ==
  ASSUME NEW l \in Facts, NEW t \in Nat
  PROVE  /\ Stamp(l, t) \in Facts
         /\ Stamp(l, t).last = t
         /\ Stamp(l, t).latest = IF t > l.latest THEN t ELSE l.latest
         /\ Stamp(l, t).position = l.position
         /\ Stamp(l, t).pendingBuy = l.pendingBuy
         /\ Stamp(l, t).pendingClose = l.pendingClose
         /\ Stamp(l, t).halted = l.halted
  <1>1. Stamp(l, t) = [l EXCEPT !.last = t,
                                !.latest = IF t > l.latest THEN t ELSE l.latest]
    BY DEF Stamp
  <1> QED
    BY <1>1 DEF Facts

(* The facts after one more line.                                          *)
LEMMA ApplyFacts ==
  ASSUME NEW l \in Facts, NEW e \in Events
  PROVE  /\ Apply(l, e) \in Facts
         /\ Apply(l, e).position =
              Opened(l.position, e, {"BUY_FILLED"}, EndsPosition)
         /\ Apply(l, e).pendingBuy =
              Opened(l.pendingBuy, e, {"BUY_INTENT"}, EndsBuy)
         /\ Apply(l, e).pendingClose =
              Opened(l.pendingClose, e, {"LONG_CLOSE_INTENT"}, EndsPosition)
         /\ Apply(l, e).halted =
              IF e.event = "KILL_SWITCH_ON" THEN TRUE
              ELSE IF e.event = "KILL_SWITCH_OFF" THEN FALSE ELSE l.halted
         /\ Apply(l, e).last = e.time
         /\ Apply(l, e).latest = IF e.time > l.latest THEN e.time ELSE l.latest
  <1>1. e.event \in EventKinds /\ e.id \in Ids /\ e.time \in Nat
    BY EventType
  <1>n. PICK s : s = Stamp(l, e.time)
    OBVIOUS
  <1>2. /\ s \in Facts /\ s.last = e.time
        /\ s.latest = IF e.time > l.latest THEN e.time ELSE l.latest
        /\ s.position = l.position /\ s.pendingBuy = l.pendingBuy
        /\ s.pendingClose = l.pendingClose /\ s.halted = l.halted
    BY <1>1, <1>n, StampType
  <1>m. /\ s.intents \subseteq Ids /\ s.closed \subseteq Ids
        /\ s.fills \subseteq [buy : Ids, time : Nat]
    BY <1>2 DEF Facts
  <1>3. CASE e.event = "BUY_INTENT"
    <2>0. PICK S : S = s.intents \cup {e.id} /\ S \in SUBSET Ids
      BY <1>1, <1>m
    <2>1. Apply(l, e) = [s EXCEPT !.pendingBuy = e.id, !.intents = S]
      BY <1>n, <1>3, <2>0 DEF Apply, BuyIntent
    <2> QED
      BY <1>1, <1>2, <1>3, <2>0, <2>1 DEF Facts, Opened, EndsBuy, EndsPosition
  <1>4. CASE e.event = "BUY_FILLED"
    <2>m. PICK f \in [buy : Ids, time : Nat] : f = [buy |-> e.id, time |-> e.time]
      BY <1>1
    <2>0. PICK S : S = s.fills \cup {[buy |-> e.id, time |-> e.time]}
                   /\ S \in SUBSET [buy : Ids, time : Nat]
      BY <1>m, <2>m
    <2>1. Apply(l, e) = [s EXCEPT !.pendingBuy = None, !.position = e.id,
                           !.fills = S]
      BY <1>n, <1>4, <2>0 DEF Apply, BuyFilled
    <2> QED
      BY <1>1, <1>2, <1>4, <2>0, <2>1 DEF Facts, Opened, EndsBuy, EndsPosition
  <1>5. CASE e.event \in {"BUY_EXPIRED", "BUY_CANCELLED"}
    <2>1. Apply(l, e) = [s EXCEPT !.pendingBuy = None]
      BY <1>n, <1>5 DEF Apply, BuyDropped
    <2> QED
      BY <1>1, <1>2, <1>5, <2>1 DEF Facts, Opened, EndsBuy, EndsPosition
  <1>a. CASE e.event = "SESSION_END"
    <2>1. Apply(l, e) = [s EXCEPT !.pendingClose = None, !.position = None]
      BY <1>n, <1>a DEF Apply, SessionEnd
    <2> QED
      BY <1>1, <1>2, <1>a, <2>1 DEF Facts, Opened, EndsBuy, EndsPosition
  <1>b. CASE e.event \in {"PAPER_BUY_ACK", "REJECT"}
    <2>1. Apply(l, e) = s
      BY <1>n, <1>b DEF Apply
    <2> QED
      BY <1>1, <1>2, <1>b, <2>1 DEF Facts, Opened, EndsBuy, EndsPosition
  <1>6. CASE e.event = "LONG_CLOSE_INTENT"
    <2>1. Apply(l, e) = [s EXCEPT !.pendingClose = e.id]
      BY <1>n, <1>6 DEF Apply, CloseIntent
    <2> QED
      BY <1>1, <1>2, <1>6, <2>1 DEF Facts, Opened, EndsBuy, EndsPosition
  <1>7. CASE e.event = "POSITION_CLOSED"
    <2>0. PICK S : S = s.closed \cup {e.id} /\ S \in SUBSET Ids
      BY <1>1, <1>m
    <2>1. Apply(l, e) = [s EXCEPT !.pendingClose = None, !.position = None,
                           !.closed = S]
      BY <1>n, <1>7, <2>0 DEF Apply, PositionClosed
    <2> QED
      BY <1>1, <1>2, <1>7, <2>0, <2>1 DEF Facts, Opened, EndsBuy, EndsPosition
  <1>8. CASE e.event = "KILL_SWITCH_ON"
    <2>1. Apply(l, e) = [s EXCEPT !.halted = TRUE]
      BY <1>n, <1>8 DEF Apply, KillSwitchOn
    <2> QED
      BY <1>1, <1>2, <1>8, <2>1 DEF Facts, Opened, EndsBuy, EndsPosition
  <1>9. CASE e.event = "KILL_SWITCH_OFF"
    <2>1. Apply(l, e) = [s EXCEPT !.halted = FALSE]
      BY <1>n, <1>9 DEF Apply, KillSwitchOff
    <2> QED
      BY <1>1, <1>2, <1>9, <2>1 DEF Facts, Opened, EndsBuy, EndsPosition
  <1> QED
    BY <1>1, <1>3, <1>4, <1>5, <1>6, <1>7, <1>8, <1>9,
       <1>a, <1>b DEF EventKinds

(* One more line opens, ends or leaves what the first n had opened.        *)
LEMMA OpenStep ==
  ASSUME NEW n \in Nat, NEW x, NEW opening, NEW ending,
         OpenSince(x, opening, ending, n), opening \cap ending = {}
  PROVE  OpenSince(Opened(x, file[n + 1], opening, ending), opening, ending, n + 1)
  <1>1. \A i \in 1 .. n + 1 : i \in 1 .. n \/ i = n + 1
    OBVIOUS
  <1>2. \A i \in 1 .. n : n + 1 \in i + 1 .. n + 1
    OBVIOUS
  <1>3. n + 1 \in 1 .. n + 1 /\ (n + 1) + 1 .. n + 1 = {}
    OBVIOUS
  <1>4. \A i \in 1 .. n :
          i \in 1 .. n + 1 /\ \A j \in i + 1 .. n + 1 : j \in i + 1 .. n \/ j = n + 1
    OBVIOUS
  <1>5. \A i \in 1 .. n : \A j \in i + 1 .. n : j \in i + 1 .. n + 1
    OBVIOUS
  <1>6. CASE file[n + 1].event \in opening
    BY <1>3, <1>6 DEF OpenSince, Opened
  <1>7. CASE file[n + 1].event \in ending
    BY <1>1, <1>2, <1>7 DEF OpenSince, Opened
  <1>8. CASE file[n + 1].event \notin opening \cup ending
    <2>1. CASE /\ x = None
               /\ \A i \in 1 .. n : file[i].event \in opening =>
                    \E j \in i + 1 .. n : file[j].event \in ending
      BY <1>1, <1>5, <1>8, <2>1 DEF OpenSince, Opened
    <2>2. CASE \E i \in 1 .. n :
                /\ file[i].event \in opening /\ file[i].id = x
                /\ \A j \in i + 1 .. n : file[j].event \notin opening \cup ending
      BY <1>4, <1>8, <2>2 DEF OpenSince, Opened
    <2> QED
      BY <2>1, <2>2 DEF OpenSince
  <1> QED
    BY <1>6, <1>7, <1>8

(* One more line engages or releases the kill switch, or leaves it.        *)
LEMMA HaltStep ==
  ASSUME NEW n \in Nat, NEW on \in BOOLEAN, on <=> HaltedSince(n)
  PROVE  (IF file[n + 1].event = "KILL_SWITCH_ON" THEN TRUE
          ELSE IF file[n + 1].event = "KILL_SWITCH_OFF" THEN FALSE ELSE on)
            <=> HaltedSince(n + 1)
  <1>1. \A i \in 1 .. n + 1 : i \in 1 .. n \/ i = n + 1
    OBVIOUS
  <1>2. \A i \in 1 .. n : n + 1 \in i + 1 .. n + 1
    OBVIOUS
  <1>3. n + 1 \in 1 .. n + 1 /\ (n + 1) + 1 .. n + 1 = {}
    OBVIOUS
  <1>4. \A i \in 1 .. n :
          i \in 1 .. n + 1 /\ \A j \in i + 1 .. n + 1 : j \in i + 1 .. n \/ j = n + 1
    OBVIOUS
  <1>5. \A i \in 1 .. n : \A j \in i + 1 .. n : j \in i + 1 .. n + 1
    OBVIOUS
  <1>6. CASE file[n + 1].event = "KILL_SWITCH_ON"
    BY <1>3, <1>6 DEF HaltedSince
  <1>7. CASE file[n + 1].event = "KILL_SWITCH_OFF"
    BY <1>1, <1>2, <1>7 DEF HaltedSince
  <1>8. CASE /\ file[n + 1].event # "KILL_SWITCH_ON"
             /\ file[n + 1].event # "KILL_SWITCH_OFF"
    <2>1. HaltedSince(n + 1) => HaltedSince(n)
      BY <1>1, <1>5, <1>8 DEF HaltedSince
    <2>2. HaltedSince(n) => HaltedSince(n + 1)
      BY <1>4, <1>8 DEF HaltedSince
    <2> QED
      BY <1>8, <2>1, <2>2
  <1> QED
    BY <1>6, <1>7, <1>8

(* The results of the fold after each line.                                *)
IsFold(f) ==
  /\ f \in [0 .. Len(file) -> Facts] /\ f[0] = EmptyLedger
  /\ \A i \in 1 .. Len(file) : f[i] = Apply(f[i - 1], file[i])

LEMMA EmptyFacts == EmptyLedger \in Facts
  BY DEF EmptyLedger, Facts

(* The fold over a file of events has a result, and snapshot returns it.   *)
LEMMA SnapshotIsFold ==
  ASSUME file \in Seq(Events)
  PROVE  \E f : IsFold(f) /\ Snapshot = f[Len(file)]
  <1> DEFINE n == Len(file)
             step == [i \in 1 .. n |-> [l \in Facts |-> Apply(l, file[i])]]
             Folds(f) == f = [i \in 0 .. n |->
                    IF i = 0 THEN EmptyLedger ELSE Apply(f[i - 1], file[i])]
  <1>0. n \in Nat /\ \A i \in 1 .. n : file[i] \in Events
    OBVIOUS
  <1>1. PICK f : IsRecursion(f, n, Facts, EmptyLedger, step)
    <2>1. step \in Steps(n, Facts)
      BY <1>0, ApplyFacts DEF Steps
    <2> HIDE DEF step, n
    <2> QED
      BY <1>0, <2>1, EmptyFacts, RecursionHasSolution
  <1>2. \A i \in 1 .. n : i - 1 \in 0 .. n /\ f[i] = Apply(f[i - 1], file[i])
    <2> TAKE i \in 1 .. n
    <2>1. i - 1 \in 0 .. n
      BY <1>0
    <2> QED
      BY <1>1, <2>1 DEF IsRecursion
  <1>3. Folds(f)
    BY <1>1, <1>2 DEF IsRecursion
  <1>4. Folds(CHOOSE g : Folds(g))
    BY <1>3
  <1>5. PICK fold : Folds(fold) /\ Snapshot = fold[n]
    BY <1>4 DEF Snapshot
  <1>6. fold[0] = EmptyLedger
        /\ \A i \in 1 .. n : fold[i] = Apply(fold[i - 1], file[i])
    <2>1. 0 \in 0 .. n /\ 1 .. n \subseteq 0 .. n /\ \A i \in 1 .. n : i # 0
      BY <1>0
    <2> HIDE DEF n
    <2> QED
      BY <1>5, <2>1
  <1>7. AgreeUpTo(n, fold, f)
    <2>1. f[0] = fold[0]
      BY <1>1, <1>6 DEF IsRecursion
    <2>2. \A i \in 1 .. n : fold[i - 1] = f[i - 1] => fold[i] = f[i]
      BY <1>2, <1>6
    <2> HIDE DEF n
    <2> QED
      BY <1>0, <2>1, <2>2, RecursionIsUnique
  <1>8. Snapshot = f[n]
    BY <1>0, <1>5, <1>7 DEF AgreeUpTo
  <1>9. IsFold(f)
    BY <1>1, <1>2 DEF IsFold, IsRecursion
  <1> QED
    BY <1>8, <1>9

(* What the facts say of the first n lines, with the stamps in a form that *)
(* one more line preserves.                                                *)
Meant(l, n) ==
  /\ OpenSince(l.position, {"BUY_FILLED"}, EndsPosition, n)
  /\ OpenSince(l.pendingBuy, {"BUY_INTENT"}, EndsBuy, n)
  /\ OpenSince(l.pendingClose, {"LONG_CLOSE_INTENT"}, EndsPosition, n)
  /\ l.halted <=> HaltedSince(n)
  /\ l.last = IF n = 0 THEN 0 ELSE file[n].time
  /\ \A i \in 1 .. n : file[i].time <= l.latest
  /\ l.latest = 0 \/ \E i \in 1 .. n : l.latest = file[i].time

(* The empty history means the empty ledger, and one more line of history  *)
(* means what Apply makes of it.                                           *)
LEMMA EmptyIsMeant == Meant(EmptyLedger, 0)
  <1>1. 1 .. 0 = {}
    OBVIOUS
  <1> QED
    BY <1>1 DEF Meant, OpenSince, HaltedSince, EmptyLedger

LEMMA MeantStep ==
  ASSUME file \in Seq(Events), NEW n \in Nat, n + 1 \in 1 .. Len(file),
         NEW l \in Facts, Meant(l, n)
  PROVE  Meant(Apply(l, file[n + 1]), n + 1)
  <1>n. PICK e \in Events : e = file[n + 1]
    OBVIOUS
  <1>m. PICK k \in Facts : k = Apply(l, e)
    BY ApplyFacts
  <1>1. /\ k.position = Opened(l.position, e, {"BUY_FILLED"}, EndsPosition)
        /\ k.pendingBuy =
              Opened(l.pendingBuy, e, {"BUY_INTENT"}, EndsBuy)
        /\ k.pendingClose =
              Opened(l.pendingClose, e, {"LONG_CLOSE_INTENT"}, EndsPosition)
        /\ k.halted = IF e.event = "KILL_SWITCH_ON" THEN TRUE
                      ELSE IF e.event = "KILL_SWITCH_OFF" THEN FALSE ELSE l.halted
        /\ k.last = e.time
        /\ k.latest = IF e.time > l.latest THEN e.time ELSE l.latest
    BY <1>m, ApplyFacts
  <1>2. OpenSince(k.position, {"BUY_FILLED"}, EndsPosition, n + 1)
    BY <1>n, <1>1, OpenStep DEF Meant, EndsBuy, EndsPosition
  <1>3. OpenSince(k.pendingBuy, {"BUY_INTENT"}, EndsBuy, n + 1)
    BY <1>n, <1>1, OpenStep DEF Meant, EndsBuy, EndsPosition
  <1>4. OpenSince(k.pendingClose, {"LONG_CLOSE_INTENT"}, EndsPosition, n + 1)
    BY <1>n, <1>1, OpenStep DEF Meant, EndsBuy, EndsPosition
  <1>5. k.halted <=> HaltedSince(n + 1)
    <2>1. l.halted \in BOOLEAN /\ (l.halted <=> HaltedSince(n))
      BY DEF Meant, Facts
    <2> QED
      BY <1>n, <1>1, <2>1, HaltStep
  <1>6. /\ k.last = IF n + 1 = 0 THEN 0 ELSE file[n + 1].time
        /\ \A i \in 1 .. n + 1 : file[i].time <= k.latest
        /\ k.latest = 0 \/ \E i \in 1 .. n + 1 : k.latest = file[i].time
    <2>1. /\ e.time \in Nat /\ l.latest \in Nat
          /\ \A i \in 1 .. n : file[i].time \in Nat
      <3>1. \A i \in 1 .. n : file[i] \in Events
        OBVIOUS
      <3> QED
        BY <3>1, EventType DEF Facts
    <2>2. \A i \in 1 .. n + 1 : i \in 1 .. n \/ i = n + 1
      OBVIOUS
    <2>3. \A i \in 1 .. n : file[i].time <= l.latest
      BY DEF Meant
    <2>4. \A i \in 1 .. n + 1 : file[i].time <= k.latest
      BY <1>n, <1>1, <2>1, <2>2, <2>3
    <2>5. k.latest = 0 \/ \E i \in 1 .. n + 1 : k.latest = file[i].time
      <3>1. n + 1 \in 1 .. n + 1 /\ 1 .. n \subseteq 1 .. n + 1
        OBVIOUS
      <3>2. k.latest = e.time \/ k.latest = l.latest
        BY <1>1
      <3> QED
        BY <1>n, <3>1, <3>2 DEF Meant
    <2>6. n + 1 # 0
      OBVIOUS
    <2> QED
      BY <1>n, <1>1, <2>4, <2>5, <2>6
  <1>7. Meant(k, n + 1)
    BY <1>2, <1>3, <1>4, <1>5, <1>6 DEF Meant
  <1> QED
    BY <1>n, <1>m, <1>7

(* By induction over the lines of the file.                                *)
LEMMA SnapshotIsMeant ==
  ASSUME file \in Seq(Events)
  PROVE  Meant(Snapshot, Len(file)) /\ Snapshot \in Facts
  <1>1. PICK f : IsFold(f) /\ Snapshot = f[Len(file)]
    BY SnapshotIsFold
  <1> DEFINE S == {i \in 0 .. Len(file) : Meant(f[i], i)}
  <1>2. 0 \in S
    BY <1>1, EmptyIsMeant DEF IsFold
  <1>3. ASSUME NEW i \in 1 .. Len(file), i - 1 \in S PROVE i \in S
    <2>1. PICK m \in Nat : m = i - 1
      OBVIOUS
    <2>2. m + 1 = i /\ m \in 0 .. Len(file) /\ m + 1 \in 1 .. Len(file)
      BY <2>1
    <2>3. f[m] \in Facts /\ Meant(f[m], m) /\ f[m + 1] = Apply(f[m], file[m + 1])
      BY <1>1, <1>3, <2>1, <2>2 DEF IsFold
    <2>4. Meant(f[m + 1], m + 1)
      BY <2>2, <2>3, MeantStep
    <2> QED
      BY <2>2, <2>4
  <1>4. Len(file) \in Nat /\ Len(file) \in 0 .. Len(file)
    OBVIOUS
  <1>5. Len(file) \in S
    <2> HIDE DEF S
    <2>1. \A i \in 0 .. Len(file) : i \in S
      BY <1>2, <1>3, <1>4, InductionUpTo
    <2> QED
      BY <1>4, <2>1
  <1> QED
    BY <1>1, <1>4, <1>5 DEF IsFold

(* Whatever the history, snapshot of a file that can be read reports a     *)
(* position or an intent exactly when nothing after the event that opened  *)
(* it ended it, and risk recovery accepts the file exactly when no stamp   *)
(* is later than the last (ledger.py:57-88, safety.py:45-46).              *)
THEOREM SnapshotTellsHistory == Spec => []SnapshotMeansHistory
  <1>1. ASSUME TypeOK PROVE SnapshotMeansHistory
    <2> SUFFICES ASSUME Readable PROVE Means(Snapshot, Len(file))
      BY DEF SnapshotMeansHistory
    <2>1. file \in Seq(Events)
      <3>1. \A i \in 1 .. Len(file) : file[i] \in Events
        BY <1>1 DEF TypeOK, Readable
      <3>2. Len(file) \in Nat /\ file = [i \in 1 .. Len(file) |-> file[i]]
        BY <1>1 DEF TypeOK
      <3> QED
        BY <3>1, <3>2
    <2>2. Meant(Snapshot, Len(file)) /\ Snapshot \in Facts
      BY <2>1, SnapshotIsMeant
    <2>3. RiskRecoverable(Snapshot) <=>
            \A i \in 1 .. Len(file) : file[i].time <= file[Len(file)].time
      <3>1. \A i \in 1 .. Len(file) : file[i].time \in Nat
        <4>1. \A i \in 1 .. Len(file) : file[i] \in Events
          BY <2>1
        <4> QED
          BY <4>1, EventType
      <3>2. Snapshot.last \in Nat /\ Snapshot.latest \in Nat /\ Len(file) \in Nat
        BY <2>1, <2>2 DEF Facts
      <3>3. CASE Len(file) = 0
        <4>1. 1 .. Len(file) = {}
          BY <3>3
        <4>2. Snapshot.latest = 0
          BY <2>2, <4>1 DEF Meant
        <4> QED
          BY <3>2, <4>1, <4>2 DEF RiskRecoverable
      <3>4. CASE Len(file) > 0
        <4>1. Snapshot.last = file[Len(file)].time
          BY <2>2, <3>2, <3>4 DEF Meant
        <4>2. /\ \A i \in 1 .. Len(file) : file[i].time <= Snapshot.latest
              /\ \/ Snapshot.latest = 0
                 \/ \E i \in 1 .. Len(file) : Snapshot.latest = file[i].time
          BY <2>2 DEF Meant
        <4> QED
          BY <3>1, <3>2, <4>1, <4>2 DEF RiskRecoverable
      <3> QED
        BY <3>2, <3>3, <3>4
    <2> QED
      BY <2>2, <2>3 DEF Means, Meant
  <1> QED
    BY <1>1, FileTypeCorrect, PTL
=============================================================================
