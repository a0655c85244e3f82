--------------------------- MODULE CandleBuilder ---------------------------
(***************************************************************************)
(* M1CandleBuilder (candles.py): a tick of a later minute, or one outside  *)
(* the session, completes the minute that is open.  Only the times matter  *)
(* here; a candle is named by the start of its minute.                     *)
(***************************************************************************)
EXTENDS Integers

CONSTANTS
  None,
  Minute,          \* clock units of a minute
  Open,            \* from the start of a date to its session_start
  SessionLength,   \* from session_start to session_end
  DayLength        \* of a date

Close == Open + SessionLength

(* A session starts and ends on a whole minute, and well before midnight.  *)
ASSUME ClockAssumption ==
  /\ Minute \in Nat \ {0} /\ Open \in Nat /\ SessionLength \in Nat
  /\ DayLength \in Nat
  /\ Open % Minute = 0 /\ SessionLength % Minute = 0
  /\ Minute <= SessionLength /\ Close + Minute <= DayLength
  /\ None \notin Nat

VARIABLES
  minute,          \* _minute: start of the minute that is open, or None
  builderLast      \* _last_time: the last tick taken inside a session

builderVars == <<minute, builderLast>>

Date(t)      == t \div DayLength
InSession(t) == Open <= t % DayLength /\ t % DayLength < Close
MinuteOf(t)  == t - ((t % DayLength) % Minute)

(* The candle of the last minute of the session, 15:29.                    *)
IsFinal(c) == (c % DayLength) + Minute = Close

NewBuilder == minute' = None /\ builderLast' = None

Reordered(t) == builderLast # None /\ t < builderLast

(* The candle that add(tick) completes, or None.                           *)
CompletedBy(t) ==
  IF /\ minute # None
     /\ IF InSession(t) THEN ~Reordered(t) /\ MinuteOf(t) > minute
                        ELSE \/ Date(t) # Date(minute)
                             \/ t % DayLength >= Close
    THEN minute ELSE None

(* add(tick): an older tick of the session is dropped.                     *)
Add(t) ==
  \/ /\ ~InSession(t)
     /\ minute' = IF CompletedBy(t) = None THEN minute ELSE None
     /\ UNCHANGED builderLast
  \/ /\ InSession(t) /\ Reordered(t)
     /\ UNCHANGED builderVars
  \/ /\ InSession(t) /\ ~Reordered(t)
     /\ minute' = IF minute = None \/ CompletedBy(t) # None THEN MinuteOf(t)
                                                            ELSE minute
     /\ builderLast' = t
=============================================================================
