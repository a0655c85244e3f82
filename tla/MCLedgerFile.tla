---------------------------- MODULE MCLedgerFile ----------------------------
(***************************************************************************)
(* An instance of LedgerFile for TLC: every kind of event, two setups, and *)
(* timestamps that can run backwards.                                      *)
(***************************************************************************)
EXTENDS LedgerFile

CONSTANTS buy1, buy2, close1, close2     \* client order ids

MCDayOf == [t \in 1 .. 2 |-> t]

Event(kind, id, t) == [event |-> kind, id |-> id, time |-> t]

MCEvents ==
  {Event("BUY_INTENT", s, 1) : s \in {buy1, buy2}}
    \cup {Event("BUY_FILLED", buy1, 1), Event("BUY_FILLED", buy2, 2)}
    \cup {Event("LONG_CLOSE_INTENT", c, 2) : c \in {close1, close2}}
    \cup {Event("POSITION_CLOSED", close1, 2)}
    \cup {Event(k, None, 2) : k \in {"BUY_EXPIRED", "KILL_SWITCH_OFF"}}
    \cup {Event("KILL_SWITCH_ON", None, 1)}
    \cup {Event("SESSION_END", None, 1), Event("BUY_CANCELLED", None, 2)}
    \cup {Event("PAPER_BUY_ACK", buy1, 1), Event("REJECT", None, 2)}
=============================================================================
