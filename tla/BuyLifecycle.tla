---------------------------- MODULE BuyLifecycle ----------------------------
(***************************************************************************)
(* What the live runtime promises about every setup, restarts included:    *)
(* an intent is written before an order, one intent is outstanding at a    *)
(* time, an intent that was dropped is never bought, and only a bought     *)
(* setup is sold.  A bought setup is dropped only where MayOrphan allows   *)
(* it; an orphaned one is never sold, intended or bought again.            *)
(***************************************************************************)
CONSTANTS
  Setups,
  MayOrphan    \* an order can be accepted without the caller learning of it

VARIABLE phase

Phases == {"new", "intended", "dropped", "bought", "closed", "orphaned"}

TypeOK == phase \in [Setups -> Phases]

Init == phase = [s \in Setups |-> "new"]

Move(s, from, to) == phase[s] = from /\ phase' = [phase EXCEPT ![s] = to]

Intend(s) ==
  /\ \A other \in Setups : phase[other] # "intended"
  /\ Move(s, "new", "intended")

Drop(s)  == Move(s, "intended", "dropped")
Buy(s)   == Move(s, "intended", "bought")
Close(s) == Move(s, "bought", "closed")
Orphan(s) == MayOrphan /\ Move(s, "bought", "orphaned")

Next ==
  \E s \in Setups : Intend(s) \/ Drop(s) \/ Buy(s) \/ Close(s) \/ Orphan(s)

Spec == Init /\ [][Next]_phase
=============================================================================
