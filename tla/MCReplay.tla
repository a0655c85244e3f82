------------------------------ MODULE MCReplay ------------------------------
(* Five ticks of one date or of two, and lists of two or three intents.    *)
EXTENDS Replay

MCSessionDate(t) == t \div 6
MCUtcDate(t) == (t + 3) \div 6  \* UTC midnight in the middle of a session

At(times) ==
  {[i \in DOMAIN times |-> [time |-> times[i], price |-> p[i]]] :
     p \in [DOMAIN times -> 1 .. 4]}

MCStreams == At(<<1, 2, 3, 4, 5>>) \cup At(<<1, 2, 7, 8, 9>>)
MCOneDate == At(<<1, 2, 3, 4, 5>>)

Intent(t, until, trigger, low, high) ==
  [time |-> t, expiry |-> until, trigger |-> trigger, stop |-> low,
   target |-> high]

MCIntentLists ==
  {<<Intent(0, 2, 2, 1, 3), Intent(2, 4, 2, 1, 3), Intent(4, 6, 2, 1, 3)>>,
   <<Intent(0, 3, 3, 1, 5), Intent(1, 5, 2, 1, 4)>>,  \* waiting together
   <<Intent(0, 3, 3, 2, 4), Intent(3, 4, 2, 1, 5), Intent(6, 10, 2, 1, 4)>>,
   <<Intent(6, 8, 2, 1, 4), Intent(8, 10, 2, 1, 4)>>,
   <<Intent(2, 8, 3, 2, 4), Intent(8, 10, 2, 1, 4)>>,  \* over the boundary
   <<Intent(4, 8, 2, 1, 4), Intent(8, 10, 2, 1, 4)>>}  \* after the last tick
=============================================================================
