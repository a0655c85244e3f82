--------------------------- MODULE MCLiveRuntime ---------------------------
(***************************************************************************)
(* Instances of LiveRuntime for TLC: the values of the constants that a    *)
(* configuration file cannot write.                                        *)
(***************************************************************************)
EXTENDS LiveRuntimeClaims

CONSTANT DayLength     \* number of clock units in a trading date

MCDayOf == [t \in 0 .. MaxTime |-> t \div DayLength]
=============================================================================
