------------------------------- MODULE Totals -------------------------------
(***************************************************************************)
(* The total of a sequence of integers, as the modules about accounts use  *)
(* it: the quantity an account holds, the profit of a list of trades.      *)
(***************************************************************************)
EXTENDS Integers, Sequences

Total(s) ==
  LET sum[i \in 0 .. Len(s)] == IF i = 0 THEN 0 ELSE sum[i - 1] + s[i]
  IN sum[Len(s)]
=============================================================================
