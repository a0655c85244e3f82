----------------------------- MODULE MCBacktest -----------------------------
(* Three sessions, the first of which only gives the second its levels.    *)
EXTENDS Backtest

MCPrices == 0 .. 5
MCInitial == [low |-> 1, high |-> 4]
=============================================================================
