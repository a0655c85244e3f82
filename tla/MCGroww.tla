------------------------------- MODULE MCGroww ------------------------------
(* The client ids of one side are interchangeable.                         *)
EXTENDS Groww, TLC

Symmetry == Permutations(BuyIds) \cup Permutations(CloseIds)
=============================================================================
