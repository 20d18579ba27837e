---------------------------- MODULE MCMultiMarket ----------------------------
(* TLC instances of MultiMarket: two workers in two markets; prices 1 and 2  *)
(* and levels of 50%, so that a price move is an exit for one of the sides.  *)
EXTENDS MultiMarket, TLC

CONSTANTS w1, w2, btc, eth

TwoMarkets == w1 :> btc @@ w2 :> eth
MCMids == {1, 2}
NoFaults == {}
OrderSymmetry == Permutations(OrderIds)
==============================================================================
