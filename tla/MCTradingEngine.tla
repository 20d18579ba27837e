-------------------------- MODULE MCTradingEngine --------------------------
(* TLC instances of TradingEngine: prices 1 and 2 and thresholds of 50%, so *)
(* that one price move is a stop-loss for one side, a take-profit for the   *)
(* other, and no move is neither.                                           *)
EXTENDS TradingEngine, TLC

MCMids == {1, 2}
OneMid == {1}
NoFaults == {}
AllFaults == FaultKinds
AllModes == ModeKinds
SpotOrPaper == {"spot", "paper"}
SpotOnly == {"spot"}
OrderSymmetry == Permutations(OrderIds)
=============================================================================
