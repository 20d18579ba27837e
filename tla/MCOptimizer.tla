---- MODULE MCOptimizer ----
(* A TLC instance of Optimizer: two parameters, one of two values and one fixed. *)
EXTENDS Optimizer

MCRanges == <<[name |-> "fast", from |-> 3, to |-> 6, step |-> 3],
              [name |-> "slow", from |-> 9, to |-> 9, step |-> 1]>>
============================
