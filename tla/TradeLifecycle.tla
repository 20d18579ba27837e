--------------------------- MODULE TradeLifecycle ---------------------------
(***************************************************************************)
(* What the engine promises about the trades it tracks, without goroutines,*)
(* prices or requests: at most Limit of them at a time, each opened once,  *)
(* journaled by exactly one line, and only then released.  A shutdown may  *)
(* abandon an open trade, which then stays tracked and unjournaled.        *)
(***************************************************************************)
EXTENDS Naturals

CONSTANTS OrderIds, \* the trades there can be
          Limit     \* how many may be tracked at once

VARIABLES stage,    \* stage[o]: where trade o is in its life
          lines,    \* lines[o]: journal lines about trade o
          tracked   \* how many trades are tracked

Init == /\ stage = [o \in OrderIds |-> "new"]
        /\ lines = [o \in OrderIds |-> 0]
        /\ tracked = 0

Open(o) == /\ stage[o] = "new" /\ tracked < Limit
           /\ stage' = [stage EXCEPT ![o] = "open"]
           /\ tracked' = tracked + 1
           /\ UNCHANGED lines

Settle(o) == /\ stage[o] = "open"
             /\ stage' = [stage EXCEPT ![o] = "settled"]
             /\ lines' = [lines EXCEPT ![o] = @ + 1]
             /\ UNCHANGED tracked

Release(o) == /\ stage[o] = "settled"
              /\ stage' = [stage EXCEPT ![o] = "released"]
              /\ tracked' = tracked - 1
              /\ UNCHANGED lines

Abandon(o) == /\ stage[o] = "open"
              /\ stage' = [stage EXCEPT ![o] = "abandoned"]
              /\ UNCHANGED <<lines, tracked>>

Next == \E o \in OrderIds : Open(o) \/ Settle(o) \/ Release(o) \/ Abandon(o)

Spec == Init /\ [][Next]_<<stage, lines, tracked>>
=============================================================================
