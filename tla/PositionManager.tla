--------------------------- MODULE PositionManager ---------------------------
(***************************************************************************)
(* internal/position/manager.go: the open positions, one per market and    *)
(* side, under one lock.  Each operation is atomic; what its callers do    *)
(* between two of them is theirs to get right (MultiMarket).               *)
(***************************************************************************)
EXTENDS Integers, FiniteSets

CONSTANTS Markets, OrderIds,
          Limits,                      \* what maxPositions may be; 20 in NewMultiEngine
          StopLossPct, TakeProfitPct,  \* in percent of the entry price
          Mids,                        \* prices a market can have
          NoPosition

ASSUME PositionConstantsOK ==
    /\ Limits \subseteq Nat /\ IsFiniteSet(Markets)
    /\ StopLossPct \in 1..99 /\ TakeProfitPct \in 1..99
    /\ Mids \subseteq Nat \ {0} /\ NoPosition \notin OrderIds

VARIABLES positions,     \* positions[k]: the position of key k, or NoPosition
          maxPositions

manager == <<positions, maxPositions>>

Sides == {"buy", "sell"}
Keys == Markets \X Sides
Position == [order : OrderIds, entry : Mids, price : Mids \cup {0}]

ASSUME NoPositionOK == NoPosition \notin Position

OpenKeys == {k \in Keys : positions[k] # NoPosition}

PositionsTypeOK ==
    /\ positions \in [Keys -> Position \cup {NoPosition}]
    /\ maxPositions \in Limits /\ Cardinality(OpenKeys) <= maxPositions

PositionsInit == positions = [k \in Keys |-> NoPosition] /\ maxPositions \in Limits

CanOpen(k) == k \notin OpenKeys /\ Cardinality(OpenKeys) < maxPositions

\* A mutant that relies on what CanOpen has said about the limit.
OpenWithoutLimit(k, p) ==
    /\ positions' = IF k \notin OpenKeys THEN [positions EXCEPT ![k] = p] ELSE positions
    /\ UNCHANGED maxPositions

\* Refused, with an error, where CanOpen would say no.
Open(k, p) ==
    /\ positions' = IF CanOpen(k) THEN [positions EXCEPT ![k] = p] ELSE positions
    /\ UNCHANGED maxPositions

Close(k) ==
    /\ positions' = [positions EXCEPT ![k] = NoPosition]
    /\ UNCHANGED maxPositions

UpdatePrices(market, price) ==
    /\ positions' = [k \in Keys |->
           IF k \in OpenKeys /\ k[1] = market
           THEN [positions[k] EXCEPT !.price = price] ELSE positions[k]]
    /\ UNCHANGED maxPositions

\* The levels are set when the position is opened: below the entry for the
\* stop-loss of a buy, above for a sell, and the reverse for the take-profit.
ShouldStopLoss(k, p) ==
    /\ p.price # 0
    /\ IF k[2] = "buy" THEN 100 * p.price <= p.entry * (100 - StopLossPct)
                       ELSE 100 * p.price >= p.entry * (100 + StopLossPct)

ShouldTakeProfit(k, p) ==
    /\ p.price # 0
    /\ IF k[2] = "buy" THEN 100 * p.price >= p.entry * (100 + TakeProfitPct)
                       ELSE 100 * p.price <= p.entry * (100 - TakeProfitPct)

\* Copies of the positions that are to be closed.
Copy(k) == [key |-> k, order |-> positions[k].order]
StopLossesHit == {Copy(k) : k \in {j \in OpenKeys : ShouldStopLoss(j, positions[j])}}
TakeProfitsHit ==
    {Copy(k) : k \in {j \in OpenKeys : /\ ~ ShouldStopLoss(j, positions[j])
                                       /\ ShouldTakeProfit(j, positions[j])}}
==============================================================================
