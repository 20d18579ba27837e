-------------------------- MODULE MultiMarketProofs --------------------------
(***************************************************************************)
(* Proofs about MultiMarket: types and the limit on positions for any      *)
(* workers, and exits and orders for any number of markets with a worker   *)
(* each.                                                                   *)
(***************************************************************************)
EXTENDS MultiMarket, FiniteSetTheorems, TLAPS

USE DEF manager

WorkerStep(w) == Connect(w) \/ Tick(w) \/ Return(w) \/ InTick(w)
FillStep(o) == Fill(o) /\ UNCHANGED <<manager, pc, hand, shutdown, lost>>

-----------------------------------------------------------------------------
(* Finite sets of keys *)

LEMMA KeysFinite == IsFiniteSet(Keys)
<1>1. IsFiniteSet({"buy"}) /\ IsFiniteSet({"buy"} \cup {"sell"})
  BY FS_Singleton, FS_AddElement
<1>2. IsFiniteSet(Sides)
  BY <1>1 DEF Sides
<1> QED BY <1>2, PositionConstantsOK, FS_Product DEF Keys, PositionConstantsOK

LEMMA OpenKeysFinite == IsFiniteSet(OpenKeys) /\ Cardinality(OpenKeys) \in Nat
BY KeysFinite, FS_Subset, FS_CardinalityType DEF OpenKeys

\* A position that is opened is one more, one that is refused changes nothing.
LEMMA OpenBounded ==
    ASSUME PositionsTypeOK, NEW k \in Keys, NEW p \in Position, Open(k, p)
    PROVE  PositionsTypeOK'
<1> USE PositionConstantsOK, NoPositionOK DEF PositionConstantsOK, NoPositionOK
<1>1. positions' \in [Keys -> Position \cup {NoPosition}]
  BY DEF PositionsTypeOK, Open
<1>2. CASE CanOpen(k)
  <2>1. OpenKeys' = OpenKeys \cup {k}
    BY <1>2 DEF OpenKeys, Open, PositionsTypeOK
  <2>2. Cardinality(OpenKeys \cup {k}) = Cardinality(OpenKeys) + 1
    BY <1>2, OpenKeysFinite, FS_AddElement DEF CanOpen
  <2>3. Cardinality(OpenKeys) + 1 <= maxPositions
    BY <1>2, OpenKeysFinite DEF CanOpen, PositionsTypeOK
  <2> QED BY <1>1, <2>1, <2>2, <2>3 DEF PositionsTypeOK, Open
<1>3. CASE ~CanOpen(k)
  BY <1>1, <1>3 DEF Open, PositionsTypeOK, OpenKeys
<1> QED BY <1>2, <1>3

\* Where no more keys are open than before, the limit still holds.
LEMMA FewerBounded ==
    ASSUME PositionsTypeOK, positions' \in [Keys -> Position \cup {NoPosition}],
           OpenKeys' \subseteq OpenKeys, UNCHANGED maxPositions
    PROVE  PositionsTypeOK'
<1> USE PositionConstantsOK, NoPositionOK DEF PositionConstantsOK, NoPositionOK
<1>1. Cardinality(OpenKeys') <= Cardinality(OpenKeys) /\ Cardinality(OpenKeys') \in Nat
  BY OpenKeysFinite, FS_Subset, FS_CardinalityType
<1> QED BY <1>1, OpenKeysFinite DEF PositionsTypeOK

LEMMA CloseBounded ==
    ASSUME PositionsTypeOK, NEW k \in Keys, Close(k)
    PROVE  PositionsTypeOK'
<1> USE PositionConstantsOK, NoPositionOK DEF PositionConstantsOK, NoPositionOK
<1>1. /\ positions' \in [Keys -> Position \cup {NoPosition}]
      /\ OpenKeys' \subseteq OpenKeys /\ UNCHANGED maxPositions
  BY DEF PositionsTypeOK, Close, OpenKeys
<1> QED BY <1>1, FewerBounded

\* A price changes the price of a position and nothing else.
LEMMA UpdateKeeps ==
    ASSUME PositionsTypeOK, NEW market, NEW price \in Mids \cup {0}, UpdatePrices(market, price)
    PROVE  /\ PositionsTypeOK'
           /\ OpenKeys' = OpenKeys
           /\ \A k \in OpenKeys : /\ positions'[k] \in Position
                                  /\ positions'[k].order = positions[k].order
           /\ \A k \in Keys : k[1] # market => positions'[k] = positions[k]
<1> USE PositionConstantsOK, NoPositionOK DEF PositionConstantsOK, NoPositionOK
<1>1. \A k \in OpenKeys : positions[k] \in Position
  BY DEF OpenKeys, PositionsTypeOK
<1>2. \A k \in OpenKeys : positions'[k] \in Position /\ positions'[k].order = positions[k].order
  BY <1>1 DEF UpdatePrices, OpenKeys, Position
<1>3. \A k \in Keys \ OpenKeys : positions'[k] = NoPosition
  BY DEF UpdatePrices, OpenKeys
<1>4. positions' \in [Keys -> Position \cup {NoPosition}]
  BY <1>2, <1>3 DEF UpdatePrices
<1>5. OpenKeys' = OpenKeys
  BY <1>2, <1>3 DEF OpenKeys
<1>6. UNCHANGED maxPositions /\ \A k \in Keys : k[1] # market => positions'[k] = positions[k]
  BY DEF UpdatePrices
<1> QED BY <1>2, <1>4, <1>5, <1>6, FewerBounded

-----------------------------------------------------------------------------
(* Types *)

\* What the locals of a worker are worth at each of its points.
Locals(w) ==
    /\ pc[w] \notin {"closing", "cancel"} => triggered[w] = Nothing
    /\ pc[w] \in {"place", "open"} => book[w] # 0
    /\ IF pc[w] \in {"cancel", "open"} THEN order[w] \in OrderIds ELSE order[w] = NoPosition

TypeInv == TypeOK /\ \A w \in Workers : Locals(w)

LEMMA TypeInit == Init => TypeInv
<1> USE PositionConstantsOK, NoPositionOK DEF PositionConstantsOK, NoPositionOK
<1> SUFFICES ASSUME Init PROVE TypeInv
  OBVIOUS
<1>1. OpenKeys = {}
  BY DEF Init, PositionsInit, OpenKeys
<1>2. PositionsTypeOK
  BY <1>1, FS_EmptySet DEF Init, PositionsInit, PositionsTypeOK
<1>3. Nothing \in [sl : SUBSET Copies, tp : SUBSET Copies]
  BY DEF Nothing
<1> QED BY <1>2, <1>3 DEF Init, WorkersInit, ExchangeInit, TypeInv, TypeOK, ExchangeTypeOK,
    OrderState, PC, Sides, Locals

LEMMA HitsAreCopies ==
    ASSUME PositionsTypeOK
    PROVE  StopLossesHit \subseteq Copies /\ TakeProfitsHit \subseteq Copies
BY DEF StopLossesHit, TakeProfitsHit, Copy, Copies, OpenKeys, PositionsTypeOK, Position

LEMMA TypeFrame ==
    /\ PositionsTypeOK /\ UNCHANGED manager => PositionsTypeOK'
    /\ ExchangeTypeOK /\ UNCHANGED xchg => ExchangeTypeOK'
BY DEF PositionsTypeOK, OpenKeys, ExchangeTypeOK

Lost == {"no", "reply", "cancel", "full", "taken"}

LEMMA LoseTyped ==
    ASSUME lost \in [OrderIds -> Lost], NEW o, NEW how \in Lost, Lose(o, how)
    PROVE  lost' \in [OrderIds -> Lost]
BY DEF Lose

\* Where a worker goes that has closed the position of copy c, or not found it.
LEMMA CloseGoes ==
    ASSUME NEW w, NEW c,
           Goto(w, "closing", IF c.key \in OpenKeys THEN "cancel"
                              ELSE IF Without(w, c) # Nothing THEN "closing" ELSE "signals")
    PROVE  \/ c.key \in OpenKeys /\ pc' = [pc EXCEPT ![w] = "cancel"]
           \/ c.key \notin OpenKeys /\ pc' = [pc EXCEPT ![w] = "closing"]
           \/ /\ c.key \notin OpenKeys /\ pc' = [pc EXCEPT ![w] = "signals"]
              /\ Without(w, c) = Nothing
BY DEF Goto

LEMMA TypeWorker ==
    ASSUME TypeInv, NEW w \in Workers, WorkerStep(w)
    PROVE  TypeInv'
<1> USE TypeFrame DEF TypeInv, TypeOK, Locals, Goto, hand
<1>1. CASE Connect(w) \/ Tick(w) \/ Return(w)
  <2>1. CASE Connect(w)
    BY <2>1 DEF Connect, PC
  <2>2. CASE Tick(w)
    <3>1. PICK mid \in Mids \cup {0} :
             /\ book' = [book EXCEPT ![w] = mid]
             /\ Goto(w, "wait", IF mid = 0 THEN "signals" ELSE "prices")
      BY <2>2 DEF Tick
    <3>2. pc' = [pc EXCEPT ![w] = "signals"] \/ pc' = [pc EXCEPT ![w] = "prices"]
      BY <3>1
    <3> QED BY <2>2, <3>1, <3>2 DEF Tick, PC
  <2>3. CASE Return(w)
    BY <2>3 DEF Return, PC
  <2> QED BY <1>1, <2>1, <2>2, <2>3
<1>2. CASE PriceUpdate(w)
  <2>1. PositionsTypeOK'
    <3>1. book[w] \in Mids \cup {0} /\ UpdatePrices(MarketOf[w], book[w])
      BY <1>2 DEF PriceUpdate
    <3> QED BY <3>1, UpdateKeeps
  <2> QED BY <1>2, <2>1 DEF PriceUpdate, PC
<1>3. CASE FindExits(w)
  <2>1. OwnExits(w) \in [sl : SUBSET Copies, tp : SUBSET Copies]
    BY HitsAreCopies DEF OwnExits
  <2>2. \/ OwnExits(w) = Nothing /\ pc' = [pc EXCEPT ![w] = "signals"]
        \/ pc' = [pc EXCEPT ![w] = "closing"]
    BY <1>3 DEF FindExits
  <2> QED BY <1>3, <2>1, <2>2 DEF FindExits, PC
<1>4. CASE ClosePosition(w)
  <2>1. PICK c \in NextExits(w) :
           /\ Close(c.key)
           /\ Goto(w, "closing", IF c.key \in OpenKeys THEN "cancel"
                                 ELSE IF Without(w, c) # Nothing THEN "closing" ELSE "signals")
           /\ order' = [order EXCEPT ![w] = IF c.key \in OpenKeys THEN c.order ELSE @]
           /\ triggered' = [triggered EXCEPT ![w] = Without(w, c)]
           /\ UNCHANGED <<xchg, book, side, shutdown, lost>>
    BY <1>4 DEF ClosePosition
  <2>2. c \in Copies
    BY DEF NextExits
  <2>3. c.key \in Keys /\ c.order \in OrderIds
    BY <2>2 DEF Copies
  <2>4. PositionsTypeOK'
    BY <2>1, <2>3, CloseBounded
  <2>5. Without(w, c) \in [sl : SUBSET Copies, tp : SUBSET Copies]
    BY DEF Without
  <2>6. \/ c.key \in OpenKeys /\ pc' = [pc EXCEPT ![w] = "cancel"]
        \/ c.key \notin OpenKeys /\ pc' = [pc EXCEPT ![w] = "closing"]
        \/ /\ c.key \notin OpenKeys /\ pc' = [pc EXCEPT ![w] = "signals"]
           /\ Without(w, c) = Nothing
    BY <2>1, CloseGoes
  <2> QED BY <2>1, <2>3, <2>4, <2>5, <2>6 DEF PC
<1>5. CASE CancelOrder(w)
  <2>1. ExchangeTypeOK'
    BY <1>5 DEF CancelOrder, CancelSpotOrder, CancelArrives, ExchangeTypeOK, OrderState
  <2>2. UNCHANGED lost \/ Lose(order[w], "cancel")
    BY <1>5 DEF CancelOrder, CancelSpotOrder
  <2>3. lost' \in [OrderIds -> Lost]
    BY <2>2, LoseTyped DEF Lost
  <2>4. pc' = [pc EXCEPT ![w] = "signals"] \/ pc' = [pc EXCEPT ![w] = "closing"]
    BY <1>5 DEF CancelOrder
  <2> QED BY <1>5, <2>1, <2>3, <2>4 DEF CancelOrder, PC, Lost
<1>6. CASE NoEntry(w) \/ WantEntry(w) \/ PlaceRejected(w)
  <2>1. CASE NoEntry(w) \/ PlaceRejected(w)
    BY <2>1 DEF NoEntry, PlaceRejected, EndTick, PC, Sides
  <2>2. CASE WantEntry(w)
    BY <2>2 DEF WantEntry, PC
  <2> QED BY <1>6, <2>1, <2>2
<1>7. CASE PlaceAccepted(w) \/ PlaceReplyLost(w)
  <2>1. ExchangeTypeOK'
    BY <1>7 DEF PlaceAccepted, PlaceReplyLost, Accept, ExchangeTypeOK, OrderState
  <2>2. CASE PlaceAccepted(w)
    BY <2>1, <2>2 DEF PlaceAccepted, PC
  <2>3. CASE PlaceReplyLost(w)
    <3>1. lost' \in [OrderIds -> Lost]
      BY <2>3, LoseTyped DEF PlaceReplyLost, Lost
    <3> QED BY <2>1, <2>3, <3>1 DEF PlaceReplyLost, EndTick, PC, Sides, Lost
  <2> QED BY <1>7, <2>2, <2>3
<1>8. CASE Register(w)
  <2>1. [order |-> order[w], entry |-> book[w], price |-> 0] \in Position
    BY <1>8 DEF Register, EndTick, Position
  <2>2. PositionsTypeOK'
    BY <1>8, <2>1, OpenBounded, MultiConstantsOK DEF Register, Key, Keys, MultiConstantsOK
  <2>3. UNCHANGED lost \/ Lose(order[w], "taken") \/ Lose(order[w], "full")
    BY <1>8 DEF Register
  <2>4. lost' \in [OrderIds -> Lost]
    BY <2>3, LoseTyped DEF Lost
  <2> QED BY <1>8, <2>2, <2>4 DEF Register, EndTick, PC, Sides, Lost
<1> QED BY <1>1, <1>2, <1>3, <1>4, <1>5, <1>6, <1>7, <1>8 DEF WorkerStep, InTick

LEMMA TypeStep == TypeInv /\ [Next]_vars => TypeInv'
<1> SUFFICES ASSUME TypeInv, [Next]_vars PROVE TypeInv'
  OBVIOUS
<1> USE TypeFrame DEF TypeInv, TypeOK, Locals, hand
<1>1. CASE Shutdown \/ UNCHANGED vars
  BY <1>1 DEF Shutdown, vars
<1>2. ASSUME NEW o \in OrderIds, FillStep(o) PROVE TypeInv'
  <2>1. ExchangeTypeOK'
    BY <1>2 DEF FillStep, Fill, ExchangeTypeOK, OrderState
  <2> QED BY <1>2, <2>1 DEF FillStep
<1> QED BY <1>1, <1>2, TypeWorker DEF Next, WorkerStep, FillStep

\* Every variable keeps its type and the positions of all markets together stay within
\* the limit, for any workers, markets and faults (manager.go:60-79).
THEOREM TypeCorrect == Spec => []TypeOK
BY TypeInit, TypeStep, PTL DEF Spec, TypeInv

-----------------------------------------------------------------------------
(* A worker for each market *)

\* What the configuration file should list: no market twice.
OneWorkerEach == \A v, w \in Workers : MarketOf[v] = MarketOf[w] => v = w

Exits(w) == triggered[w].sl \cup triggered[w].tp

\* The copies a worker works through are still true: the positions are open, with the
\* same orders, beyond the level the copy was made for.
CopiesAreCurrent(w) ==
    /\ \A c \in Exits(w) : /\ c.key[1] = MarketOf[w] /\ c.key \in OpenKeys
                           /\ c.order = positions[c.key].order
    /\ \A c \in triggered[w].sl : ShouldStopLoss(c.key, positions[c.key])
    /\ \A c \in triggered[w].tp : /\ ~ ShouldStopLoss(c.key, positions[c.key])
                                  /\ ShouldTakeProfit(c.key, positions[c.key])

\* NoExitMissed for one worker.
Watched(w) ==
    \A k \in OpenKeys :
        /\ k[1] = MarketOf[w]
        /\ ShouldStopLoss(k, positions[k]) \/ ShouldTakeProfit(k, positions[k])
        => pc[w] = "exits" \/ Copy(k) \in Exits(w)

\* The slot a worker has found free is free until it registers.
SlotIsFree(w) == pc[w] \in {"place", "open"} => Key(w) \notin OpenKeys

Own(w) == CopiesAreCurrent(w) /\ Watched(w) /\ SlotIsFree(w)
OwnInv == TypeInv /\ \A w \in Workers : Own(w)

LEMMA OwnInit == Init => OwnInv
BY TypeInit DEF Init, OwnInv, Own, WorkersInit, PositionsInit, CopiesAreCurrent, Watched,
   SlotIsFree, Exits, Nothing, OpenKeys

\* The positions a worker touches are those of its market.
LEMMA MarketsApart ==
    ASSUME OwnInv, NEW w \in Workers, WorkerStep(w), NEW k \in Keys, k[1] # MarketOf[w]
    PROVE  positions'[k] = positions[k]
<1> USE DEF OwnInv, TypeInv, TypeOK
<1>1. CASE PriceUpdate(w)
  BY <1>1 DEF PriceUpdate, UpdatePrices
<1>2. CASE ClosePosition(w)
  <2>1. PICK c \in NextExits(w) : Close(c.key)
    BY <1>2 DEF ClosePosition
  <2>2. c.key[1] = MarketOf[w]
    BY DEF Own, CopiesAreCurrent, Exits, NextExits
  <2> QED BY <2>1, <2>2 DEF Close, PositionsTypeOK
<1>3. CASE Register(w)
  <2>1. k # Key(w)
    BY DEF Key
  <2> QED BY <1>3, <2>1 DEF Register, Open, PositionsTypeOK
<1>4. CASE ~ (PriceUpdate(w) \/ ClosePosition(w) \/ Register(w))
  BY <1>4 DEF WorkerStep, Connect, Tick, Return, InTick, FindExits, CancelOrder, NoEntry,
     WantEntry, PlaceAccepted, PlaceRejected, PlaceReplyLost
<1> QED BY <1>1, <1>2, <1>3, <1>4

\* A worker's step leaves the locals of the others alone.
LEMMA LocalsApart ==
    ASSUME TypeInv, NEW w \in Workers, WorkerStep(w), NEW v \in Workers, v # w
    PROVE  /\ pc'[v] = pc[v] /\ book'[v] = book[v] /\ triggered'[v] = triggered[v]
           /\ side'[v] = side[v] /\ order'[v] = order[v]
<1> USE DEF TypeInv, TypeOK, Goto, hand
<1>1. CASE Connect(w) \/ Tick(w) \/ Return(w)
  BY <1>1 DEF Connect, Tick, Return
<1>2. CASE PriceUpdate(w) \/ FindExits(w) \/ CancelOrder(w)
  BY <1>2 DEF PriceUpdate, FindExits, CancelOrder
<1>3. CASE ClosePosition(w)
  BY <1>3 DEF ClosePosition
<1>4. CASE NoEntry(w) \/ PlaceRejected(w) \/ PlaceReplyLost(w) \/ Register(w)
  BY <1>4 DEF NoEntry, PlaceRejected, PlaceReplyLost, Register, EndTick
<1>5. CASE WantEntry(w) \/ PlaceAccepted(w)
  BY <1>5 DEF WantEntry, PlaceAccepted
<1> QED BY <1>1, <1>2, <1>3, <1>4, <1>5 DEF WorkerStep, InTick

\* What a worker relies on depends on its locals and on the positions of its market.
LEMMA OwnFrame ==
    ASSUME TypeInv, NEW v \in Workers, Own(v),
           pc'[v] = pc[v], triggered'[v] = triggered[v], side'[v] = side[v],
           \A k \in Keys : k[1] = MarketOf[v] => positions'[k] = positions[k]
    PROVE  Own(v)'
<1>1. \A k \in Keys : k[1] = MarketOf[v] => (k \in OpenKeys <=> k \in OpenKeys')
  BY DEF OpenKeys
<1>2. triggered[v].sl \subseteq Copies /\ triggered[v].tp \subseteq Copies
  BY DEF TypeInv, TypeOK
<1>3. \A c \in Exits(v) : c.key \in Keys
  BY <1>2 DEF Exits, Copies
<1>4. CopiesAreCurrent(v)'
  BY <1>1, <1>3 DEF Own, CopiesAreCurrent, Exits
<1>5. Watched(v)'
  <2> SUFFICES ASSUME NEW k \in OpenKeys', k[1] = MarketOf[v],
                      (ShouldStopLoss(k, positions[k]) \/ ShouldTakeProfit(k, positions[k]))'
               PROVE  (pc[v] = "exits" \/ Copy(k) \in Exits(v))'
    BY DEF Watched
  <2>1. k \in Keys /\ k \in OpenKeys /\ positions'[k] = positions[k]
    BY <1>1 DEF OpenKeys
  <2> QED BY <2>1 DEF Own, Watched, Exits, Copy, ShouldStopLoss, ShouldTakeProfit
<1>6. SlotIsFree(v)'
  <2>1. Key(v) \in Keys /\ Key(v)[1] = MarketOf[v]
    BY MultiConstantsOK DEF TypeInv, TypeOK, Key, Keys, MultiConstantsOK
  <2> QED BY <1>1, <2>1 DEF Own, SlotIsFree, Key
<1> QED BY <1>4, <1>5, <1>6 DEF Own

\* FindExits copies all exits of the market, each as it is.
LEMMA FoundExits ==
    ASSUME TypeInv, NEW w \in Workers, FindExits(w)
    PROVE  Own(w)'
<1> USE DEF TypeInv, TypeOK, Goto
<1>1. /\ triggered'[w] = OwnExits(w) /\ UNCHANGED <<positions, side>>
      /\ pc'[w] # "place" /\ pc'[w] # "open"
  BY DEF FindExits
<1>2. Exits(w)' = {Copy(k) : k \in {j \in OpenKeys :
            /\ j[1] = MarketOf[w]
            /\ ShouldStopLoss(j, positions[j]) \/ ShouldTakeProfit(j, positions[j])}}
  BY <1>1 DEF Exits, OwnExits, StopLossesHit, TakeProfitsHit, Copy
<1>3. OpenKeys' = OpenKeys
  BY <1>1 DEF OpenKeys
<1>4. CopiesAreCurrent(w)'
  BY <1>1, <1>2, <1>3 DEF CopiesAreCurrent, OwnExits, StopLossesHit, TakeProfitsHit, Copy,
     ShouldStopLoss, ShouldTakeProfit
<1>5. Watched(w)'
  BY <1>1, <1>2, <1>3 DEF Watched, Copy, ShouldStopLoss, ShouldTakeProfit
<1>6. SlotIsFree(w)'
  BY <1>1 DEF SlotIsFree
<1> QED BY <1>4, <1>5, <1>6 DEF Own

\* Closing one position leaves the others open, and their copies in the list.
LEMMA ClosedExit ==
    ASSUME TypeInv, NEW w \in Workers, Own(w), ClosePosition(w)
    PROVE  /\ Own(w)'
           /\ pc'[w] = "cancel"
           /\ \E k \in OpenKeys :
                /\ positions' = [positions EXCEPT ![k] = NoPosition]
                /\ k[1] = MarketOf[w]
                /\ order' = [order EXCEPT ![w] = positions[k].order]
                /\ ShouldStopLoss(k, positions[k]) \/ ShouldTakeProfit(k, positions[k])
<1> USE DEF TypeInv, TypeOK, Own
<1>1. PICK c \in NextExits(w) :
         /\ Close(c.key)
         /\ Goto(w, "closing", IF c.key \in OpenKeys THEN "cancel"
                               ELSE IF Without(w, c) # Nothing THEN "closing" ELSE "signals")
         /\ order' = [order EXCEPT ![w] = IF c.key \in OpenKeys THEN c.order ELSE @]
         /\ triggered' = [triggered EXCEPT ![w] = Without(w, c)]
         /\ UNCHANGED <<xchg, book, side, shutdown, lost>>
  BY DEF ClosePosition
<1>2. c \in Exits(w) /\ c \in Copies
  BY DEF NextExits, Exits
<1>3. /\ c.key \in OpenKeys /\ c.key[1] = MarketOf[w] /\ c.order = positions[c.key].order
      /\ ShouldStopLoss(c.key, positions[c.key]) \/ ShouldTakeProfit(c.key, positions[c.key])
  BY <1>2 DEF CopiesAreCurrent, Exits
<1>4. /\ pc[w] = "closing" /\ pc'[w] = "cancel" /\ triggered'[w] = Without(w, c)
      /\ positions' = [positions EXCEPT ![c.key] = NoPosition]
      /\ order' = [order EXCEPT ![w] = positions[c.key].order]
  BY <1>1, <1>3 DEF Goto, Close
<1>5. \A k \in Keys : k # c.key => positions'[k] = positions[k]
  BY <1>4 DEF PositionsTypeOK
<1>6. OpenKeys' = OpenKeys \ {c.key}
  BY <1>3, <1>4 DEF OpenKeys, PositionsTypeOK
<1>7. \A d \in Exits(w) : d.key = c.key => d = c
  BY <1>2, <1>3 DEF CopiesAreCurrent, Exits, Copies
<1>8. /\ triggered'[w].sl = triggered[w].sl \ {c} /\ triggered'[w].tp = triggered[w].tp \ {c}
      /\ Exits(w)' = Exits(w) \ {c}
  BY <1>4 DEF Without, Exits
<1>9. \A d \in Exits(w)' : d.key # c.key /\ d.key \in Keys
  BY <1>7, <1>8 DEF Exits, Copies
<1>10. CopiesAreCurrent(w)'
  BY <1>5, <1>6, <1>8, <1>9 DEF CopiesAreCurrent, Exits
<1>11. Watched(w)'
  <2> SUFFICES ASSUME NEW k \in OpenKeys', k[1] = MarketOf[w],
                      (ShouldStopLoss(k, positions[k]) \/ ShouldTakeProfit(k, positions[k]))'
               PROVE  (Copy(k) \in Exits(w))'
    BY DEF Watched
  <2>1. k \in OpenKeys /\ k # c.key /\ positions'[k] = positions[k]
    BY <1>5, <1>6 DEF OpenKeys
  <2>2. Copy(k) \in Exits(w) /\ Copy(k) # c
    BY <1>4, <2>1 DEF Watched, Copy, ShouldStopLoss, ShouldTakeProfit
  <2> QED BY <1>8, <2>1, <2>2 DEF Copy
<1>12. SlotIsFree(w)'
  BY <1>4 DEF SlotIsFree
<1> QED BY <1>3, <1>4, <1>10, <1>11, <1>12

\* A new position has no price yet, and so no exit.
LEMMA RegisterQuiet ==
    ASSUME TypeInv, NEW w \in Workers, Own(w), Register(w)
    PROVE  Own(w)'
<1> USE DEF TypeInv, TypeOK, Own
<1>1. Key(w) \in Keys
  BY MultiConstantsOK DEF Key, Keys, MultiConstantsOK
<1>2. /\ pc[w] = "open" /\ pc'[w] = "wait" /\ triggered'[w] = triggered[w]
      /\ Open(Key(w), [order |-> order[w], entry |-> book[w], price |-> 0])
  BY DEF Register, EndTick, Goto
<1>3. Exits(w) = {} /\ triggered[w] = Nothing /\ Exits(w)' = {}
  BY <1>2 DEF Locals, Exits, Nothing
<1>4. \A k \in OpenKeys' : \/ k \in OpenKeys /\ positions'[k] = positions[k]
                           \/ positions'[k] = [order |-> order[w], entry |-> book[w], price |-> 0]
  BY <1>1, <1>2 DEF Open, OpenKeys, PositionsTypeOK
<1>5. CopiesAreCurrent(w)'
  BY <1>2, <1>3 DEF CopiesAreCurrent, Exits, Nothing
<1>6. Watched(w)'
  <2> SUFFICES ASSUME NEW k \in OpenKeys', k[1] = MarketOf[w],
                      (ShouldStopLoss(k, positions[k]) \/ ShouldTakeProfit(k, positions[k]))'
               PROVE  FALSE
    BY DEF Watched
  <2>1. positions'[k].price # 0
    BY DEF ShouldStopLoss, ShouldTakeProfit
  <2>2. k \in OpenKeys /\ positions'[k] = positions[k]
    BY <1>4, <2>1
  <2> QED BY <1>2, <1>3, <2>2 DEF Watched, ShouldStopLoss, ShouldTakeProfit
<1>7. SlotIsFree(w)'
  BY <1>2 DEF SlotIsFree
<1> QED BY <1>5, <1>6, <1>7

LEMMA OwnWorker ==
    ASSUME OwnInv, NEW w \in Workers, WorkerStep(w)
    PROVE  Own(w)'
<1> USE DEF OwnInv
<1>1. CASE FindExits(w) \/ ClosePosition(w) \/ Register(w)
  BY <1>1, FoundExits, ClosedExit, RegisterQuiet
<1> USE DEF TypeInv, TypeOK, Goto, hand
<1>2. CASE PriceUpdate(w)
  <2>1. /\ pc'[w] = "exits" /\ UNCHANGED triggered /\ triggered[w] = Nothing
    BY <1>2 DEF PriceUpdate, Locals
  <2> QED BY <2>1 DEF Own, CopiesAreCurrent, Watched, SlotIsFree, Exits, Nothing
<1>3. CASE WantEntry(w)
  <2>1. PICK s \in Sides : /\ CanOpen(<<MarketOf[w], s>>)
                           /\ side' = [side EXCEPT ![w] = s]
    BY <1>3 DEF WantEntry
  <2>2. /\ pc[w] = "signals" /\ UNCHANGED <<positions, triggered>> /\ OpenKeys' = OpenKeys
    BY <1>3 DEF WantEntry, OpenKeys
  <2>3. CopiesAreCurrent(w)' /\ Watched(w)'
    BY <2>2 DEF Own, CopiesAreCurrent, Watched, Exits, Copy, ShouldStopLoss, ShouldTakeProfit
  <2>4. Key(w)' \notin OpenKeys'
    BY <2>1, <2>2 DEF Key, CanOpen
  <2> QED BY <2>3, <2>4 DEF Own, SlotIsFree
<1>4. CASE PlaceAccepted(w)
  <2>1. /\ pc[w] = "place" /\ UNCHANGED <<positions, triggered, side>> /\ OpenKeys' = OpenKeys
    BY <1>4 DEF PlaceAccepted, OpenKeys
  <2> QED BY <2>1 DEF Own, CopiesAreCurrent, Watched, SlotIsFree, Key, Exits, Copy,
      ShouldStopLoss, ShouldTakeProfit
<1>5. CASE \/ Connect(w) \/ Tick(w) \/ Return(w) \/ CancelOrder(w)
           \/ NoEntry(w) \/ PlaceRejected(w) \/ PlaceReplyLost(w)
  <2>1. /\ pc[w] # "exits" /\ pc'[w] \notin {"place", "open"}
        /\ UNCHANGED <<positions, triggered>>
    BY <1>5 DEF Connect, Tick, Return, CancelOrder, NoEntry, PlaceRejected, PlaceReplyLost, EndTick
  <2>2. OpenKeys' = OpenKeys
    BY <2>1 DEF OpenKeys
  <2> QED BY <2>1, <2>2 DEF Own, CopiesAreCurrent, Watched, SlotIsFree, Exits, Copy,
      ShouldStopLoss, ShouldTakeProfit
<1> QED BY <1>1, <1>2, <1>3, <1>4, <1>5 DEF WorkerStep, InTick

LEMMA OwnStep ==
    ASSUME OneWorkerEach, OwnInv, [Next]_vars
    PROVE  OwnInv'
<1> USE DEF OwnInv
<1>1. TypeInv'
  BY TypeStep
<1>2. ASSUME NEW w \in Workers, WorkerStep(w), NEW v \in Workers PROVE Own(v)'
  <2>1. CASE v = w
    BY <1>2, <2>1, OwnWorker
  <2>2. CASE v # w
    <3>1. MarketOf[v] # MarketOf[w]
      BY <2>2 DEF OneWorkerEach
    <3>2. \A k \in Keys : k[1] = MarketOf[v] => positions'[k] = positions[k]
      BY <1>2, <3>1, MarketsApart
    <3>3. pc'[v] = pc[v] /\ triggered'[v] = triggered[v] /\ side'[v] = side[v]
      BY <1>2, <2>2, LocalsApart
    <3> QED BY <3>2, <3>3, OwnFrame
  <2> QED BY <2>1, <2>2
<1>3. ASSUME UNCHANGED <<positions, pc, hand>>, NEW v \in Workers PROVE Own(v)'
  BY <1>3, OwnFrame DEF hand
<1>4. Shutdown \/ UNCHANGED vars \/ (\E o \in OrderIds : FillStep(o))
      => UNCHANGED <<positions, pc, hand>>
  BY DEF Shutdown, vars, hand, FillStep
<1> QED BY <1>1, <1>2, <1>3, <1>4 DEF Next, WorkerStep, FillStep

LEMMA OwnAlways == ASSUME OneWorkerEach PROVE Spec => []OwnInv
<1>1. OwnInv /\ [Next]_vars => OwnInv'
  BY OwnStep
<1> QED BY <1>1, OwnInit, PTL DEF Spec

\* No tick ends with an exit it has not acted on (engine.go:174-187, 320-329), whatever the other
\* markets' workers do, for any number of markets with a worker each.
THEOREM ExitsAreSeen == ASSUME OneWorkerEach PROVE Spec => []NoExitMissed
<1>1. OwnInv => NoExitMissed
  BY DEF OwnInv, Own, Watched, NoExitMissed, Exits, Copy
<1> QED BY <1>1, OwnAlways, PTL

-----------------------------------------------------------------------------
(* What is closed, and what rests on the exchange *)

LEMMA HitLevels ==
    ASSUME NEW k \in Keys, NEW p \in Position
    PROVE  /\ ShouldStopLoss(k, p) =>
                \/ 100 * (p.entry - p.price) >= p.entry * StopLossPct /\ k[2] = "buy"
                \/ 100 * (p.price - p.entry) >= p.entry * StopLossPct /\ k[2] # "buy"
           /\ ShouldTakeProfit(k, p) =>
                \/ 100 * (p.price - p.entry) >= p.entry * TakeProfitPct /\ k[2] = "buy"
                \/ 100 * (p.entry - p.price) >= p.entry * TakeProfitPct /\ k[2] # "buy"
<1>1. p.entry \in Mids /\ p.price \in Mids \cup {0}
  BY DEF Position
<1>2. StopLossPct \in Int /\ TakeProfitPct \in Int /\ \A m \in Mids \cup {0} : m \in Int
  BY PositionConstantsOK DEF PositionConstantsOK
<1>3. p.entry \in Int /\ p.price \in Int
  BY <1>1, <1>2, Zenon
<1> QED BY <1>2, <1>3 DEF ShouldStopLoss, ShouldTakeProfit

\* A position disappears only where a worker closes it.
LEMMA OnlyClosed ==
    ASSUME OwnInv, NEW w \in Workers, WorkerStep(w), ~ ClosePosition(w), NEW k \in OpenKeys
    PROVE  positions'[k] # NoPosition /\ positions'[k].order = positions[k].order
<1> USE DEF OwnInv, TypeInv, TypeOK
<1>1. CASE PriceUpdate(w)
  <2>1. book[w] \in Mids \cup {0} /\ UpdatePrices(MarketOf[w], book[w])
    BY <1>1 DEF PriceUpdate
  <2> QED BY <2>1, UpdateKeeps, NoPositionOK DEF NoPositionOK
<1>2. CASE Register(w)
  <2>1. positions'[k] = positions[k]
    BY <1>2 DEF Register, Open, CanOpen, OpenKeys, PositionsTypeOK
  <2> QED BY <2>1 DEF OpenKeys
<1>3. CASE ~ (PriceUpdate(w) \/ Register(w))
  <2>1. positions' = positions
    BY <1>3 DEF WorkerStep, Connect, Tick, Return, InTick, FindExits, CancelOrder, NoEntry,
       WantEntry, PlaceAccepted, PlaceRejected, PlaceReplyLost
  <2> QED BY <2>1 DEF OpenKeys
<1> QED BY <1>1, <1>2, <1>3

\* The worker of a market closes a position only at one of its levels, and cancels the
\* order of that position, although it decided on a copy (engine.go:174-187, 320-329).
THEOREM ClosedAtALevel == ASSUME OneWorkerEach PROVE Spec => ClosesWhatHasTriggered
<1> DEFINE Closed(k) ==
       /\ \A w \in Workers : pc[w] = "closing" /\ pc'[w] = "cancel"
              => order'[w] = positions[k].order
       /\ \/ 100 * (positions[k].entry - positions[k].price)
                >= positions[k].entry * (IF k[2] = "buy" THEN StopLossPct ELSE TakeProfitPct)
          \/ 100 * (positions[k].price - positions[k].entry)
                >= positions[k].entry * (IF k[2] = "buy" THEN TakeProfitPct ELSE StopLossPct)
<1>1. ASSUME OwnInv, Next, NEW k \in OpenKeys, positions'[k] = NoPosition PROVE Closed(k)
  <2>1. k \in Keys /\ positions[k] \in Position /\ positions' # positions
    BY <1>1 DEF OpenKeys, OwnInv, TypeInv, TypeOK, PositionsTypeOK
  <2>2. PICK w \in Workers : WorkerStep(w)
    BY <1>1, <2>1 DEF Next, Shutdown, WorkerStep
  <2>3. ClosePosition(w)
    BY <1>1, <2>2, OnlyClosed
  <2>4. PICK j \in OpenKeys :
           /\ positions' = [positions EXCEPT ![j] = NoPosition]
           /\ order' = [order EXCEPT ![w] = positions[j].order]
           /\ ShouldStopLoss(j, positions[j]) \/ ShouldTakeProfit(j, positions[j])
    BY <1>1, <2>3, ClosedExit DEF OwnInv
  <2>5. j = k
    BY <1>1, <2>1, <2>4 DEF OpenKeys, OwnInv, TypeInv, TypeOK, PositionsTypeOK
  <2>6. \A v \in Workers : v # w => pc'[v] = pc[v]
    BY <1>1, <2>2, LocalsApart DEF OwnInv
  <2>7. order'[w] = positions[k].order
    BY <1>1, <2>4, <2>5 DEF OwnInv, TypeInv, TypeOK
  <2> QED BY <2>1, <2>4, <2>5, <2>6, <2>7, HitLevels
<1>2. OwnInv /\ [Next]_vars => [\A k \in OpenKeys : positions'[k] = NoPosition => Closed(k)]_vars
  BY <1>1
<1> QED BY <1>2, OwnAlways, PTL DEF Spec, ClosesWhatHasTriggered

Tracked(o) == \/ \E k \in OpenKeys : positions[k].order = o
              \/ \E w \in Workers : order[w] = o

Excused(o) == lost[o] \in {"reply", "cancel", "full"}

\* A step of w that closes nothing leaves an order that w does not have where it is.
LEMMA TrackedByOthers ==
    ASSUME OwnInv, NEW w \in Workers, WorkerStep(w), ~ ClosePosition(w),
           NEW o \in OrderIds, Tracked(o) \/ Excused(o), order[w] # o,
           lost'[o] = lost[o] \/ Excused(o)'
    PROVE  Tracked(o)' \/ Excused(o)'
<1>1. ASSUME NEW k \in OpenKeys, positions[k].order = o PROVE Tracked(o)'
  BY <1>1, OnlyClosed DEF Tracked, OpenKeys
<1>2. ASSUME NEW v \in Workers, order[v] = o PROVE Tracked(o)'
  BY <1>2, LocalsApart DEF Tracked, OwnInv
<1>3. Excused(o) => Excused(o)'
  BY DEF Excused
<1> QED BY <1>1, <1>2, <1>3 DEF Tracked

\* The position of a closed order passes into the hands of the worker ...
LEMMA ClosedIsTracked ==
    ASSUME OwnInv, EveryOrderTracked, NEW w \in Workers, ClosePosition(w), NEW o \in Resting'
    PROVE  Tracked(o)' \/ Excused(o)'
<1> USE DEF OwnInv, TypeInv, TypeOK
<1>1. o \in OrderIds /\ o \in Resting /\ pc[w] = "closing" /\ UNCHANGED lost
  BY DEF ClosePosition, Resting, Goto
<1>2. order[w] = NoPosition /\ order[w] # o
  BY <1>1, PositionConstantsOK DEF Locals, PositionConstantsOK
<1>3. PICK j \in OpenKeys :
         /\ positions' = [positions EXCEPT ![j] = NoPosition]
         /\ order' = [order EXCEPT ![w] = positions[j].order]
  BY ClosedExit
<1>4. ASSUME NEW v \in Workers, order[v] = o PROVE Tracked(o)'
  <2>1. order'[v] = o
    BY <1>2, <1>3, <1>4
  <2> QED BY <2>1 DEF Tracked
<1>5. ASSUME NEW k \in OpenKeys, positions[k].order = o PROVE Tracked(o)'
  <2>1. CASE k = j
    BY <1>3, <1>5, <2>1 DEF Tracked
  <2>2. CASE k # j
    <3>1. k \in Keys /\ positions'[k] = positions[k] /\ positions[k] # NoPosition
      BY <1>3, <2>2 DEF OpenKeys, PositionsTypeOK
    <3>2. k \in OpenKeys'
      BY <3>1 DEF OpenKeys
    <3> QED BY <1>5, <3>1, <3>2 DEF Tracked
  <2> QED BY <2>1, <2>2
<1>6. Excused(o) => Excused(o)'
  BY <1>1 DEF Excused
<1> QED BY <1>1, <1>4, <1>5, <1>6 DEF EveryOrderTracked, Tracked, Excused

\* ... and from those of the worker into a position, unless there is no room for one.
LEMMA RegisteredIsTracked ==
    ASSUME OwnInv, EveryOrderTracked, NEW w \in Workers, Register(w), NEW o \in Resting'
    PROVE  Tracked(o)' \/ Excused(o)'
<1> USE DEF OwnInv, TypeInv, TypeOK
<1>1. /\ o \in OrderIds /\ o \in Resting /\ ~ ClosePosition(w) /\ WorkerStep(w)
      /\ pc[w] = "open" /\ order[w] \in OrderIds /\ book[w] \in Mids
  BY DEF Register, EndTick, Goto, Resting, ClosePosition, Locals, WorkerStep, InTick
<1>2. Key(w) \in Keys /\ Key(w) \notin OpenKeys
  BY <1>1, MultiConstantsOK DEF Key, Keys, MultiConstantsOK, Own, SlotIsFree
<1>3. Tracked(o) \/ Excused(o)
  BY <1>1 DEF EveryOrderTracked, Tracked, Excused
<1>4. CASE CanOpen(Key(w))
  <2>1. positions'[Key(w)] = [order |-> order[w], entry |-> book[w], price |-> 0]
    BY <1>2, <1>4 DEF Register, Open, PositionsTypeOK
  <2>2. positions'[Key(w)] \in Position
    BY <1>1, <2>1 DEF Position
  <2>3. Key(w) \in OpenKeys' /\ positions'[Key(w)].order = order[w]
    BY <1>2, <2>1, <2>2, NoPositionOK DEF OpenKeys, NoPositionOK
  <2>4. CASE order[w] = o
    <3>1. PICK k \in OpenKeys' : positions'[k].order = o
      BY <2>3, <2>4
    <3> QED BY <3>1 DEF Tracked
  <2>5. CASE order[w] # o
    <3>1. UNCHANGED lost
      BY <1>4 DEF Register
    <3> QED BY <1>1, <1>3, <2>5, <3>1, TrackedByOthers
  <2> QED BY <2>4, <2>5
<1>5. CASE ~ CanOpen(Key(w))
  <2>1. lost' = [lost EXCEPT ![order[w]] = "full"]
    BY <1>2, <1>5 DEF Register, Lose
  <2>2. CASE order[w] = o
    BY <1>1, <2>1, <2>2 DEF Excused
  <2>3. CASE order[w] # o
    BY <1>1, <1>3, <2>1, <2>3, TrackedByOthers
  <2> QED BY <2>2, <2>3
<1> QED BY <1>4, <1>5

\* A request to cancel arrives, or the order is lost sight of.
LEMMA CancelledIsTracked ==
    ASSUME OwnInv, EveryOrderTracked, NEW w \in Workers, CancelOrder(w), NEW o \in Resting'
    PROVE  Tracked(o)' \/ Excused(o)'
<1> USE DEF OwnInv, TypeInv, TypeOK
<1>1. /\ o \in OrderIds /\ ~ ClosePosition(w) /\ WorkerStep(w)
      /\ pc[w] = "cancel" /\ order[w] \in OrderIds
  BY DEF CancelOrder, Goto, Resting, ClosePosition, Locals, WorkerStep, InTick
<1>2. \/ CancelArrives(order[w]) /\ UNCHANGED lost
      \/ lost' = [lost EXCEPT ![order[w]] = "cancel"] /\ UNCHANGED xchg
  BY DEF CancelOrder, CancelSpotOrder, Lose
<1>3. o \in Resting
  BY <1>1, <1>2 DEF CancelArrives, Resting, ExchangeTypeOK
<1>4. Tracked(o) \/ Excused(o)
  BY <1>3 DEF EveryOrderTracked, Tracked, Excused
<1>5. CASE order[w] # o
  <2>1. lost'[o] = lost[o]
    BY <1>1, <1>2, <1>5
  <2> QED BY <1>1, <1>4, <1>5, <2>1, TrackedByOthers
<1>6. CASE order[w] = o
  <2>1. ~ (CancelArrives(order[w]) /\ UNCHANGED lost)
    BY <1>1, <1>6 DEF CancelArrives, Resting, ExchangeTypeOK
  <2> QED BY <1>1, <1>2, <1>6, <2>1 DEF Excused
<1> QED BY <1>5, <1>6

\* A new order is in the worker's hands, or the reply is lost.
LEMMA PlacedIsTracked ==
    ASSUME OwnInv, EveryOrderTracked, NEW w \in Workers,
           PlaceAccepted(w) \/ PlaceReplyLost(w), NEW o \in Resting'
    PROVE  Tracked(o)' \/ Excused(o)'
<1> USE DEF OwnInv, TypeInv, TypeOK
<1>1. /\ o \in OrderIds /\ ~ ClosePosition(w) /\ WorkerStep(w)
      /\ pc[w] = "place" /\ order[w] # o
  BY PositionConstantsOK DEF PlaceAccepted, PlaceReplyLost, EndTick, Goto, Resting,
     ClosePosition, Locals, WorkerStep, InTick, PositionConstantsOK
<1>2. PICK p \in OrderIds :
         /\ Accept(p)
         /\ \/ order' = [order EXCEPT ![w] = p] /\ UNCHANGED lost
            \/ lost' = [lost EXCEPT ![p] = "reply"]
  BY DEF PlaceAccepted, PlaceReplyLost, Lose
<1>3. CASE o = p
  <2>1. order' = [order EXCEPT ![w] = p] => order'[w] = o
    BY <1>3
  <2> QED BY <1>2, <1>3, <2>1 DEF Tracked, Excused
<1>4. CASE o # p
  <2>1. o \in Resting /\ lost'[o] = lost[o]
    BY <1>1, <1>2, <1>4 DEF Accept, Resting, ExchangeTypeOK
  <2>2. Tracked(o) \/ Excused(o)
    BY <2>1 DEF EveryOrderTracked, Tracked, Excused
  <2> QED BY <1>1, <2>1, <2>2, TrackedByOthers
<1> QED BY <1>3, <1>4

LEMMA TrackedWorker ==
    ASSUME OwnInv, EveryOrderTracked, NEW w \in Workers, WorkerStep(w), NEW o \in Resting'
    PROVE  Tracked(o)' \/ Excused(o)'
<1> USE DEF OwnInv, TypeInv, TypeOK
<1>1. CASE \/ ClosePosition(w) \/ Register(w) \/ CancelOrder(w)
           \/ PlaceAccepted(w) \/ PlaceReplyLost(w)
  BY <1>1, ClosedIsTracked, RegisteredIsTracked, CancelledIsTracked, PlacedIsTracked
<1>2. CASE \/ Connect(w) \/ Tick(w) \/ Return(w) \/ PriceUpdate(w) \/ FindExits(w)
           \/ NoEntry(w) \/ WantEntry(w) \/ PlaceRejected(w)
  <2>1. /\ o \in Resting /\ o \in OrderIds /\ UNCHANGED lost
        /\ pc[w] \notin {"cancel", "open", "closing"}
    BY <1>2 DEF Connect, Tick, Return, PriceUpdate, FindExits, NoEntry, WantEntry, PlaceRejected,
       EndTick, Goto, Resting
  <2>2. order[w] # o /\ ~ ClosePosition(w)
    BY <2>1, PositionConstantsOK DEF Locals, ClosePosition, Goto, PositionConstantsOK
  <2>3. Tracked(o) \/ Excused(o)
    BY <2>1 DEF EveryOrderTracked, Tracked, Excused
  <2> QED BY <2>1, <2>2, <2>3, TrackedByOthers
<1> QED BY <1>1, <1>2 DEF WorkerStep, InTick

LEMMA TrackedStep ==
    ASSUME OwnInv, EveryOrderTracked, [Next]_vars
    PROVE  EveryOrderTracked'
<1> SUFFICES ASSUME NEW o \in Resting' PROVE Tracked(o)' \/ Excused(o)'
  BY DEF EveryOrderTracked, Tracked, Excused
<1>1. ASSUME NEW w \in Workers, WorkerStep(w) PROVE Tracked(o)' \/ Excused(o)'
  BY <1>1, TrackedWorker
<1>2. ASSUME UNCHANGED <<positions, order, lost>>, o \in Resting PROVE Tracked(o)' \/ Excused(o)'
  <2>1. Tracked(o) \/ Excused(o)
    BY <1>2 DEF EveryOrderTracked, Tracked, Excused
  <2> QED BY <1>2, <2>1 DEF Tracked, Excused, OpenKeys
<1>3. CASE Shutdown \/ UNCHANGED vars
  BY <1>2, <1>3 DEF Shutdown, vars, hand, Resting
<1>4. ASSUME NEW p \in OrderIds, FillStep(p) PROVE Tracked(o)' \/ Excused(o)'
  <2>1. UNCHANGED <<positions, order, lost>> /\ o \in Resting
    BY <1>4 DEF FillStep, Fill, hand, Resting, OwnInv, TypeInv, TypeOK, ExchangeTypeOK
  <2> QED BY <1>2, <2>1
<1> QED BY <1>1, <1>3, <1>4 DEF Next, WorkerStep, FillStep

\* "Register with position manager" (engine.go:299): every order that rests on the exchange is
\* a position's or in a worker's hands, or was lost sight of by a reply or a cancel request that
\* did not arrive or because the other markets took the last positions, whatever fails, for any limit and any
\* number of markets with a worker each.
THEOREM OrdersAreTracked == ASSUME OneWorkerEach PROVE Spec => []EveryOrderTracked
<1>1. Init => EveryOrderTracked
  BY DEF Init, ExchangeInit, EveryOrderTracked, Resting
<1>2. OwnInv /\ EveryOrderTracked /\ [Next]_vars => EveryOrderTracked'
  BY TrackedStep
<1> QED BY <1>1, <1>2, OwnAlways, PTL DEF Spec
==============================================================================
