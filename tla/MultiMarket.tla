----------------------------- MODULE MultiMarket -----------------------------
(***************************************************************************)
(* internal/multimarket/engine.go: one worker per configured market, all   *)
(* of them with one position manager and one account.  A step of a worker  *)
(* is what it does between two points where others can get in: a call of   *)
(* the position manager, which locks, or a request to the exchange.        *)
(***************************************************************************)
EXTENDS PositionManager

CONSTANTS Workers,
          MarketOf,   \* MarketOf[w]: the market worker w trades
          Futures,    \* the workers that trade it as futures
          Faults      \* what may go wrong with a request

FaultKinds == {"reply_lost", "cancel_fails"}

ASSUME MultiConstantsOK ==
    MarketOf \in [Workers -> Markets] /\ Futures \subseteq Workers /\ Faults \subseteq FaultKinds

VARIABLES
    xchg,       \* the exchange's orders
    pc,         \* pc[w]: what worker w does next
    book,       \* book[w]: mid price of the order book its tick works with, 0: none
    triggered,  \* triggered[w]: copies of the positions it is about to close
    side,       \* side[w]: side of the order it is placing
    order,      \* order[w]: the order it has just placed, or is about to cancel
    shutdown,   \* "no", "ctx": the context is cancelled, "stop": Stop was called
    lost        \* lost[o]: how the bot lost sight of order o, if it did

vars == <<manager, xchg, pc, book, triggered, side, order, shutdown, lost>>
hand == <<book, triggered, side, order>>

INSTANCE Exchange

Nothing == [sl |-> {}, tp |-> {}]
Copies == [key : Keys, order : OrderIds]
PC == {"start", "wait", "prices", "exits", "closing", "cancel", "signals",
       "place", "open", "failed", "returned"}

\* Every variable has its type, and there are never more positions than allowed.
TypeOK ==
    /\ PositionsTypeOK /\ ExchangeTypeOK
    /\ pc \in [Workers -> PC] /\ book \in [Workers -> Mids \cup {0}]
    /\ triggered \in [Workers -> [sl : SUBSET Copies, tp : SUBSET Copies]]
    /\ side \in [Workers -> Sides] /\ order \in [Workers -> OrderIds \cup {NoPosition}]
    /\ shutdown \in {"no", "ctx", "stop"}
    /\ lost \in [OrderIds -> {"no", "reply", "cancel", "full", "taken"}]

\* What newMarketWorker makes.
WorkersInit ==
    /\ pc = [w \in Workers |-> "start"] /\ book = [w \in Workers |-> 0]
    /\ triggered = [w \in Workers |-> Nothing]
    /\ side = [w \in Workers |-> "buy"] /\ order = [w \in Workers |-> NoPosition]

\* NewMultiEngine: one position manager and one client for all workers.
Init ==
    /\ PositionsInit /\ ExchangeInit /\ WorkersInit /\ shutdown = "no"
    /\ lost = [o \in OrderIds |-> "no"]

Goto(w, from, to) == pc[w] = from /\ pc' = [pc EXCEPT ![w] = to]
Key(w) == <<MarketOf[w], side[w]>>
\* The tick returns and its locals are gone.
EndTick(w, from) ==
    /\ Goto(w, from, "wait")
    /\ book' = [book EXCEPT ![w] = 0] /\ side' = [side EXCEPT ![w] = "buy"]
    /\ order' = [order EXCEPT ![w] = NoPosition]
    /\ UNCHANGED <<triggered, shutdown>>

Lose(o, how) == lost' = [lost EXCEPT ![o] = how]

MayFail(f) == f \in Faults \/ shutdown = "ctx"

-----------------------------------------------------------------------------
(* Start, the loop and its end *)

Connect(w) ==
    /\ \/ Goto(w, "start", "wait") \/ Goto(w, "start", "failed")
    /\ UNCHANGED <<manager, xchg, hand, shutdown, lost>>

\* A tick begins with a copy of the order book.  One that finds too few
\* candles or an open circuit changes nothing and is left out.
Tick(w) ==
    /\ \E mid \in Mids \cup {0} :
          /\ book' = [book EXCEPT ![w] = mid]
          /\ Goto(w, "wait", IF mid = 0 THEN "signals" ELSE "prices")
    /\ UNCHANGED <<manager, xchg, triggered, side, order, shutdown, lost>>

\* A mutant that does not look at the context.
ReturnOnStop(w) ==
    /\ shutdown = "stop" /\ Goto(w, "wait", "returned")
    /\ UNCHANGED <<manager, xchg, hand, shutdown, lost>>

Return(w) ==
    /\ shutdown # "no" /\ Goto(w, "wait", "returned")
    /\ UNCHANGED <<manager, xchg, hand, shutdown, lost>>

Shutdown ==
    /\ shutdown = "no" /\ shutdown' \in {"ctx", "stop"}
    /\ UNCHANGED <<manager, xchg, pc, hand, lost>>

-----------------------------------------------------------------------------
(* Exits *)

PriceUpdate(w) ==
    /\ Goto(w, "prices", "exits")
    /\ UpdatePrices(MarketOf[w], book[w])
    /\ UNCHANGED <<xchg, hand, shutdown, lost>>

\* A mutant that only looks for stop-losses.
OwnStopLosses(w) ==
    [sl |-> {c \in StopLossesHit : c.key[1] = MarketOf[w]}, tp |-> {}]

\* A mutant that closes the positions of every market.
AllExits(w) == [sl |-> StopLossesHit, tp |-> TakeProfitsHit]

OwnExits(w) ==
    [sl |-> {c \in StopLossesHit : c.key[1] = MarketOf[w]},
     tp |-> {c \in TakeProfitsHit : c.key[1] = MarketOf[w]}]

FindExits(w) ==
    /\ Goto(w, "exits", IF OwnExits(w) = Nothing THEN "signals" ELSE "closing")
    /\ triggered' = [triggered EXCEPT ![w] = OwnExits(w)]
    /\ UNCHANGED <<manager, xchg, book, side, order, shutdown, lost>>

\* Stop-losses first, each kind in the order of a map.
NextExits(w) == IF triggered[w].sl # {} THEN triggered[w].sl ELSE triggered[w].tp
Without(w, c) == [sl |-> triggered[w].sl \ {c}, tp |-> triggered[w].tp \ {c}]

\* The order to cancel is that of the copy.  A position that is gone is skipped.
ClosePosition(w) ==
    \E c \in NextExits(w) :
        /\ Close(c.key)
        /\ Goto(w, "closing", IF c.key \in OpenKeys THEN "cancel"
                              ELSE IF Without(w, c) # Nothing THEN "closing" ELSE "signals")
        /\ order' = [order EXCEPT ![w] = IF c.key \in OpenKeys THEN c.order ELSE @]
        /\ triggered' = [triggered EXCEPT ![w] = Without(w, c)]
        /\ UNCHANGED <<xchg, book, side, shutdown, lost>>

\* A mutant that never reaches the exchange.
CancelNeverArrives(w) == UNCHANGED <<xchg, lost>>

\* DELETE /spot/order, whatever the market type; its error is dropped.
CancelSpotOrder(w) ==
    \/ w \notin Futures /\ CancelArrives(order[w]) /\ UNCHANGED lost
    \/ /\ w \in Futures \/ MayFail("cancel_fails")
       /\ Lose(order[w], "cancel") /\ UNCHANGED xchg

CancelOrder(w) ==
    /\ Goto(w, "cancel", IF triggered[w] = Nothing THEN "signals" ELSE "closing")
    /\ CancelSpotOrder(w)
    /\ order' = [order EXCEPT ![w] = NoPosition]
    /\ UNCHANGED <<manager, book, triggered, side, shutdown>>

-----------------------------------------------------------------------------
(* Entries *)

\* The strategies want nothing, or something that is not possible now.
NoEntry(w) ==
    /\ EndTick(w, "signals") /\ UNCHANGED <<manager, xchg, lost>>

WantEntry(w) ==
    \E s \in Sides :
        /\ CanOpen(<<MarketOf[w], s>>) /\ book[w] # 0
        /\ Goto(w, "signals", "place")
        /\ side' = [side EXCEPT ![w] = s]
        /\ UNCHANGED <<manager, xchg, book, triggered, order, shutdown, lost>>

PlaceAccepted(w) ==
    \E o \in OrderIds :
        /\ Goto(w, "place", "open") /\ Accept(o)
        /\ order' = [order EXCEPT ![w] = o]
        /\ UNCHANGED <<manager, book, triggered, side, shutdown, lost>>

PlaceRejected(w) ==
    /\ EndTick(w, "place") /\ UNCHANGED <<manager, xchg, lost>>

\* The exchange has the order, the worker has an error.
PlaceReplyLost(w) ==
    \E o \in OrderIds :
        /\ MayFail("reply_lost") /\ Accept(o) /\ Lose(o, "reply")
        /\ EndTick(w, "place") /\ UNCHANGED manager

\* Open has two errors, and both are dropped.
Register(w) ==
    /\ Open(Key(w), [order |-> order[w], entry |-> book[w], price |-> 0])
    /\ IF CanOpen(Key(w)) THEN UNCHANGED lost
       ELSE Lose(order[w], IF Key(w) \in OpenKeys THEN "taken" ELSE "full")
    /\ EndTick(w, "open") /\ UNCHANGED xchg

-----------------------------------------------------------------------------

InTick(w) ==
    \/ PriceUpdate(w) \/ FindExits(w) \/ ClosePosition(w) \/ CancelOrder(w)
    \/ NoEntry(w) \/ WantEntry(w) \/ PlaceAccepted(w) \/ PlaceRejected(w)
    \/ PlaceReplyLost(w) \/ Register(w)

Next ==
    \/ \E w \in Workers : Connect(w) \/ Tick(w) \/ Return(w) \/ InTick(w)
    \/ Shutdown
    \/ \E o \in OrderIds : Fill(o) /\ UNCHANGED <<manager, pc, hand, shutdown, lost>>

Spec == Init /\ [][Next]_vars

\* Workers finish their ticks; select picks among the ready channels at random.
FairSpec ==
    /\ Spec
    /\ \A w \in Workers : /\ WF_vars(Connect(w) \/ InTick(w))
                          /\ SF_vars(Return(w))

-----------------------------------------------------------------------------
(* Properties *)

Ended == \A w \in Workers : pc[w] \in {"failed", "returned"}

\* "Register with position manager": an order that rests on the exchange has an
\* open position, or a worker is just about to register or to cancel it, or the bot
\* has lost sight of it in one of three ways: the reply to its placement or the request
\* to cancel it did not arrive, or other workers took the last positions meanwhile.
\* The position that it was placed for is never taken.
EveryOrderTracked ==
    \A o \in Resting : \/ \E k \in OpenKeys : positions[k].order = o
                       \/ \E w \in Workers : order[w] = o
                       \/ lost[o] \in {"reply", "cancel", "full"}

\* A position is closed only while its own price is at or beyond one of its levels,
\* and the order cancelled after it is its own, although the decision was taken on
\* a copy.
ClosesWhatHasTriggered ==
    [][\A k \in OpenKeys : positions'[k] = NoPosition =>
       /\ \A w \in Workers : pc[w] = "closing" /\ pc'[w] = "cancel"
              => order'[w] = positions[k].order
       /\ \/ 100 * (positions[k].entry - positions[k].price)
                >= positions[k].entry * (IF k[2] = "buy" THEN StopLossPct ELSE TakeProfitPct)
          \/ 100 * (positions[k].price - positions[k].entry)
                >= positions[k].entry * (IF k[2] = "buy" THEN TakeProfitPct ELSE StopLossPct)]_vars

\* A position whose price is at or beyond one of its levels is in the hands of the
\* worker of its market, which has just updated the price or is closing it: no
\* tick ends, and no worker returns, with an exit it has not acted on.
NoExitMissed ==
    \A w \in Workers : \A k \in OpenKeys :
        /\ k[1] = MarketOf[w]
        /\ ShouldStopLoss(k, positions[k]) \/ ShouldTakeProfit(k, positions[k])
        => \/ pc[w] = "exits"
           \/ [key |-> k, order |-> positions[k].order]
                 \in triggered[w].sl \cup triggered[w].tp

\* Cancelling the context or calling Stop ends every worker, and with them Run.
ShutdownReturns == shutdown # "no" ~> Ended
==============================================================================
