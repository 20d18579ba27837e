--------------------------- MODULE TradingEngine ---------------------------
(***************************************************************************)
(* internal/engine/engine.go: the Run goroutine (a tick a minute, back-off *)
(* after a failed one), the orders it places, and one manageTrade          *)
(* goroutine per order that waits for stop-loss, take-profit or a 4-hour   *)
(* timeout.  The goroutines share openOrders (under e.mu), the live mid    *)
(* price and the journal; the exchange is Exchange.tla.                    *)
(***************************************************************************)
EXTENDS Integers, FiniteSets

CONSTANTS
    OrderIds,         \* ids the client can return; bounds the orders placed
    NoOrder,          \* the nil order
    MaxOpenOrders,    \* bot.max_open_orders
    Mids,             \* mid prices of a two-sided book (0: a side is empty)
    StopLossPct,      \* bot.stop_loss_pct, in percent
    TakeProfitPct,    \* bot.take_profit_pct, in percent
    BackoffMin,       \* first back-off (5 s in the code)
    BackoffMax,       \* cap of the back-off (5 min in the code)
    Modes,            \* how the bot may be configured, see ModeKinds
    Quantities,       \* values of bot.base_qty; 0: it is not a number
    Faults            \* what the environment may do wrong, see FaultKinds

\* "reply_lost": the exchange accepts an order but do() returns an error (the
\* 10 s client timeout, a broken connection, a reply that does not parse);
\* "cancel_fails": a DELETE does not reach the exchange;
\* "journal_fails": Journal.Record returns an error.
FaultKinds == {"reply_lost", "cancel_fails", "journal_fails"}

\* bot.mode = "paper", or else bot.market_type.
ModeKinds == {"paper", "spot", "futures"}

ASSUME ConstantsOK ==
    /\ IsFiniteSet(OrderIds)
    /\ NoOrder \notin OrderIds
    /\ MaxOpenOrders \in Nat
    /\ Mids \subseteq Nat \ {0}
    /\ StopLossPct \in Nat \ {0} /\ TakeProfitPct \in Nat \ {0}
    /\ BackoffMin \in Nat \ {0} /\ BackoffMax \in Nat /\ BackoffMin <= BackoffMax
    /\ Modes \subseteq ModeKinds
    /\ Quantities \subseteq Nat
    /\ Faults \subseteq FaultKinds

VARIABLES
    mode,        \* the configured mode
    qty,         \* the configured bot.base_qty
    ctxDone,     \* the context of Run is cancelled (SIGINT, SIGTERM)
    stopClosed,  \* Stop() has closed stopCh
    run,         \* where the Run goroutine is
    backoff,     \* Run's local backoff, in seconds
    tick,        \* Run's locals during a tick: book mid, signal, len seen, order
    mid,         \* mid price of the live order book, 0 when a side is empty
    openOrders,  \* e.openOrders (its keys)
    mgr,         \* mgr[o]: where the manageTrade goroutine of order o is
    trade,       \* trade[o]: the entry price and signal manageTrade was given
    records,     \* records[o]: lines of the trade journal about order o
    exit,        \* exit[o]: the last of them: reason, price, P&L and, for the
                 \*   percentage, the move of the price since the entry
    xchg         \* what the exchange holds

INSTANCE Exchange

runVars == <<run, backoff, tick>>
mgrVars == <<openOrders, mgr, trade, records, exit>>
envVars == <<mode, qty, ctxDone, stopClosed, mid>>
vars == <<mode, qty, ctxDone, stopClosed, run, backoff, tick, mid, openOrders, mgr, trade,
          records, exit, xchg>>

Signals == {"LONG", "SHORT"}
RunPC == {"start", "select", "fetch", "decide", "check", "place", "register",
          "backoff", "returned", "exited"}
MgrPC == {"none", "watch", "recorded", "cancelled", "gone", "quit"}
Price == Mids \cup {0}

TickState == [mid : Price, sig : Signals \cup {"FLAT"},
              seen : 0..Cardinality(OrderIds), order : OrderIds \cup {NoOrder}]
NoTick == [mid |-> 0, sig |-> "FLAT", seen |-> 0, order |-> NoOrder]

\* Every variable has its type; the back-off stays between its two bounds.
TypeOK ==
    /\ mode \in Modes /\ qty \in Quantities
    /\ ctxDone \in BOOLEAN /\ stopClosed \in BOOLEAN
    /\ run \in RunPC
    /\ backoff \in BackoffMin..BackoffMax
    /\ tick \in TickState
    /\ mid \in Price
    /\ openOrders \in SUBSET OrderIds
    /\ mgr \in [OrderIds -> MgrPC]
    /\ trade \in [OrderIds -> [entry : Price, sig : Signals \cup {"FLAT"}]]
    /\ records \in [OrderIds -> Nat]
    /\ exit \in [OrderIds -> [reason : {"none", "sl", "tp", "timeout"}, price : Price,
                              pnl : Int, move : Int]]
    /\ ExchangeTypeOK

Init ==
    /\ mode \in Modes /\ qty \in Quantities
    /\ ctxDone = FALSE /\ stopClosed = FALSE
    /\ run = "start" /\ backoff = BackoffMin /\ tick = NoTick
    /\ mid = 0
    /\ openOrders = {}
    /\ mgr = [o \in OrderIds |-> "none"]
    /\ trade = [o \in OrderIds |-> [entry |-> 0, sig |-> "FLAT"]]
    /\ records = [o \in OrderIds |-> 0]
    /\ exit = [o \in OrderIds |-> [reason |-> "none", price |-> 0, pnl |-> 0, move |-> 0]]
    /\ ExchangeInit

-----------------------------------------------------------------------------
(* The Run goroutine *)

\* Ids not used yet, by the bot or by the exchange.
Fresh == {o \in OrderIds : mgr[o] = "none" /\ xchg[o] = "absent"}

\* Connect, subscribe, fetch the first candles: any failure ends Run.
StartUp ==
    /\ run = "start"
    /\ \/ ~ctxDone /\ run' = "select"
       \/ run' = "returned"
    /\ UNCHANGED <<backoff, tick, mgrVars, envVars, xchg>>

\* The context is watched between ticks and while backing off ...
ReturnOnCancel ==
    /\ run \in {"select", "backoff"} /\ ctxDone
    /\ run' = "returned"
    /\ UNCHANGED <<backoff, tick, mgrVars, envVars, xchg>>

\* ... but stopCh only between ticks: the back-off select does not list it.
\* (ReturnOnStopInBackoff: a mutant that waits on it in the wrong select.)
ReturnOnStopInBackoff ==
    /\ run = "backoff" /\ stopClosed
    /\ run' = "returned"
    /\ UNCHANGED <<backoff, tick, mgrVars, envVars, xchg>>

ReturnOnStop ==
    /\ run = "select" /\ stopClosed
    /\ run' = "returned"
    /\ UNCHANGED <<backoff, tick, mgrVars, envVars, xchg>>

\* The bound on orders: no tick starts once every id of OrderIds is used.
StartTick ==
    /\ run = "select" /\ Fresh # {}
    /\ run' = "fetch"
    /\ UNCHANGED <<backoff, tick, mgrVars, envVars, xchg>>

\* tick returned nil: the back-off is reset and the locals of the tick die.
TickSucceeds ==
    /\ run' = "select" /\ backoff' = BackoffMin /\ tick' = NoTick

\* tick returned an error: Run logs it and goes to sleep.
TickFails == /\ run' = "backoff" /\ tick' = NoTick
             /\ UNCHANGED backoff

\* refreshCandles; a cancelled context makes the request fail.
RefreshCandles ==
    /\ run = "fetch"
    /\ \/ ~ctxDone /\ run' = "decide" /\ UNCHANGED <<backoff, tick>>
       \/ TickFails
    /\ UNCHANGED <<mgrVars, envVars, xchg>>

\* lob.Snapshot, gatherSignals and aggregateSignals (the vote is any signal),
\* then SignalLog under e.mu: the last lock before the unlocked len below.
Decide ==
    /\ run = "decide"
    /\ \/ TickSucceeds                              \* no signal, or FLAT
       \/ \E s \in Signals :
             /\ tick' = [mid |-> mid, sig |-> s, seen |-> Cardinality(openOrders),
                         order |-> NoOrder]
             /\ run' = "check" /\ UNCHANGED backoff
    /\ UNCHANGED <<mgrVars, envVars, xchg>>

AtLimitOffByOne(n) == n > MaxOpenOrders
AtLimit(n) == n >= MaxOpenOrders

\* len(e.openOrders) is read without e.mu while manageTrade goroutines delete
\* from the map: the value is any the map had since Run last held the lock.
\* A base_qty that is not a number makes the tick fail, but only when it has got so far.
CheckLimit ==
    /\ run = "check"
    /\ \E n \in Cardinality(openOrders)..tick.seen :
          \/ /\ AtLimit(n) \/ tick.mid = 0
             /\ TickSucceeds
          \/ /\ ~AtLimit(n) /\ tick.mid # 0 /\ qty = 0
             /\ TickFails
          \/ /\ ~AtLimit(n) /\ tick.mid # 0 /\ qty # 0
             /\ run' = "place" /\ UNCHANGED <<backoff, tick>>
    /\ UNCHANGED <<mgrVars, envVars, xchg>>

\* PlaceSpotOrder / PlaceFuturesOrder answered with an order.  In paper mode
\* the client makes one up and the exchange never hears of it.
PlaceAccepted ==
    /\ run = "place"
    /\ \E o \in Fresh :
          /\ \/ mode = "paper" /\ UNCHANGED xchg
             \/ mode # "paper" /\ ~ctxDone /\ Accept(o)
          /\ tick' = [tick EXCEPT !.order = o]
    /\ run' = "register"
    /\ UNCHANGED <<backoff, mgrVars, envVars>>

\* The exchange refused the order, or the request never reached it.
PlaceRejected ==
    /\ run = "place" /\ mode # "paper"
    /\ TickFails
    /\ UNCHANGED <<mgrVars, envVars, xchg>>

\* The exchange accepted the order and the bot got an error.
PlaceReplyLost ==
    /\ run = "place" /\ mode # "paper" /\ "reply_lost" \in Faults
    /\ \E o \in Fresh : Accept(o)
    /\ TickFails
    /\ UNCHANGED <<mgrVars, envVars>>

\* openOrders[order.ID] = order under e.mu, then go manageTrade(...).
Register ==
    /\ run = "register"
    /\ openOrders' = openOrders \cup {tick.order}
    /\ mgr' = [mgr EXCEPT ![tick.order] = "watch"]
    /\ trade' = [trade EXCEPT ![tick.order] = [entry |-> tick.mid, sig |-> tick.sig]]
    /\ TickSucceeds
    /\ UNCHANGED <<records, exit, envVars, xchg>>

NextBackoffUncapped(b) == 2 * b
NextBackoff(b) == IF 2 * b > BackoffMax THEN BackoffMax ELSE 2 * b

BackoffElapsed ==
    /\ run = "backoff"
    /\ run' = "select" /\ backoff' = NextBackoff(backoff)
    /\ UNCHANGED <<tick, mgrVars, envVars, xchg>>

\* main returns after Run: the process ends and every goroutine with it.
ProcessExits ==
    /\ run = "returned"
    /\ run' = "exited"
    /\ UNCHANGED <<backoff, tick, mgrVars, envVars, xchg>>

RunStep == \/ StartUp \/ StartTick \/ RefreshCandles \/ Decide \/ CheckLimit
           \/ PlaceAccepted \/ PlaceRejected \/ PlaceReplyLost \/ Register
           \/ BackoffElapsed \/ ProcessExits

-----------------------------------------------------------------------------
(* The manageTrade goroutines *)

Watching(o) == run # "exited" /\ mgr[o] = "watch"

\* The amount of an order: what was asked for, as the exchange's answer repeats it; an
\* order that the client makes up in paper mode has none.
Amount == IF mode = "paper" THEN 0 ELSE qty

\* Profit per unit at price p, signed for the side by recordClose and by the SL/TP test.
GainAt(o, p) == IF trade[o].sig = "LONG" THEN p - trade[o].entry
                                         ELSE trade[o].entry - p

StopLossHitLongOnly(o) == 100 * (mid - trade[o].entry) <= - StopLossPct * trade[o].entry
StopLossHit(o) == 100 * GainAt(o, mid) <= - StopLossPct * trade[o].entry
TakeProfitHit(o) == 100 * GainAt(o, mid) >= TakeProfitPct * trade[o].entry

\* recordClose: one line in the journal; an error is only logged.  The P&L is signed
\* for the side, the percentage is not.
RecordClose(o, reason) ==
    /\ \/ /\ records' = [records EXCEPT ![o] = @ + 1]
          /\ exit' = [exit EXCEPT ![o] = [reason |-> reason, price |-> mid,
                                          pnl |-> GainAt(o, mid) * Amount,
                                          move |-> mid - trade[o].entry]]
       \/ "journal_fails" \in Faults /\ UNCHANGED <<records, exit>>
    /\ mgr' = [mgr EXCEPT ![o] = "recorded"]
    /\ UNCHANGED <<openOrders, trade, runVars, envVars, xchg>>

\* A mutant that skips the timeout, too, when the book has no mid price.
ExitTimeoutPriced(o) == Watching(o) /\ mid # 0 /\ RecordClose(o, "timeout")

\* The 4-hour timer: the exit is recorded at the mid price, whatever it is.
ExitTimeout(o) == Watching(o) /\ RecordClose(o, "timeout")

ExitStopLoss(o) == Watching(o) /\ mid # 0 /\ StopLossHit(o) /\ RecordClose(o, "sl")

ExitTakeProfit(o) == /\ Watching(o) /\ mid # 0
                     /\ ~StopLossHit(o) /\ TakeProfitHit(o)
                     /\ RecordClose(o, "tp")

\* ctx.Done: the goroutine returns; the order stays open and unrecorded.
QuitOnCancel(o) ==
    /\ Watching(o) /\ ctxDone
    /\ mgr' = [mgr EXCEPT ![o] = "quit"]
    /\ UNCHANGED <<openOrders, trade, records, exit, runVars, envVars, xchg>>

\* What CancelSpotOrder does to the exchange.  It deletes on the spot endpoint
\* with market_type SPOT, which no futures order answers to; nothing is sent in
\* paper mode or with a cancelled context.
CancelNeverArrives(o) == UNCHANGED xchg
CancelSpotOrder(o) ==
    \/ mode = "spot" /\ ~ctxDone /\ CancelArrives(o)
    \/ /\ mode # "spot" \/ ctxDone \/ "cancel_fails" \in Faults
       /\ UNCHANGED xchg

CancelOrder(o) ==
    /\ run # "exited" /\ mgr[o] = "recorded"
    /\ CancelSpotOrder(o)
    /\ mgr' = [mgr EXCEPT ![o] = "cancelled"]
    /\ UNCHANGED <<openOrders, trade, records, exit, runVars, envVars>>

\* A mutant without the return after removeOrder: the goroutine keeps watching.
RemoveOrderNoReturn(o) ==
    /\ run # "exited" /\ mgr[o] = "cancelled"
    /\ openOrders' = openOrders \ {o}
    /\ mgr' = [mgr EXCEPT ![o] = "watch"]
    /\ UNCHANGED <<trade, records, exit, runVars, envVars, xchg>>

RemoveOrder(o) ==
    /\ run # "exited" /\ mgr[o] = "cancelled"
    /\ openOrders' = openOrders \ {o}
    /\ mgr' = [mgr EXCEPT ![o] = "gone"]
    /\ UNCHANGED <<trade, records, exit, runVars, envVars, xchg>>

ManageTrade(o) == \/ ExitTimeout(o) \/ ExitStopLoss(o) \/ ExitTakeProfit(o)
                  \/ QuitOnCancel(o) \/ CancelOrder(o) \/ RemoveOrder(o)

-----------------------------------------------------------------------------
(* The environment *)

\* A depth update moves the mid price or empties a side of the book.
MidMoves == \E p \in Price : /\ p # mid /\ mid' = p
                             /\ UNCHANGED <<mode, qty, ctxDone, stopClosed, runVars, mgrVars, xchg>>

ExchangeFills == /\ \E o \in OrderIds : Fill(o)
                 /\ UNCHANGED <<runVars, mgrVars, envVars>>

CancelContext == /\ ~ctxDone /\ ctxDone' = TRUE
                 /\ UNCHANGED <<mode, qty, stopClosed, mid, runVars, mgrVars, xchg>>

\* A second Stop would panic on the closed channel; callers stop once.
Stop == /\ ~stopClosed /\ stopClosed' = TRUE
        /\ UNCHANGED <<mode, qty, ctxDone, mid, runVars, mgrVars, xchg>>

Next == \/ RunStep \/ ReturnOnCancel \/ ReturnOnStop
        \/ \E o \in OrderIds : ManageTrade(o)
        \/ MidMoves \/ ExchangeFills \/ CancelContext \/ Stop

Spec == Init /\ [][Next]_vars

\* Run's steps end because the HTTP client times out after 10 s and the sleeps
\* are bounded; its select picks a ready channel at random, hence SF for the two
\* returns; the 4-hour timer and the steps after it are each trade's own.
Fairness ==
    /\ WF_vars(StartUp \/ RefreshCandles \/ Decide \/ CheckLimit \/ PlaceAccepted
               \/ PlaceRejected \/ Register \/ BackoffElapsed)
    /\ SF_vars(ReturnOnCancel) /\ SF_vars(ReturnOnStop)
    /\ \A o \in OrderIds : /\ WF_vars(ExitTimeout(o))
                           /\ WF_vars(CancelOrder(o)) /\ WF_vars(RemoveOrder(o))

FairSpec == Spec /\ Fairness

-----------------------------------------------------------------------------
(* Properties *)

\* The bot never tracks more than max_open_orders orders, although the length
\* is read without the lock and long before the order is registered.
OpenOrdersBounded == Cardinality(openOrders) <= MaxOpenOrders

\* An order is in openOrders exactly while its manageTrade goroutine has not
\* finished removing it: none is leaked, none is managed after its removal.
TrackedIffManaged ==
    \A o \in OrderIds : o \in openOrders <=> mgr[o] \notin {"none", "gone"}

\* openOrders holds what is managed, and no more than max_open_orders of it.
OpenOrdersRight == OpenOrdersBounded /\ TrackedIffManaged

\* No order gets two lines in the journal, and none before its exit was taken,
\* however SL, TP, the timeout and the shutdown race.
JournaledAtMostOnce ==
    \A o \in OrderIds :
        records[o] <= IF mgr[o] \in {"recorded", "cancelled", "gone"} THEN 1 ELSE 0

\* In the journal a stop-loss is at a price that had moved against the side traded and a
\* take-profit at one that had moved for it, a price somebody quoted, although the
\* percentage has the sign of the move for either side.  The P&L is a loss and a
\* gain, but for a paper bot, whose orders have no amount and whose P&L is 0.
ExitsHaveTheirSign ==
    \A o \in OrderIds :
        LET e == exit[o]   long == trade[o].sig = "LONG"
        IN /\ e.reason = "sl" => /\ e.price # 0
                                 /\ IF long THEN e.move < 0 ELSE e.move > 0
                                 /\ IF mode = "paper" THEN e.pnl = 0 ELSE e.pnl < 0
           /\ e.reason = "tp" => /\ e.price # 0
                                 /\ IF long THEN e.move > 0 ELSE e.move < 0
                                 /\ IF mode = "paper" THEN e.pnl = 0 ELSE e.pnl > 0

\* The journal has a trade once, and for what it was.
JournalIsRight == JournaledAtMostOnce /\ ExitsHaveTheirSign

\* max_open_orders bounds what rests on the exchange, too, not only the map; unless
\* the bot was being shut down, an order it no longer tracks is off the book.
RestingOrdersTracked ==
    /\ Cardinality(Resting) <= MaxOpenOrders
    /\ \A o \in OrderIds : mgr[o] = "gone" /\ ~ctxDone => xchg[o] # "resting"

\* Unless the bot was being shut down, a trade recorded as stopped out or
\* as having taken its profit holds no position any more once it is removed.
ClosedAtSLTP ==
    \A o \in OrderIds : mgr[o] = "gone" /\ exit[o].reason \in {"sl", "tp"} /\ ~ctxDone
                           => xchg[o] # "filled"

\* Every tracked order leaves openOrders in the end, even when the book stays
\* empty and the journal and the exchange fail, unless the bot is shut down.
OrdersLeave ==
    \A o \in OrderIds :
        o \in openOrders ~> (o \notin openOrders \/ ctxDone \/ run \in {"returned", "exited"})

\* SIGTERM or Stop ends Run, whatever it was waiting for.
ShutdownReturns == (ctxDone \/ stopClosed) ~> (run \in {"returned", "exited"})

\* The stage of a trade as TradeLifecycle sees it: recordClose settles it and
\* removeOrder releases it.
StageOf == [none |-> "new", watch |-> "open", recorded |-> "settled",
            cancelled |-> "settled", gone |-> "released", quit |-> "abandoned"]

Lifecycle == INSTANCE TradeLifecycle
                 WITH Limit <- MaxOpenOrders, lines <- records,
                      tracked <- Cardinality(openOrders),
                      stage <- [o \in OrderIds |-> StageOf[mgr[o]]]

\* As long as the journal can be written, the goroutines of the engine together
\* implement the life of a trade: capacity, one line, release only after it.
LifecycleSpec == Lifecycle!Spec
=============================================================================
