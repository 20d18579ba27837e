------------------------------ MODULE MarketFeed ------------------------------
(***************************************************************************)
(* internal/api/ws_feed.go: the WebSocket connection, the live order book  *)
(* that its depth messages keep, and the candle buffer that its klines and *)
(* one REST answer keep, as a worker of multimarket/engine.go uses them.   *)
(* mergeLevels works on a map from the text of a price to a quantity: a    *)
(* level of the book goes in under the shortest text of its price          *)
(* ("100.5"), an update under the text the exchange has sent ("100.50").   *)
(***************************************************************************)
EXTENDS CandleBuffer, Integers, FiniteSetsExt

CONSTANTS Prices,       \* positive integers
          MaxQuantity,
          Padded,       \* prices the exchange writes with trailing zeros
          MaxInFlight,  \* messages on the way, for TLC
          History,      \* bars there may be when the bot starts
          MaxBars       \* bars of a behaviour, for TLC

ASSUME FeedConstantsOK ==
    /\ Prices \subseteq Nat \ {0} /\ Padded \subseteq Prices
    /\ MaxQuantity \in Nat \ {0} /\ MaxBars \in Nat
    /\ History \subseteq 1..MaxBars
    /\ MaxInFlight \in 1..MaxLen  \* no message is older than the buffer is long

VARIABLES
    market,    \* market[s][p]: quantity the exchange has at price p of side s
    bars,      \* the exchange's candles so far; the last one is in progress
    inFlight,  \* depth and kline messages on the way to the bot
    conn,      \* the connection, see TypeOK
    subs,      \* the events it is subscribed to
    start,     \* what Start does next: "depth", "kline", "candles"
    book,      \* book[s][t]: the bot's quantity for the price written t
    shown,     \* the market when the depth message handled last was sent
    quoted,    \* quoted[s][p]: the last quantity that a handled message gave for p
    seed,      \* the worker's REST request for candles, see TypeOK
    answer     \* its answer on the way

feedVars == <<conn, subs, start>>
bookVars == <<book, shown, quoted>>
candleVars == <<candles, seed, answer>>
vars == <<market, bars, inFlight, feedVars, bookVars, candleVars>>

BookSides == {"bid", "ask"}
Quantities == 0..MaxQuantity
Texts == Prices \X {"short", "padded"}
TextOf(p) == <<p, IF p \in Padded THEN "padded" ELSE "short">>

\* Levels of one side as (price, quantity) pairs: what Snapshot returns.
Levels(m, s)    == {<<p, m[s][p]>> : p \in {q \in Prices : m[s][q] # 0}}
BookLevels(s)   == {<<t[1], book[s][t]>> : t \in {u \in Texts : book[s][u] # 0}}

\* Bids are below asks.
Markets == {m \in [BookSides -> [Prices -> Quantities]] :
                \A p, q \in Prices : m.bid[p] # 0 /\ m.ask[q] # 0 => p < q}

\* A connection is "new", "refused", "up", "broken": waiting to reconnect, or "dead":
\* given up.  Only on one that is up are there subscriptions, and only messages that
\* were subscribed to are on the way.  The request for candles is "none", "answered",
\* "overtaken" by a kline that was handled since the answer, or over: "clean", with
\* a "gap", or "failed".
TypeOK ==
    /\ market \in Markets /\ shown \in Markets
    /\ conn \in {"new", "refused", "up", "broken", "dead"}
    /\ subs \subseteq {"depth.update", "kline.update"} /\ (conn # "up" => subs = {})
    /\ start \in {"depth", "kline", "candles"}
    /\ \A i \in DOMAIN inFlight : inFlight[i].event \in subs
    /\ Len(inFlight) <= MaxInFlight
    /\ book \in [BookSides -> [Texts -> Quantities]]
    /\ quoted \in [BookSides -> [Prices -> Quantities]]
    /\ \A i \in DOMAIN bars : bars[i].time = i /\ bars[i].close \in {1, 2}
    /\ Len(bars) <= MaxBars /\ Len(candles) <= MaxLen
    /\ seed \in {"none", "answered", "overtaken", "clean", "gap", "failed"}
    /\ answer # <<>> <=> seed \in {"answered", "overtaken"}

Init ==
    /\ market \in Markets /\ inFlight = <<>>
    /\ conn = "new" /\ subs = {} /\ start = "depth"
    /\ \E n \in History : bars = [i \in 1..n |-> Candle(i, 1)]
    /\ candles = <<>> /\ seed = "none" /\ answer = <<>>
    /\ book = [s \in BookSides |-> [t \in Texts |-> 0]]
    /\ shown = [s \in BookSides |-> [p \in Prices |-> 0]] /\ quoted = shown

-----------------------------------------------------------------------------
(* The exchange *)

\* The depth names the levels there are, and says nothing of those that have gone.
Depth(m) ==
    [s \in BookSides |->
        [t \in {TextOf(p) : p \in {q \in Prices : m[s][q] # 0}} |-> m[s][t[1]]]]
DepthMessage(m) == [event |-> "depth.update", depth |-> Depth(m), sent |-> m]

\* A subscriber is told of a change, for the others it is lost.
Push(message) ==
    IF message.event \in subs
    THEN Len(inFlight) < MaxInFlight /\ inFlight' = Append(inFlight, message)
    ELSE UNCHANGED inFlight

\* Orders come, go and trade.  The subscription asks for the full depth each time.
MarketMoves ==
    /\ market' \in Markets \ {market}
    /\ Push(DepthMessage(market'))
    /\ UNCHANGED <<bars, feedVars, bookVars, candleVars>>

\* A trade moves the close of the bar in progress, or opens the next one.
BarMoves ==
    /\ \/ bars' = [bars EXCEPT ![Len(bars)].close = 3 - @]
       \/ Len(bars) < MaxBars /\ bars' = Append(bars, Candle(Len(bars) + 1, 1))
    /\ Push([event |-> "kline.update", candle |-> Last(bars')])
    /\ UNCHANGED <<market, feedVars, bookVars, candleVars>>

-----------------------------------------------------------------------------
(* The connection *)

\* Start connects, and gives up if it cannot ...
Connect ==
    /\ conn = "new" /\ conn' \in {"up", "refused"}
    /\ UNCHANGED <<market, bars, inFlight, subs, start, bookVars, candleVars>>

\* ... then it subscribes to one event after the other; errors are dropped.  The answer
\* to the first is the depth.
SubscribeDepth ==
    /\ start = "depth" /\ conn \notin {"new", "refused"} /\ start' = "kline"
    /\ \/ conn = "up" /\ subs' = {"depth.update"} /\ inFlight' = <<DepthMessage(market)>>
       \/ UNCHANGED <<subs, inFlight>>
    /\ UNCHANGED <<market, bars, conn, bookVars, candleVars>>

SubscribeKLine ==
    /\ start = "kline" /\ start' = "candles"
    /\ \/ conn = "up" /\ subs' = subs \cup {"kline.update"}
       \/ UNCHANGED subs
    /\ UNCHANGED <<market, bars, inFlight, conn, bookVars, candleVars>>

\* A mutant that goes on with what the old connection had sent.
ReadErrorKeepsMessages ==
    /\ conn = "up" /\ conn' = "broken" /\ subs' = {}
    /\ UNCHANGED <<market, bars, inFlight, start, bookVars, candleVars>>

\* ReadMessage fails: what was on the way is lost.
ReadError ==
    /\ conn = "up" /\ conn' = "broken" /\ subs' = {} /\ inFlight' = <<>>
    /\ UNCHANGED <<market, bars, start, bookVars, candleVars>>

\* readLoop calls Connect once, and does not subscribe again.
Reconnect ==
    /\ conn = "broken" /\ conn' \in {"up", "dead"}
    /\ UNCHANGED <<market, bars, inFlight, subs, start, bookVars, candleVars>>

-----------------------------------------------------------------------------
(* LiveOrderBook *)

\* The map that mergeLevels makes of the levels it has.  Two levels of one price
\* share their text now, and one of them, whichever comes last, survives.
Relabelled(levels) ==
    {m \in [Texts -> Quantities] : \A p \in Prices :
        LET found == {levels[<<p, f>>] : f \in {"short", "padded"}} \ {0}
        IN  /\ m[<<p, "padded">>] = 0
            /\ m[<<p, "short">>] \in IF found = {} THEN {0} ELSE found}

Updated(m, updates) ==
    [t \in Texts |-> IF t \in DOMAIN updates THEN updates[t] ELSE m[t]]

\* A mutant that merges the asks only.
MergedAsks(depth) ==
    {[book EXCEPT !.ask = Updated(a, depth.ask)] : a \in Relabelled(book.ask)}
\* What the book can be after a depth message.
Merged(depth) ==
    {[ask |-> Updated(a, depth.ask), bid |-> Updated(b, depth.bid)] :
        a \in Relabelled(book.ask), b \in Relabelled(book.bid)}

\* readLoop hands the next message to both handlers; a depth message changes both
\* sides under one lock.
HandleDepth ==
    /\ inFlight # <<>> /\ Head(inFlight).event = "depth.update"
    /\ book' \in Merged(Head(inFlight).depth) /\ shown' = Head(inFlight).sent
    /\ quoted' = [s \in BookSides |-> [p \in Prices |->
                      IF shown'[s][p] # 0 THEN shown'[s][p] ELSE quoted[s][p]]]
    /\ inFlight' = Tail(inFlight)
    /\ UNCHANGED <<market, bars, feedVars, candleVars>>

-----------------------------------------------------------------------------
(* The worker's candles *)

HandleKLine ==
    /\ inFlight # <<>> /\ Head(inFlight).event = "kline.update"
    /\ candles' = Upsert(candles, Head(inFlight).candle)
    /\ inFlight' = Tail(inFlight)
    /\ seed' = IF seed = "answered" THEN "overtaken" ELSE seed
    /\ UNCHANGED <<market, bars, feedVars, bookVars, answer>>

\* Start asks for candles once it has connected and subscribed; the exchange's
\* answer is on its way back.
AskCandles ==
    /\ start = "candles" /\ seed = "none"
    /\ \/ seed' = "answered" /\ answer' = Capped(bars)
       \/ seed' = "failed" /\ UNCHANGED answer
    /\ UNCHANGED <<market, bars, inFlight, feedVars, bookVars, candles>>

\* The answer replaces what the buffer has.
SeedCandles ==
    /\ seed \in {"answered", "overtaken"}
    /\ candles' = Capped(answer) /\ answer' = <<>>
    /\ seed' = IF seed = "overtaken" THEN "gap" ELSE "clean"
    /\ UNCHANGED <<market, bars, inFlight, feedVars, bookVars>>

Next == \/ MarketMoves \/ BarMoves
        \/ Connect \/ SubscribeDepth \/ SubscribeKLine \/ ReadError \/ Reconnect
        \/ HandleDepth \/ HandleKLine \/ AskCandles \/ SeedCandles

Spec == Init /\ [][Next]_vars

-----------------------------------------------------------------------------
(* Properties *)

UpToDate(event) == event \in subs /\ inFlight = <<>>

\* A bot that is subscribed and has handled every message was last told of the present
\* depth.  However late, each snapshot has every level it was last told of, on both
\* sides; and what else it has was quoted once: at a price that the depth no longer
\* has, with the last quantity there was, or at one that is spelled in two ways.
BookFollows ==
    /\ UpToDate("depth.update") => shown = market
    /\ \A s \in BookSides :
          /\ Levels(shown, s) \subseteq BookLevels(s)
          /\ \A l \in BookLevels(s) \ Levels(shown, s) :
                /\ quoted[s][l[1]] # 0
                /\ l[1] \notin Padded => shown[s][l[1]] = 0 /\ l[2] = quoted[s][l[1]]

\* The buffer has one candle for each of some successive bars, oldest first; only an
\* answer that a kline has overtaken leaves a gap.
CandlesOrdered ==
    \A i \in 1..Len(candles) - 1 :
        \/ candles[i + 1].time = candles[i].time + 1
        \/ seed = "gap" /\ candles[i + 1].time > candles[i].time

\* In whatever order the REST answer and the klines arrive, the candles are in order,
\* and a subscribed bot that has handled every message has the exchange's latest
\* ones with their closes: as many as the buffer holds if its request was answered,
\* those since it subscribed otherwise.
CandlesFollow ==
  /\ CandlesOrdered
  /\ UpToDate("kline.update") /\ seed \in {"clean", "failed"} =>
         /\ IsSuffix(candles, bars)
         /\ seed = "clean" => Len(candles) = Min({MaxLen, Len(bars)})
===============================================================================
