-------------------------------- MODULE Signals --------------------------------
(***************************************************************************)
(* The first half of Engine.tick (internal/engine/engine.go): fetch the    *)
(* candles, take the book, let the strategies vote in goroutines of their  *)
(* own and weigh their votes.  Between two ticks the market adds a bar or  *)
(* moves the one that is not closed yet.                                   *)
(***************************************************************************)
EXTENDS Strategies

CONSTANTS Sights,   \* what a tick may find: [candle |-> latest bar, book |-> order book]
          MaxBars,  \* candles in an answer, at most
          Centre    \* the price about which markets are mirrored

Candle == [open : Nat, high : Nat, low : Nat, close : Nat, volume : Nat]

ASSUME SignalsConstantsOK ==
    /\ MaxBars \in Nat \ {0} /\ Centre \in Nat
    /\ \A k \in Sights : k.candle \in Candle

VARIABLES
    candles,   \* e.candles
    book,      \* the snapshot of the live book
    series,    \* what the indicators make of the candles
    votes,     \* what the strategies make of them
    consensus, \* of the votes
    up         \* no goroutine has panicked: a panic ends the process

vars == <<candles, book, series, votes, consensus, up>>

EmptyBook == [bids |-> <<>>, asks |-> <<>>]

Init ==
    /\ candles = <<>> /\ book = EmptyBook
    /\ series = Series(<<>>)
    /\ votes = [s \in DOMAIN Confidence(EmptyBook) |-> Flat]
    /\ consensus = Flat /\ up = TRUE

\* refreshCandles, Snapshot, gatherSignals, aggregateSignals.
Tick(c, b) ==
    /\ up
    /\ candles' = c /\ book' = b
    /\ series' = Series(c)
    /\ votes' = Votes(c, series', b)
    /\ up' = (\A s \in DOMAIN votes' : votes'[s] # Panic)
    /\ consensus' \in IF up' THEN Aggregate(votes', b) ELSE {consensus}

NewBar ==
    /\ Len(candles) < MaxBars
    /\ \E k \in Sights : Tick(Append(candles, k.candle), k.book)

\* An answer has at most MaxBars candles: a new bar pushes out the oldest one.
Slide ==
    /\ Len(candles) = MaxBars
    /\ \E k \in Sights : Tick(Append(Tail(candles), k.candle), k.book)

BarMoves ==
    /\ candles # <<>>
    /\ \E k \in Sights : /\ k.candle.open = Latest(candles).open
                         /\ Tick(Front(candles) \o <<k.candle>>, k.book)

\* The exchange has no candles for the market yet.
EmptyAnswer ==
    /\ candles = <<>>
    /\ \E k \in Sights : Tick(<<>>, k.book)

Next == NewBar \/ Slide \/ BarMoves \/ EmptyAnswer

Spec == Init /\ [][Next]_vars

-----------------------------------------------------------------------------
\* Candles that each series needs before its first value, less one.
WarmUp ==
    [ichimoku |-> P.ichimoku.kijun - 1, rsi_mean_revert |-> P.rsi_mean_revert.period,
     macd_cross |-> P.macd_cross.slow + P.macd_cross.signal - 2,
     bollinger_bands |-> P.bollinger_bands.period - 1, sma |-> P.bollinger_bands.period - 1,
     ema_fast |-> P.ema_cross.fast - 1, ema_slow |-> P.ema_cross.slow - 1,
     atr |-> P.trend_follow.period, supertrend |-> P.supertrend.period,
     williams_r |-> P.williams_r.period - 1,
     stoch_rsi |-> P.stoch_rsi.period + P.stoch_rsi.k + P.stoch_rsi.d - 2,
     dmi_adx |-> 2 * P.dmi_adx.period - 1, parabolic_sar |-> 0,
     hull_ma |-> P.hull_ma.period + P.hull_ma.root - 2,
     keltner_channel |-> P.keltner_channel.period, donchian |-> P.donchian.period - 1]
\* Two series wait longer for their first value, and then have several at once.
Start == [WarmUp EXCEPT !.ichimoku = P.ichimoku.senkou - 1, !.parabolic_sar = 1]

\* Every series ends at the latest candle, and lacks as many values at its
\* beginning as its windows are long: values are compared across series by
\* counting from the end.  A panic of a goroutine ends the process.
TypeOK ==
    /\ Len(candles) <= MaxBars
    /\ \A s \in DOMAIN series :
          Len(series[s]) = IF Len(candles) <= Start[s] THEN 0 ELSE Len(candles) - WarmUp[s]
    /\ votes \in [DOMAIN Confidence(book) -> {Long, Short, Flat, Panic}]
    /\ consensus \in {Long, Short, Flat}
    /\ up = (\A s \in DOMAIN votes : votes[s] # Panic)

\* No indicator repaints: a value belongs to a closed bar for good.  Another bar, or
\* another price of the open one, leaves it as it was, so that a backtest sees of each
\* bar what the bot saw, and two consecutive values can be compared for a cross.  Only
\* the parabolic SAR looks ahead, once: the second close decides its first side.  When
\* the oldest candle drops out, that is true of the series that look at a window only.
Windowed == {"bollinger_bands", "sma", "williams_r", "donchian"}
NoRepainting ==
    [][candles' # <<>> =>
         \A s \in DOMAIN series \ (IF Len(candles') = 2 THEN {"parabolic_sar"} ELSE {}) :
            IF Front(candles') = candles THEN IsPrefix(series[s], series'[s])
            ELSE series[s] # <<>> =>
                 IF Front(candles') = Front(candles) THEN Front(series[s]) = Front(series'[s])
                 ELSE s \in Windowed => IsPrefix(Tail(series[s]), series'[s])]_vars

MeanOfLatest(v, n) == Over(Total(SubSeq(v, Len(v) - n + 1, Len(v))), n)
Power(x, m) == FoldLeft(LAMBDA a, i : a * x, 1, [i \in 1..m |-> i])
WeightedSum(v, n) ==    \* (n+1)^m times the EMA, m bars after its seed
    LET m == Len(v) - n
    IN Power(n - 1, m) * Over(Total(SubSeq(v, 1, n)), n)
         + Total([i \in 1..m |-> 2 * Power(n - 1, m - i) * Power(n + 1, i - 1) * v[n + i]])
\* The average of bar j, and a line that subtracts two averages bar by bar.
AverageAt(v, n, j) == Latest(EMA(SubSeq(v, 1, j), n))
LineOfBars(v, a, b, weight) ==
    [i \in 1..(Len(v) - b + 1) |-> weight * AverageAt(v, a, i + b - 1) - AverageAt(v, b, i + b - 1)]
\* Twice x is the highest high plus the lowest low of the latest n candles.
IsMidpoint(c, x, n) ==
    \E i, j \in (Len(c) - n + 1)..Len(c) :
        /\ \A k \in (Len(c) - n + 1)..Len(c) : c[k].high <= c[i].high /\ c[j].low <= c[k].low
        /\ 2 * x = Scale * (c[i].high + c[j].low)

AveragesMatch(c, x) ==
    LET v == Closes(c)   n == P.ema_cross.slow
    IN /\ x.sma # <<>> => Latest(x.sma) = MeanOfLatest(v, P.bollinger_bands.period)
       /\ x.ema_slow # <<>> => Power(n + 1, Len(v) - n) * Latest(x.ema_slow) = WeightedSum(v, n)
LinesMatch(c, x) ==
    LET macd == LineOfBars(Closes(c), P.macd_cross.fast, P.macd_cross.slow, 1)
        hull == LineOfBars(Closes(c), P.hull_ma.half, P.hull_ma.period, 2)
    IN /\ x.macd_cross # <<>> =>
             LET cur == Latest(x.macd_cross)
             IN /\ cur.macd = Latest(macd) /\ cur.signal = Latest(EMA(macd, P.macd_cross.signal))
                /\ cur.histogram = cur.macd - cur.signal
       /\ x.hull_ma # <<>> => Latest(x.hull_ma) = Latest(EMA(hull, P.hull_ma.root))
BandMatches(c, x) ==
    LET n == P.keltner_channel.period   cur == Latest(x.keltner_channel)
        width == Over(P.keltner_channel.halves * Latest(EMA(TrueRanges(c), n)), 2)
    IN x.keltner_channel # <<>> =>
          /\ cur.middle = Latest(EMA(Closes(c), n))
          /\ cur.upper = cur.middle + width /\ cur.lower = cur.middle - width
          /\ cur.lower <= cur.upper
CloudMatches(c, x) ==
    LET cur == Latest(x.ichimoku)
    IN x.ichimoku # <<>> =>
          /\ Len(c) >= P.ichimoku.tenkan =>
                IsMidpoint(c, cur.tenkan, P.ichimoku.tenkan) /\ 2 * cur.senkouA = cur.tenkan + cur.kijun
          /\ IsMidpoint(c, cur.kijun, P.ichimoku.kijun) /\ IsMidpoint(c, cur.senkouB, P.ichimoku.senkou)
          /\ cur.chikou = Scale * Price(c)
OscillatorsMatch(c, x) ==
    LET Within(s, Value(_)) == \A i \in DOMAIN s : Value(s[i]).n \in 0..Value(s[i]).d
        n == P.dmi_adx.period
    IN /\ Within(x.rsi_mean_revert, LAMBDA r : r) /\ Within(x.williams_r, LAMBDA r : r)
       /\ Within(x.stoch_rsi, LAMBDA r : r.k)     /\ Within(x.stoch_rsi, LAMBDA r : r.d)
       /\ Within(x.dmi_adx, LAMBDA r : r.adx)
       /\ x.dmi_adx # <<>> => /\ Latest(x.dmi_adx).plusDI = Latest(Smooth(PlusMoves(c), n))
                              /\ Latest(x.dmi_adx).minusDI = Latest(Smooth(MinusMoves(c), n))

\* The latest values are what the indicators' definitions say, of the latest bar:
\* the running sum of the SMA is the sum of its window and the recursion of the EMA a
\* weighted sum; the MACD, the lines that its signal and the Hull average go over, the Keltner
\* bands and the directional movements combine values of the same bar, although the series
\* differ in length; the Ichimoku lines are midpoints of the latest candles; and
\* oscillators stay within their range.
MatchesReference ==
    /\ AveragesMatch(candles, series) /\ LinesMatch(candles, series)
    /\ BandMatches(candles, series)   /\ CloudMatches(candles, series)
    /\ OscillatorsMatch(candles, series)

\* A trailing stop is where a stop belongs: the parabolic SAR below the bar
\* of a long trend and above that of a short one, the Supertrend on the far
\* side of the close; and it never moves away from the price within a trend.
Ratchets(x, from, value(_)) ==
    \A i \in from..(Len(x) - 1) :
       x[i].long = x[i + 1].long =>
          IF x[i].long THEN value(x[i]) <= value(x[i + 1]) ELSE value(x[i]) >= value(x[i + 1])
StopsOnTheirSide ==
    LET sar == series.parabolic_sar   st == series.supertrend
        bar == Latest(candles)
    IN /\ sar # <<>> => IF Latest(sar).long THEN Latest(sar).sar <= Scale * bar.low
                                             ELSE Latest(sar).sar >= Scale * bar.high
       /\ Len(st) >= 2 => IF Latest(st).long THEN Latest(st).value <= Scale * bar.close
                                             ELSE Latest(st).value >= Scale * bar.close
       /\ Ratchets(sar, 1, LAMBDA p : p.sar)
       /\ Ratchets(st, 2, LAMBDA p : p.value)

\* The market turned upside down about Centre.
Upside(k) == [open |-> 2 * Centre - k.open, high |-> 2 * Centre - k.low,
              low |-> 2 * Centre - k.high, close |-> 2 * Centre - k.close, volume |-> k.volume]
Opposite(v) == CASE v = Long -> Short [] v = Short -> Long [] OTHER -> v

\* The strategies without a preference for one side.  The others measure moves
\* relative to a price, or only ever buy (arb_spread).
Even == {"ichimoku", "rsi_mean_revert", "macd_cross", "bollinger_bands", "ema_cross", "scalp_ob",
         "trend_follow", "breakout", "mean_revert_z", "dual_thrust", "supertrend", "williams_r",
         "dmi_adx", "parabolic_sar", "hull_ma", "keltner_channel", "donchian"}

\* Where a tie goes to one side by the code's choice: no close has moved (RSI 100), neither
\* direction leads, the first two closes are equal, no trend has broken a band yet.
Tie(s, x, y) ==
    CASE s = "rsi_mean_revert" -> \A i \in DOMAIN candles : candles[i].close = candles[1].close
      [] s = "dmi_adx"       -> Latest(x.dmi_adx).plusDI = Latest(x.dmi_adx).minusDI
      [] s = "hull_ma"       -> Latest(x.hull_ma) = Before(x.hull_ma)
      [] s = "parabolic_sar" -> candles[1].close = candles[2].close
      [] s = "supertrend"    -> \A i \in 1..(Len(x.supertrend) - 1) :
                                   x.supertrend[i].long /\ y.supertrend[i].long
      [] OTHER               -> FALSE

\* Turned upside down, a market gets the opposite vote from every even strategy
\* but for the ties: no comparison, sign or band of one side is missing or swapped.
MirrorSymmetric ==
    up => LET c == [i \in DOMAIN candles |-> Upside(candles[i])]
              x == Series(c)
              v == Votes(c, x, [bids |-> book.asks, asks |-> book.bids])
          IN c # <<>> => \A s \in Even : v[s] = Opposite(votes[s]) \/ Tie(s, series, x)

\* A strategy only panics, and takes the bot with it, for want of data: no candle at
\* all, none that has traded, or one that closed at 0.  Too few candles, an empty side
\* of the book, a market that stands still never make one divide by zero.
DiesOnlyWithoutData ==
    ~up => \/ \A i \in DOMAIN candles : candles[i].volume = 0
           \/ \E i \in DOMAIN candles : candles[i].close = 0
=============================================================================
