------------------------------ MODULE Strategies ------------------------------
(***************************************************************************)
(* internal/strategies/all_strategies.go: what each of the 22 registered   *)
(* strategies votes, given candles c, the series x that it asks of the     *)
(* indicators for c, and an order book; and aggregateSignals, which weighs *)
(* the votes by their confidence.  A vote "PANIC" is a run-time panic.     *)
(***************************************************************************)
EXTENDS Indicators

CONSTANT P   \* the parameters the strategies are registered with, by strategy

\* Every window has a candle; what is subtracted is the shorter series, which begins later.
ASSUME ParametersOK ==
    /\ {P.ichimoku.tenkan, P.ichimoku.kijun, P.ichimoku.senkou, P.rsi_mean_revert.period,
        P.macd_cross.fast, P.macd_cross.slow, P.macd_cross.signal, P.bollinger_bands.period,
        P.ema_cross.fast, P.ema_cross.slow, P.trend_follow.period, P.supertrend.period,
        P.williams_r.period, P.stoch_rsi.period, P.stoch_rsi.k, P.stoch_rsi.d, P.dmi_adx.period,
        P.hull_ma.period, P.hull_ma.half, P.hull_ma.root, P.keltner_channel.period,
        P.donchian.period, P.momentum.period} \subseteq Nat \ {0}
    /\ P.ichimoku.kijun <= P.ichimoku.senkou
    /\ P.macd_cross.fast <= P.macd_cross.slow
    /\ P.hull_ma.half <= P.hull_ma.period

Long == "LONG"
Short == "SHORT"
Flat == "FLAT"
Panic == "PANIC"

\* The series of each strategy's indicator.
Series(c) ==
    [ichimoku        |-> Ichimoku(c, P.ichimoku.tenkan, P.ichimoku.kijun, P.ichimoku.senkou),
     rsi_mean_revert |-> RSI(c, P.rsi_mean_revert.period),
     macd_cross      |-> MACD(c, P.macd_cross.fast, P.macd_cross.slow, P.macd_cross.signal),
     bollinger_bands |-> BollingerBands(c, P.bollinger_bands.period),
     ema_fast        |-> EMA(Closes(c), P.ema_cross.fast),
     ema_slow        |-> EMA(Closes(c), P.ema_cross.slow),
     sma             |-> SMA(Closes(c), P.bollinger_bands.period),
     atr             |-> ATR(c, P.trend_follow.period),
     supertrend      |-> Supertrend(c, P.supertrend.period, P.supertrend.factor),
     williams_r      |-> WilliamsR(c, P.williams_r.period),
     stoch_rsi       |-> StochRSI(c, P.stoch_rsi.period, P.stoch_rsi.k, P.stoch_rsi.d),
     dmi_adx         |-> ADX(c, P.dmi_adx.period),
     parabolic_sar   |-> ParabolicSAR(c, P.parabolic_sar),
     hull_ma         |-> HullMA(c, P.hull_ma.period, P.hull_ma.half, P.hull_ma.root),
     keltner_channel |-> KeltnerChannel(c, P.keltner_channel.period, P.keltner_channel.halves),
     donchian        |-> DonchianChannel(c, P.donchian.period)]

\* A vote: nothing without enough data, else what holds first.
Vote(enough, long, short) ==
    IF ~enough THEN Flat ELSE IF long THEN Long ELSE IF short THEN Short ELSE Flat
Price(c) == Latest(c).close
Window(c, n) == SubSeq(c, Len(c) - n, Len(c) - 1)   \* the n candles before the latest

-----------------------------------------------------------------------------
\* Trend and channel strategies.

\* A fresh tenkan/kijun cross only changes the reason given, not the vote.
IchimokuVote(c, x) ==
    LET cur == Latest(x)
        price == Scale * Price(c)
        above == price > Higher(cur.senkouA, cur.senkouB)
        below == price < Lower(cur.senkouA, cur.senkouB)
    IN IF c = <<>> THEN Panic     \* candles[len(candles)-1]
       ELSE Vote(Len(x) >= 2, above /\ cur.tenkan > cur.kijun, below /\ cur.tenkan < cur.kijun)

MACDVote(x) ==
    LET cur == Latest(x).histogram   prev == Before(x).histogram
    IN Vote(Len(x) >= 2, cur > 0 /\ prev < 0, cur < 0 /\ prev > 0)

EMACrossVote(f, s) ==
    Vote(Len(f) >= 2 /\ Len(s) >= 2,
         Latest(f) > Latest(s) /\ Before(f) <= Before(s),
         Latest(f) < Latest(s) /\ Before(f) >= Before(s))

TrendFollowVote(c, atr) ==
    LET move == Scale * (Price(c) - Before(c).close)
        band == P.trend_follow.mult * Latest(atr)
    IN Vote(Len(atr) >= 2, move > band, -move > band)

BreakoutVote(c) ==
    LET w == Window(c, P.breakout.lookback)
    IN Vote(Len(c) > P.breakout.lookback, Price(c) > HighestHigh(w), Price(c) < LowestLow(w))

\* k1 and k2 in tenths.  A mutant takes only one of the two ranges.
DualThrustVoteOneRange(c) ==
    LET w  == Window(c, P.dual_thrust.lookback)
        lc == FoldLeft(LAMBDA a, b : Lower(a, b.close), w[1].close, w)
        range == HighestHigh(w) - lc
        move  == 10 * (Price(c) - Latest(c).open)
    IN Vote(Len(c) > P.dual_thrust.lookback,
            move > P.dual_thrust.k1 * range, -move > P.dual_thrust.k2 * range)
DualThrustVote(c) ==
    LET w  == Window(c, P.dual_thrust.lookback)
        lc == FoldLeft(LAMBDA a, b : Lower(a, b.close), w[1].close, w)
        hc == FoldLeft(LAMBDA a, b : Higher(a, b.close), w[1].close, w)
        range == Higher(HighestHigh(w) - lc, hc - LowestLow(w))
        move  == 10 * (Price(c) - Latest(c).open)
    IN Vote(Len(c) > P.dual_thrust.lookback,
            move > P.dual_thrust.k1 * range, -move > P.dual_thrust.k2 * range)

KeltnerVote(c, x) ==
    Vote(x # <<>>, Scale * Price(c) > Latest(x).upper, Scale * Price(c) < Latest(x).lower)
DonchianVote(c, x) ==
    Vote(Len(x) >= 2, Price(c) > Before(x).upper, Price(c) < Before(x).lower)

\* A side that has just changed.
FlipVote(x) ==
    Vote(Len(x) >= 2, Latest(x).long /\ ~Before(x).long, ~Latest(x).long /\ Before(x).long)
SupertrendVote(x)   == FlipVote(x)
ParabolicSARVote(x) == FlipVote(x)

HullVote(x) == Vote(Len(x) >= 2, Latest(x) > Before(x), TRUE)

ADXVote(x) ==
    LET cur == Latest(x)
    IN Vote(Len(x) >= 2 /\ ~Less(cur.adx, Frac(P.dmi_adx.threshold, 100)),
            cur.plusDI > cur.minusDI, TRUE)

-----------------------------------------------------------------------------
\* Mean reversion.

RSIVote(x) ==
    Vote(x # <<>>, ~Less(Frac(P.rsi_mean_revert.oversold, 100), Latest(x)),
                   ~Less(Latest(x), Frac(P.rsi_mean_revert.overbought, 100)))

\* More than mult standard deviations below or above the mean of n closes.
Far(price, band, n, mult) == n * (n * price - band.middle) * (n * price - band.middle)
                               > mult * mult * band.squares
BollingerVote(c, x) ==
    LET n == P.bollinger_bands.period   band == Latest(x)
        far == Far(Price(c), band, n, P.bollinger_bands.mult)
    IN Vote(Len(x) >= 2, n * Price(c) < band.middle /\ far, n * Price(c) > band.middle /\ far)
MeanRevertZVote(c) ==
    LET n == P.mean_revert_z.period
        band == Latest(BollingerBands(c, n))
        far == Far(Price(c), band, n, P.mean_revert_z.threshold)
    IN Vote(Len(c) >= n /\ band.squares # 0,
            n * Price(c) < band.middle /\ far, n * Price(c) > band.middle /\ far)

\* The share of the range above the close; the code's value is -100 times that.
WilliamsVote(x) ==
    Vote(x # <<>>, ~Less(Latest(x), Frac(P.williams_r.oversold, 100)),
                   ~Less(Frac(P.williams_r.overbought, 100), Latest(x)))

StochRSIVote(x) ==
    LET cur == Latest(x)   prev == Before(x)
    IN Vote(Len(x) >= 2,
            Less(cur.d, cur.k) /\ ~Less(prev.d, prev.k) /\ Less(cur.k, Frac(20, 100)),
            Less(cur.k, cur.d) /\ ~Less(prev.k, prev.d) /\ Less(Frac(80, 100), cur.k))

\* A VWAP of 0, for want of volume or of a price, makes Div(vwap) panic.
VWAPRevertVote(c) ==
    LET v == VWAP(c)   price == v.vol * Price(c)
    IN IF Len(c) < P.vwap_revert.bars THEN Flat
       ELSE IF v.vol = 0 \/ v.pv = 0 THEN Panic
       ELSE IF 1000 * Distance(price, v.pv) > 15 * v.pv
            THEN IF price < v.pv THEN Long ELSE Short
            ELSE Flat

\* Div(past) panics if the past close is 0.
MomentumVote(c) ==
    LET past == c[Len(c) - P.momentum.period].close   move == 100 * (Price(c) - past)
    IN IF Len(c) > P.momentum.period /\ past = 0 THEN Panic
       ELSE Vote(Len(c) > P.momentum.period, move > 2 * past, -move > 2 * past)

\* At least one grid line of 0.5 % between the first close and the latest.  The logarithm of
\* a ratio with a close of 0 is infinite or NaN; on amd64 (Dockerfile:18) its
\* conversion to int is negative, so there are no crossings.
GridVote(c) ==
    LET ref == c[1].close   cur == Price(c)
    IN Vote(Len(c) >= 2 /\ ref # 0 /\ cur # 0, 1000 * cur >= 1005 * ref, 1005 * cur <= 1000 * ref)

-----------------------------------------------------------------------------
\* Order book strategies.  A book has bids and asks, best first, as <<price, quantity>>.

Volume(side, depth) == Total([i \in 1..Lower(depth, Len(side)) |-> side[i][2]])
ScalpVote(b) ==
    LET bid == Volume(b.bids, P.scalp_ob.depth)   ask == Volume(b.asks, P.scalp_ob.depth)
    IN Vote(bid + ask # 0, 10 * (bid - ask) > 4 * (bid + ask), 10 * (ask - bid) > 4 * (bid + ask))

OneSided(b) == b.bids = <<>> \/ b.asks = <<>>     \* the mid price is 0
WideSpread(b) == LET bid == b.bids[1][1]   ask == b.asks[1][1]
                 IN 2000 * (ask - bid) > bid + ask
\* A mutant that divides by the mid price without asking whether there is one.
ArbVoteUnguarded(b) == IF OneSided(b) THEN Panic ELSE Vote(TRUE, WideSpread(b), FALSE)
ArbVote(b) == Vote(~OneSided(b), WideSpread(b), FALSE)

-----------------------------------------------------------------------------
Votes(c, x, b) ==
    [ichimoku        |-> IchimokuVote(c, x.ichimoku),
     rsi_mean_revert |-> RSIVote(x.rsi_mean_revert),
     macd_cross      |-> MACDVote(x.macd_cross),
     bollinger_bands |-> BollingerVote(c, x.bollinger_bands),
     ema_cross       |-> EMACrossVote(x.ema_fast, x.ema_slow),
     vwap_revert     |-> VWAPRevertVote(c),
     momentum        |-> MomentumVote(c),
     scalp_ob        |-> ScalpVote(b),
     grid            |-> GridVote(c),
     trend_follow    |-> TrendFollowVote(c, x.atr),
     breakout        |-> BreakoutVote(c),
     mean_revert_z   |-> MeanRevertZVote(c),
     dual_thrust     |-> DualThrustVote(c),
     supertrend      |-> SupertrendVote(x.supertrend),
     williams_r      |-> WilliamsVote(x.williams_r),
     stoch_rsi       |-> StochRSIVote(x.stoch_rsi),
     dmi_adx         |-> ADXVote(x.dmi_adx),
     parabolic_sar   |-> ParabolicSARVote(x.parabolic_sar),
     hull_ma         |-> HullVote(x.hull_ma),
     keltner_channel |-> KeltnerVote(c, x.keltner_channel),
     donchian        |-> DonchianVote(c, x.donchian),
     arb_spread      |-> ArbVote(b)]

\* Confidence of a vote that is not flat, in percent.
Confidence(b) ==
    [ichimoku |-> 75, rsi_mean_revert |-> 70, macd_cross |-> 68, bollinger_bands |-> 65,
     ema_cross |-> 70, vwap_revert |-> 60, momentum |-> 62, grid |-> 58, trend_follow |-> 72,
     breakout |-> 73, mean_revert_z |-> 66, dual_thrust |-> 71, supertrend |-> 74,
     williams_r |-> 65, stoch_rsi |-> 67, dmi_adx |-> 68, parabolic_sar |-> 69, hull_ma |-> 63,
     keltner_channel |-> 67, donchian |-> 70, arb_spread |-> 55,
     scalp_ob |-> LET bid == Volume(b.bids, P.scalp_ob.depth)
                      ask == Volume(b.asks, P.scalp_ob.depth)
                  IN 55 + IF bid + ask = 0 THEN 0 ELSE Over(20 * Distance(bid, ask), bid + ask)]

\* The consensus of the votes.  The code adds floats in the order in which the
\* strategies' goroutines end: equal sums may come out either way.
Weight(votes, side, b) ==
    FoldFunctionOnSet(LAMBDA w, a : a + w, 0, Confidence(b), {s \in DOMAIN votes : votes[s] = side})
Aggregate(votes, b) ==
    LET long == Weight(votes, Long, b)   short == Weight(votes, Short, b)
    IN IF long = 0 /\ short = 0 THEN {Flat}
       ELSE (IF long >= short THEN {Long} ELSE {}) \cup (IF short >= long THEN {Short} ELSE {})
=============================================================================
