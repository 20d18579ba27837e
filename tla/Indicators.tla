------------------------------ MODULE Indicators ------------------------------
(***************************************************************************)
(* internal/indicators: pure functions of a sequence of candles, oldest    *)
(* first.  A candle is [open, high, low, close, volume] in whole ticks.    *)
(* What the code divides is scaled by Scale beforehand, so that decimals   *)
(* are exact integers here; oscillators are fractions in lowest terms.     *)
(* The empty series stands for nil.                                        *)
(***************************************************************************)
EXTENDS Integers, SequencesExt

CONSTANT Scale
ASSUME ScaleAssumption == Scale \in Nat \ {0}

\* x / n, which has to come out: Scale must be a multiple of what is divided by.
Over(x, n) == CHOOSE q \in {x \div n} : q * n = x
Higher(a, b) == IF a > b THEN a ELSE b
Lower(a, b)  == IF a < b THEN a ELSE b
Distance(a, b) == Higher(a, b) - Lower(a, b)
Total(v) == FoldLeft(LAMBDA a, b : a + b, 0, v)
\* One value for each window of n elements of v.
Windows(v, n, F(_)) ==
    IF Len(v) < n THEN <<>> ELSE [i \in 1..(Len(v) - n + 1) |-> F(SubSeq(v, i, i + n - 1))]
Rest(v, n) == SubSeq(v, n + 1, Len(v))   \* v without its first n elements
Latest(v) == v[Len(v)]
Before(v) == v[Len(v) - 1]

\* Fractions n / d, for 0 <= n and 0 < d.
gcd[y \in Nat] == [x \in Nat |-> IF y = 0 THEN x ELSE gcd[x % y][y]]
Frac(n, d) == LET g == gcd[d][n] IN [n |-> n \div g, d |-> d \div g]
Zero == Frac(0, 1)
One  == Frac(1, 1)
Less(a, b) == a.n * b.d < b.n * a.d
Plus(a, b) ==
    LET g == gcd[b.d][a.d] IN Frac(a.n * (b.d \div g) + b.n * (a.d \div g), a.d * (b.d \div g))
Minus(a, b) ==
    LET g == gcd[b.d][a.d] IN Frac(a.n * (b.d \div g) - b.n * (a.d \div g), a.d * (b.d \div g))
Times(a, k) == Frac(a.n * k, a.d)
Divided(a, b) == Frac(a.n * b.d, a.d * b.n)
Mean(S) == Divided(FoldLeft(Plus, Zero, S), Frac(Len(S), 1))

Closes(c) == [i \in DOMAIN c |-> Scale * c[i].close]
HighestHigh(w) == FoldLeft(LAMBDA a, b : Higher(a, b.high), w[1].high, w)
LowestLow(w)   == FoldLeft(LAMBDA a, b : Lower(a, b.low), w[1].low, w)

-----------------------------------------------------------------------------
\* Averages.

\* Simple moving average, by a running sum.
RunningSums(v, n) ==
    FoldLeft(LAMBDA s, i : Append(s, Latest(s) + v[i] - v[i - n]),
             <<Total(SubSeq(v, 1, n))>>, [j \in 1..(Len(v) - n) |-> n + j])
SMA(v, n) ==
    IF Len(v) < n THEN <<>>
    ELSE LET sums == RunningSums(v, n) IN [i \in DOMAIN sums |-> Over(sums[i], n)]

\* Exponential moving average with k = 2/(n+1), seeded with the first mean; a
\* mutant seeds it with the mean of the latest values.
EMALateSeed(v, n) ==
    IF Len(v) < n THEN <<>>
    ELSE FoldLeft(LAMBDA s, x : Append(s, Over(2 * x + (n - 1) * Latest(s), n + 1)),
                  <<Over(Total(SubSeq(v, Len(v) - n + 1, Len(v))), n)>>, Rest(v, n))
EMA(v, n) ==
    IF Len(v) < n THEN <<>>
    ELSE FoldLeft(LAMBDA s, x : Append(s, Over(2 * x + (n - 1) * Latest(s), n + 1)),
                  <<Over(Total(SubSeq(v, 1, n)), n)>>, Rest(v, n))

\* A line minus another one, aligned at the latest candle; a mutant aligns the first values.
DifferenceAtStart(a, b, weight) == [i \in DOMAIN b |-> weight * a[i] - b[i]]
Difference(a, b, weight) ==
    [i \in DOMAIN b |-> weight * a[i + Len(a) - Len(b)] - b[i]]

MACD(c, fast, slow, signal) ==
    LET f == EMA(Closes(c), fast)   s == EMA(Closes(c), slow)
    IN IF f = <<>> \/ s = <<>> THEN <<>>
       ELSE LET line == Difference(f, s, 1)   sig == EMA(line, signal)
            IN [i \in DOMAIN sig |->
                  LET m == line[i + Len(line) - Len(sig)]
                  IN [macd |-> m, signal |-> sig[i], histogram |-> m - sig[i]]]

HullMA(c, n, half, root) ==    \* half = n/2, root = round(sqrt(n))
    LET a == EMA(Closes(c), half)   b == EMA(Closes(c), n)
    IN IF a = <<>> \/ b = <<>> THEN <<>> ELSE EMA(Difference(a, b, 2), root)

\* Middle, and the square of the deviation, both times n (so that no root is taken).
Band(w, n) ==
    [middle |-> Total(w),
     squares |-> Total([j \in DOMAIN w |-> (n * w[j] - Total(w)) * (n * w[j] - Total(w))])]
BollingerBands(c, n) == Windows([i \in DOMAIN c |-> c[i].close], n, LAMBDA w : Band(w, n))

-----------------------------------------------------------------------------
\* Ranges and channels.

TrueRange(c, i) ==
    Higher(c[i].high - c[i].low,
           Higher(c[i].high - c[i - 1].close, c[i - 1].close - c[i].low))
TrueRanges(c) == [i \in 1..(Len(c) - 1) |-> Scale * TrueRange(c, i + 1)]
ATR(c, n) ==
    IF Len(c) < n + 1 THEN <<>>
    ELSE EMA(TrueRanges(c), n)

KeltnerChannel(c, n, halves) ==    \* halves = twice atrMult
    LET atr == ATR(c, n)   ema == EMA(Closes(c), n)
    IN [i \in DOMAIN atr |->
          LET mid == ema[i + Len(ema) - Len(atr)]   band == Over(halves * atr[i], 2)
          IN [upper |-> mid + band, middle |-> mid, lower |-> mid - band]]

\* A mutant leaves the open bar out.
Channel(w) == [upper |-> HighestHigh(w), lower |-> LowestLow(w)]
DonchianChannelClosed(c, n) == IF c = <<>> THEN <<>> ELSE Windows(Front(c), n, Channel)
DonchianChannel(c, n) == Windows(c, n, Channel)

\* The share of the range above the close, 0 .. 1.
AboveClose(w) ==
    LET h == HighestHigh(w)   l == LowestLow(w)
    IN IF h = l THEN Frac(1, 2) ELSE Frac(h - Latest(w).close, h - l)
WilliamsR(c, n) == Windows(c, n, AboveClose)

\* Price times volume, and volume, of all candles (typical price times 3).
VWAP(c) ==
    [pv  |-> Total([i \in DOMAIN c |-> (c[i].high + c[i].low + c[i].close) * c[i].volume]),
     vol |-> 3 * Total([i \in DOMAIN c |-> c[i].volume])]

Midpoint(c, from, to) ==
    LET w == SubSeq(c, from, to) IN Over(Scale * (HighestHigh(w) + LowestLow(w)), 2)
Ichimoku(c, tenkan, kijun, senkou) ==
    IF Len(c) < senkou THEN <<>>
    ELSE [k \in 1..(Len(c) - kijun + 1) |->
            LET i == k + kijun - 1
                t == IF i >= tenkan THEN Midpoint(c, i - tenkan + 1, i) ELSE 0
                j == Midpoint(c, i - kijun + 1, i)
            IN [tenkan |-> t, kijun |-> j,
                senkouA |-> IF i >= tenkan THEN Over(t + j, 2) ELSE 0,
                senkouB |-> IF i >= senkou THEN Midpoint(c, i - senkou + 1, i) ELSE 0,
                chikou |-> Scale * c[i].close]]

-----------------------------------------------------------------------------
\* Oscillators.  Averages of gains and losses are scaled; percentages are shares.

Share(gain, loss) == IF loss = 0 THEN One ELSE Frac(gain, gain + loss)
Gains(c)  == [i \in 1..(Len(c) - 1) |-> Scale * Higher(c[i + 1].close - c[i].close, 0)]
Losses(c) == [i \in 1..(Len(c) - 1) |-> Scale * Higher(c[i].close - c[i + 1].close, 0)]
Wilder(v, n) ==
    FoldLeft(LAMBDA s, x : Append(s, Over((n - 1) * Latest(s) + x, n)),
             <<Over(Total(SubSeq(v, 1, n)), n)>>, Rest(v, n))
RSI(c, n) ==
    IF Len(c) < n + 1 THEN <<>>
    ELSE LET g == Wilder(Gains(c), n)   l == Wilder(Losses(c), n)
         IN [i \in DOMAIN g |-> Share(g[i], l[i])]

\* Where the latest value is between the lowest and the highest one.
Stoch(w) ==
    LET lo == FoldLeft(LAMBDA a, b : IF Less(b, a) THEN b ELSE a, w[1], w)
        hi == FoldLeft(LAMBDA a, b : IF Less(a, b) THEN b ELSE a, w[1], w)
    IN IF hi = lo THEN Zero ELSE Divided(Minus(Latest(w), lo), Minus(hi, lo))
KD(w) == [k |-> Latest(w), d |-> Mean(w)]
StochRSI(c, n, kPeriod, dPeriod) == Windows(Windows(RSI(c, n), kPeriod, Stoch), dPeriod, KD)

\* What a candle's high and low have moved beyond those of the one before.
Up(c, i)   == c[i + 1].high - c[i].high
Down(c, i) == c[i].low - c[i + 1].low
PlusMoves(c) ==
    [i \in 1..(Len(c) - 1) |-> Scale * IF Up(c, i) > Down(c, i) /\ Up(c, i) > 0 THEN Up(c, i) ELSE 0]
MinusMoves(c) ==
    [i \in 1..(Len(c) - 1) |-> Scale * IF Down(c, i) > Up(c, i) /\ Down(c, i) > 0 THEN Down(c, i) ELSE 0]
Smooth(v, n) ==
    FoldLeft(LAMBDA s, x : Append(s, Latest(s) - Over(Latest(s), n) + x),
             <<Total(SubSeq(v, 1, n))>>, Rest(v, n))
AverageDX(dx, n) ==
    FoldLeft(LAMBDA s, x : Append(s, Divided(Plus(Times(Latest(s), n - 1), x), Frac(n, 1))),
             <<Mean(SubSeq(dx, 1, n))>>, Rest(dx, n))
ADX(c, n) ==
    IF Len(c) < 2 * n THEN <<>>
    ELSE LET tr == Smooth(TrueRanges(c), n)
             plus == Smooth(PlusMoves(c), n)   minus == Smooth(MinusMoves(c), n)
             dx == [i \in DOMAIN tr |->
                      IF tr[i] = 0 \/ plus[i] + minus[i] = 0 THEN Zero
                      ELSE Frac(Distance(plus[i], minus[i]), plus[i] + minus[i])]
             adx == AverageDX(dx, n)
         IN [i \in DOMAIN adx |->
               [adx |-> adx[i], plusDI |-> plus[i + n - 1], minusDI |-> minus[i + n - 1]]]

-----------------------------------------------------------------------------
\* Trailing stops.

\* The acceleration is in units of 1/par.unit.  A mutant turns at the extreme
\* before this candle.
SARStepOldExtreme(p, c, par) ==
    LET sar == p.sar + Over(p.af * (p.ep - p.sar), par.unit)
        hit == IF p.long THEN Scale * c.low < sar ELSE Scale * c.high > sar
    IN IF hit
       THEN [sar |-> p.ep, long |-> ~p.long, af |-> par.step,
             ep |-> IF p.long THEN Scale * c.low ELSE Scale * c.high]
       ELSE [p EXCEPT !.sar = sar]
SARStep(p, c, par) ==
    LET sar == p.sar + Over(p.af * (p.ep - p.sar), par.unit)
        ep  == IF p.long THEN Higher(p.ep, Scale * c.high) ELSE Lower(p.ep, Scale * c.low)
        hit == IF p.long THEN Scale * c.low < sar ELSE Scale * c.high > sar
    IN IF hit
       THEN [sar |-> ep, long |-> ~p.long, af |-> par.step,
             ep |-> IF p.long THEN Scale * c.low ELSE Scale * c.high]
       ELSE [sar |-> sar, long |-> p.long, ep |-> ep,
             af |-> IF ep # p.ep THEN Lower(p.af + par.step, par.max) ELSE p.af]
SARStart(a, b, par) ==
    LET long == b.close > a.close
        h == Scale * a.high   l == Scale * a.low
    IN [long |-> long, af |-> par.step, sar |-> IF long THEN l ELSE h, ep |-> IF long THEN h ELSE l]
ParabolicSAR(c, par) ==
    IF Len(c) < 2 THEN <<>>
    ELSE FoldLeft(LAMBDA s, x : Append(s, SARStep(Latest(s), x, par)),
                  <<SARStart(c[1], c[2], par)>>, Tail(c))

SupertrendStep(p, prevClose, c, ub, lb) ==
    LET u == IF ub < p.upper \/ prevClose > p.upper THEN ub ELSE p.upper
        l == IF lb > p.lower \/ prevClose < p.lower THEN lb ELSE p.lower
        close == Scale * c.close
        long == IF close > u THEN TRUE ELSE IF close < l THEN FALSE ELSE p.long
    IN [upper |-> u, lower |-> l, long |-> long, value |-> IF long THEN l ELSE u]
\* The bands about the middle of a candle, r wide.
SupertrendStart(c, r) ==
    LET mid == Over(Scale * (c.high + c.low), 2)
    IN [upper |-> mid + r, lower |-> mid - r, long |-> TRUE, value |-> mid - r]
SupertrendNext(p, before, c, r) ==
    LET mid == Over(Scale * (c.high + c.low), 2)
    IN SupertrendStep(p, Scale * before.close, c, mid + r, mid - r)
Supertrend(c, n, factor) ==
    LET atr == ATR(c, n)
        offset == Len(c) - Len(atr)
    IN IF atr = <<>> THEN <<>>
       ELSE FoldLeft(LAMBDA s, i : Append(s, SupertrendNext(Latest(s), c[i + offset - 1], c[i + offset],
                                                             factor * atr[i])),
                     <<SupertrendStart(c[1 + offset], factor * atr[1])>>,
                     [j \in 1..(Len(atr) - 1) |-> j + 1])
=============================================================================
