------------------------------- MODULE Backtest -------------------------------
(***************************************************************************)
(* internal/backtest/backtest.go: the replay of a strategy over candles,   *)
(* one step per bar, and the report made of it.  Closes and signals are    *)
(* anything the market and the strategy come up with; amounts are whole    *)
(* units, quantities, fees and slippage rounded down.                      *)
(***************************************************************************)
EXTENDS Integers, SequencesExt

CONSTANTS Closes,         \* closing prices of a bar
          Bars,           \* bars after the warm-up
          InitialCapital,
          PositionSizePct, \* share of the equity that goes into a position
          FeePct, SlippagePct, StopLossPct, TakeProfitPct

ASSUME BacktestConstantsOK ==
    /\ Closes \subseteq Nat \ {0}
    /\ Bars \in Nat \ {0} /\ InitialCapital \in Nat \ {0}
    /\ PositionSizePct \in 1..100
    /\ FeePct \in 0..99 /\ SlippagePct \in 0..99
    /\ StopLossPct \in Nat /\ TakeProfitPct \in Nat

VARIABLES
    closes,  \* closes of the bars replayed so far
    equity,
    pos,     \* the open position, or NoPosition
    trades,  \* closed trades, in order
    curve,   \* equity after each bar
    ended    \* the replay is over and any open position closed

vars == <<closes, equity, pos, trades, curve, ended>>

Sides == {"LONG", "SHORT"}
NoPosition == [side |-> "FLAT", entry |-> 0, qty |-> 0, bar |-> 0]

Init ==
    /\ closes = <<>> /\ equity = InitialCapital /\ pos = NoPosition
    /\ trades = <<>> /\ curve = <<>> /\ ended = FALSE

Percent(p, n) == (p * n) \div 100
Fee(price, qty) == Percent(price * qty, FeePct)
\* What a unit of a position has gained when the price is p.
Gain(q, p) == IF q.side = "LONG" THEN p - q.entry ELSE q.entry - p

\* Slippage is against the trader: up for what is bought, down for what is sold.
Bought(p) == p + Percent(p, SlippagePct)
Sold(p)   == p - Percent(p, SlippagePct)
EntryPrice(side, p) == IF side = "LONG" THEN Bought(p) ELSE Sold(p)
ExitPrice(side, p)  == IF side = "LONG" THEN Sold(p) ELSE Bought(p)

\* A mutant that takes every position for a long one.
StopLossLongOnly(q, p) == 100 * (p - q.entry) <= - StopLossPct * q.entry
StopLossHit(q, p)   == 100 * Gain(q, p) <= - StopLossPct * q.entry
TakeProfitHit(q, p) == 100 * Gain(q, p) >= TakeProfitPct * q.entry

\* Why position q is closed at a close of p and a signal sig, or "hold".
ExitReason(q, p, sig) ==
    IF q = NoPosition           THEN "hold"
    ELSE IF StopLossHit(q, p)   THEN "sl"
    ELSE IF TakeProfitHit(q, p) THEN "tp"
    ELSE IF sig \notin {"FLAT", q.side} THEN "signal_flip" ELSE "hold"

\* The record of a trade closed in a bar, at an exit price.
TradeOf(q, exitPrice, bar, reason) ==
    [side |-> q.side, entry |-> q.entry, qty |-> q.qty, exit |-> exitPrice, from |-> q.bar, to |-> bar,
     pnl |-> q.qty * Gain(q, exitPrice) - Fee(exitPrice, q.qty), reason |-> reason]

\* A mutant that takes FLAT for a signal.
MayOpenFlat(q, sig, eq) == q = NoPosition /\ eq > 0
MayOpen(q, sig, eq) == q = NoPosition /\ sig # "FLAT" /\ eq > 0

\* One pass of the loop: exit, entry, a point of the curve.
Bar(p, sig) ==
    LET i == Len(closes) + 1
        reason == ExitReason(pos, p, sig)
        t == TradeOf(pos, ExitPrice(pos.side, p), i, reason)
        exits == reason # "hold"
        held == IF exits THEN NoPosition ELSE pos
        eq == IF exits THEN equity + t.pnl ELSE equity
        opens == MayOpen(held, sig, eq)
        entry == EntryPrice(sig, p)
        qty == Percent(eq, PositionSizePct) \div entry
    IN  /\ ~ended /\ i <= Bars
        /\ closes' = Append(closes, p)
        /\ trades' = IF exits THEN Append(trades, t) ELSE trades
        /\ pos' = IF opens THEN [side |-> sig, entry |-> entry, qty |-> qty, bar |-> i] ELSE held
        /\ equity' = IF opens THEN eq - Fee(entry, qty) ELSE eq
        /\ curve' = Append(curve, equity')
        /\ UNCHANGED ended

\* A mutant that charges no fee for the forced close.
EndFreely ==
    LET p == Last(closes)
    IN  /\ ~ended /\ Len(closes) = Bars /\ ended' = TRUE
        /\ equity' = IF pos = NoPosition THEN equity ELSE equity + pos.qty * Gain(pos, p)
        /\ trades' = IF pos = NoPosition THEN trades
                     ELSE Append(trades, TradeOf(pos, p, Bars, "end"))
        /\ pos' = NoPosition
        /\ UNCHANGED <<closes, curve>>

\* After the last bar an open position is closed at its close, without slippage;
\* the curve gets no point for it.
End ==
    LET p == Last(closes)
        t == TradeOf(pos, p, Bars, "end")
    IN  /\ ~ended /\ Len(closes) = Bars /\ ended' = TRUE
        /\ equity' = IF pos = NoPosition THEN equity ELSE equity + t.pnl
        /\ trades' = IF pos = NoPosition THEN trades ELSE Append(trades, t)
        /\ pos' = NoPosition
        /\ UNCHANGED <<closes, curve>>

Next == (\E p \in Closes, sig \in Sides \cup {"FLAT"} : Bar(p, sig)) \/ End

Spec == Init /\ [][Next]_vars

-----------------------------------------------------------------------------
(* buildResult *)

\* Drawdowns are fractions; a is larger than b.
Larger(a, b) == a.loss * b.peak > b.loss * a.peak

\* A mutant that measures from the first point of the curve.
DrawdownFromStart(eqs) ==
    FoldLeft(LAMBDA m, eq : LET dd == [loss |-> eqs[1] - eq, peak |-> eqs[1]]
                            IN  IF Larger(dd, m) THEN dd ELSE m,
             [loss |-> 0, peak |-> 1], eqs)

\* The loop that finds the largest drawdown of the curve from its running peak.
MaxDrawdown(eqs) ==
    FoldLeft(LAMBDA a, eq :
                LET peak == IF eq > a.top THEN eq ELSE a.top
                    dd == [loss |-> peak - eq, peak |-> peak]
                IN  [top |-> peak, max |-> IF Larger(dd, a.max) THEN dd ELSE a.max],
             [top |-> eqs[1], max |-> [loss |-> 0, peak |-> 1]], eqs).max

\* Winners and losers, a break-even trade being a loser, with what they made and lost.
WinLoss(ts) ==
    FoldLeft(LAMBDA a, t :
                IF t.pnl > 0 THEN [a EXCEPT !.wins = @ + 1, !.profit = @ + t.pnl]
                             ELSE [a EXCEPT !.losses = @ + 1, !.loss = @ - t.pnl],
             [wins |-> 0, losses |-> 0, profit |-> 0, loss |-> 0], ts)

-----------------------------------------------------------------------------
(* Properties *)

\* Every variable has its type; there is a point of the curve for each bar.
TypeOK ==
    /\ closes \in Seq(Closes) /\ Len(closes) <= Bars
    /\ equity \in Int /\ ended \in BOOLEAN
    /\ pos.side \in Sides \cup {"FLAT"} /\ pos.bar \in 0..Len(closes)
    /\ curve \in Seq(Int) /\ Len(curve) = Len(closes)
    /\ \A t \in ToSet(trades) : t.side \in Sides /\ t.from \in 1..Bars /\ t.to \in 1..Bars

\* Entry fees of the trades and of the open position: they are in no trade's P&L.
EntryFees == FoldLeft(LAMBDA a, t : a + Fee(t.entry, t.qty), Fee(pos.entry, pos.qty), trades)

\* An account without equity holds no position and stays as it is: no fee makes a
\* holder broke, and nothing is opened with what is not there.
RuinIsFinal ==
    \A i \in 1..Len(curve) :
        curve[i] <= 0 => /\ \A j \in i..Len(curve) : curve[j] = curve[i]
                         /\ equity = curve[i] /\ pos = NoPosition

\* What is left is what was there, what the reported trades have made, and the
\* entry fees, which no trade reports: nothing is counted twice or forgotten over
\* any sequence of exits, flips and the forced close, and ruin is final.
LedgerBalances ==
    LET r == WinLoss(trades)
    IN  /\ equity = InitialCapital + r.profit - r.loss - EntryFees
        /\ r.wins + r.losses = Len(trades)
        /\ RuinIsFinal

BeyondLoss(q, bar)   == 100 * Gain(q, closes[bar]) <= - StopLossPct * q.entry
BeyondProfit(q, bar) == 100 * Gain(q, closes[bar]) >= TakeProfitPct * q.entry

\* Positions follow one another: a trade starts no earlier than the one before
\* has ended, and only the forced close may end one in the bar it was opened in.
OneAtATime ==
    /\ \A i \in 1..Len(trades) - 1 : trades[i].to <= trades[i + 1].from
    /\ pos # NoPosition /\ trades # <<>> => Last(trades).to <= pos.bar
    /\ \A t \in ToSet(trades) : t.from < t.to \/ t.reason = "end"

\* A position is closed in the first bar after its entry whose close is at or
\* beyond its stop-loss or take-profit, with that reason, and in no other bar
\* except for a flip or the end; and one position follows the other.
LevelsRespected ==
    /\ OneAtATime
    /\ \A t \in ToSet(trades) :
          /\ \A j \in t.from + 1 .. t.to - 1 : ~BeyondLoss(t, j) /\ ~BeyondProfit(t, j)
          /\ t.reason = "sl" <=> BeyondLoss(t, t.to) /\ t.from < t.to
          /\ t.reason = "tp" => BeyondProfit(t, t.to)
    /\ pos # NoPosition => \A j \in pos.bar + 1 .. Len(closes) :
                              ~BeyondLoss(pos, j) /\ ~BeyondProfit(pos, j)

\* The drawdown of a report with trades is that from some point of the curve to a
\* later one, and no two points have a larger one, as long as the equity has not
\* become negative (from the peak is then not the largest).
DrawdownIsLargest ==
    LET dd == MaxDrawdown(curve)
        Between(i, j) == [loss |-> curve[i] - curve[j], peak |-> curve[i]]
        pairs == {ij \in (DOMAIN curve) \X (DOMAIN curve) :
                     ij[1] <= ij[2] /\ curve[ij[1]] > 0}
    IN  ended /\ trades # <<>> =>
            /\ \A ij \in pairs : curve[ij[2]] >= 0 => ~Larger(Between(ij[1], ij[2]), dd)
            /\ \E ij \in pairs : ~Larger(dd, Between(ij[1], ij[2]))
===============================================================================
