------------------------------ MODULE Journal ------------------------------
(***************************************************************************)
(* internal/journal/journal.go: the NDJSON file of closed trades, the      *)
(* replay that rebuilds trades and statistics when it is opened, and what  *)
(* interrupted writes, crashes and restarts do to both.  Every method runs *)
(* under j.mu, so a step is a whole method.                                *)
(***************************************************************************)
EXTENDS Integers, SequencesExt, FiniteSetsExt

CONSTANTS
    Trades,        \* closed trades, each handed to Record at most once
    PnL,           \* [Trades -> Int], the profit of a trade
    Strategies,
    InitialCapital,  \* what drawdowns are relative to
    StrategyOf,    \* [Trades -> Strategies]
    Torn,          \* bytes that do not parse as one trade
    NoTail         \* no bytes after the last newline

ASSUME JournalConstantsOK ==
    /\ PnL \in [Trades -> Int] /\ StrategyOf \in [Trades -> Strategies]
    /\ IsFiniteSet(Strategies) /\ InitialCapital \in Nat \ {0}
    /\ Torn \notin Trades /\ NoTail \notin Trades \cup {Torn}

VARIABLES
    disk,    \* the newline-terminated lines of the file
    tail,    \* the bytes after the last newline
    up,      \* a process has the journal open
    broken,  \* its bufio.Writer holds an error: every later write fails
    trades,  \* j.trades
    stats,   \* j.stats
    used,    \* trades handed to Record so far
    acked,   \* those for which Record returned nil, in order
    tears    \* writes cut short so far

vars == <<disk, tail, up, broken, trades, stats, used, acked, tears>>

-----------------------------------------------------------------------------
(* Statistics *)

Win(t) == PnL[t] > 0

EmptyStats ==
    [total |-> 0, pnl |-> 0, winners |-> 0, losers |-> 0, grossProfit |-> 0,
     grossLoss |-> 0, largestWin |-> 0, largestLoss |-> 0, maxConsecWins |-> 0,
     maxConsecLoss |-> 0,
     byStrategy |-> [s \in Strategies |-> [trades |-> 0, winners |-> 0, pnl |-> 0]]]

\* The loop over all trades that finds the longest run of wins and of losses;
\* a trade that is no win, a break-even one included, is a loss.
CountStreaks(ts) ==
    FoldLeft(LAMBDA a, t :
                LET w == IF Win(t) THEN a.w + 1 ELSE 0
                    l == IF Win(t) THEN 0 ELSE a.l + 1
                IN  [w |-> w, l |-> l, maxW |-> Max({a.maxW, w}), maxL |-> Max({a.maxL, l})],
             [w |-> 0, l |-> 0, maxW |-> 0, maxL |-> 0], ts)

\* updateStats(t) on statistics s, ts being j.trades with t already appended.
UpdateStats(s, ts, t) ==
    LET p == PnL[t]
        wins == IF Win(t) THEN 1 ELSE 0
        runs == CountStreaks(ts)
        b == s.byStrategy[StrategyOf[t]]
    IN  [total |-> s.total + 1, pnl |-> s.pnl + p,
         winners |-> s.winners + wins, losers |-> s.losers + 1 - wins,
         grossProfit |-> IF Win(t) THEN s.grossProfit + p ELSE s.grossProfit,
         grossLoss |-> IF Win(t) THEN s.grossLoss ELSE s.grossLoss - p,
         largestWin |-> IF Win(t) THEN Max({s.largestWin, p}) ELSE s.largestWin,
         largestLoss |-> IF Win(t) THEN s.largestLoss ELSE Min({s.largestLoss, p}),
         maxConsecWins |-> runs.maxW, maxConsecLoss |-> runs.maxL,
         byStrategy |-> [s.byStrategy EXCEPT ![StrategyOf[t]] =
             [trades |-> b.trades + 1, winners |-> b.winners + wins, pnl |-> b.pnl + p]]]

\* A mutant that takes a new peak for granted after a loss.
DrawdownSeriesFromLast(ts) ==
    FoldLeft(LAMBDA a, t :
                LET eq == a.equity + PnL[t]
                IN  [equity |-> eq, peak |-> a.equity,
                     series |-> Append(a.series, [loss |-> Max({a.equity, eq}) - eq,
                                                  peak |-> Max({a.equity, eq})])],
             [equity |-> InitialCapital, peak |-> InitialCapital, series |-> <<>>], ts).series

\* For each trade the part of the highest equity so far that is gone after it.
DrawdownSeries(ts) ==
    FoldLeft(LAMBDA a, t :
                LET eq == a.equity + PnL[t]
                    peak == Max({a.peak, eq})
                IN  [equity |-> eq, peak |-> peak,
                     series |-> Append(a.series, [loss |-> peak - eq, peak |-> peak])],
             [equity |-> InitialCapital, peak |-> InitialCapital, series |-> <<>>], ts).series

Larger(a, b) == a.loss * b.peak > b.loss * a.peak
MaxDrawdown(ts) ==
    FoldLeft(LAMBDA m, d : IF Larger(d, m) THEN d ELSE m,
             [loss |-> 0, peak |-> 1], DrawdownSeries(ts))

-----------------------------------------------------------------------------
(* The file *)

\* What a replay reads: the lines, and the unterminated rest of the file as one more.
Lines == IF tail = NoTail THEN disk ELSE Append(disk, tail)

\* One line of a replay: a trade is appended and counted, anything else skipped.
ReplayLine(j, line) ==
    IF line \notin Trades THEN j
    ELSE LET ts == Append(j.trades, line)
         IN  [trades |-> ts, stats |-> UpdateStats(j.stats, ts, line)]

\* A mutant that stops at the first line that does not parse.
ReplayUntilCorrupt ==
    LET bad == {i \in DOMAIN Lines : Lines[i] = Torn}
    IN  FoldLeft(ReplayLine, [trades |-> <<>>, stats |-> EmptyStats],
                 IF bad = {} THEN Lines ELSE SubSeq(Lines, 1, Min(bad) - 1))

\* replay: j.trades and j.stats of the file.
Replay == FoldLeft(ReplayLine, [trades |-> <<>>, stats |-> EmptyStats], Lines)

\* A mutant that writes the newline without the record.
AppendedNewlineOnly(t) == tail

\* Appending a whole line: bytes left by a torn write become part of it, and
\* the line is then no trade.
AppendedLine(t) == IF tail = NoTail THEN t ELSE Torn

\* What a write of t's line that is cut short can leave after the last newline;
\* everything but the newline may have got out.
CutShort(t) == IF tail = NoTail THEN {NoTail, Torn, t} ELSE {tail, Torn}

Init ==
    /\ disk = <<>> /\ tail = NoTail
    /\ up = FALSE /\ broken = FALSE
    /\ trades = <<>> /\ stats = EmptyStats
    /\ used = {} /\ acked = <<>> /\ tears = 0

\* A process starts and opens the journal.
Open ==
    /\ ~up /\ up' = TRUE /\ broken' = FALSE
    /\ trades' = Replay.trades /\ stats' = Replay.stats
    /\ UNCHANGED <<disk, tail, used, acked, tears>>

\* Record: write and flush the line, then update the memory.
Record(t) ==
    /\ up /\ ~broken /\ t \notin used
    /\ disk' = Append(disk, AppendedLine(t)) /\ tail' = NoTail
    /\ trades' = Append(trades, t) /\ stats' = UpdateStats(stats, Append(trades, t), t)
    /\ used' = used \cup {t} /\ acked' = Append(acked, t)
    /\ UNCHANGED <<up, broken, tears>>

\* Record whose write fails: the error sticks to the bufio.Writer, the memory
\* is untouched, and some bytes may be in the file.
RecordFails(t) ==
    /\ up /\ ~broken /\ t \notin used
    /\ tail' \in CutShort(t) /\ tears' = tears + 1
    /\ broken' = TRUE /\ used' = used \cup {t}
    /\ UNCHANGED <<disk, up, trades, stats, acked>>

\* Any Record after that returns the sticky error without writing.
RecordRefused(t) ==
    /\ up /\ broken /\ t \notin used
    /\ used' = used \cup {t}
    /\ UNCHANGED <<disk, tail, up, broken, trades, stats, acked, tears>>

\* What a dead process leaves is the file.
Dies == up /\ up' = FALSE /\ broken' = FALSE /\ trades' = <<>> /\ stats' = EmptyStats

\* The process ends between two calls.
Crash == Dies /\ UNCHANGED <<disk, tail, used, acked, tears>>

\* The process or the machine dies inside Record(t), before it returns.
CrashInRecord(t) ==
    /\ Dies /\ ~broken /\ t \notin used /\ used' = used \cup {t}
    /\ \/ /\ disk' = Append(disk, AppendedLine(t)) /\ tail' = NoTail
          /\ UNCHANGED tears
       \/ tail' \in CutShort(t) /\ tears' = tears + 1 /\ UNCHANGED disk
    /\ UNCHANGED acked

Next == \/ Open \/ Crash
        \/ \E t \in Trades : \/ Record(t) \/ RecordFails(t) \/ RecordRefused(t)
                             \/ CrashInRecord(t)

Spec == Init /\ [][Next]_vars

-----------------------------------------------------------------------------
(* Properties *)

StrategyStats == [trades : Nat, winners : Nat, pnl : Int]

\* Every variable has its type; a dead process holds no error.
TypeOK ==
    /\ disk \in Seq(Trades \cup {Torn}) /\ tail \in Trades \cup {Torn, NoTail}
    /\ up \in BOOLEAN /\ broken \in BOOLEAN /\ (~up => ~broken)
    /\ trades \in Seq(Trades) /\ acked \in Seq(Trades) /\ used \subseteq Trades
    /\ stats.byStrategy \in [Strategies -> StrategyStats]
    /\ tears \in Nat

SumOver(S, f) == FoldSet(LAMBDA i, a : f[i] + a, 0, S)
PnLs(ts) == [i \in DOMAIN ts |-> PnL[ts[i]]]
Wins(ts) == {i \in DOMAIN ts : Win(ts[i])}
\* Length of the longest interval of positions up to n that lies in S.
LongestRunIn(S, n) == Max({k \in 0..n : \E i \in 1..n + 1 : i..i + k - 1 \subseteq S})

\* What MaxDrawdown reports of trades ts is the largest part of its value that the
\* equity has lost from one point to a later one, as long as it was not negative
\* there, and no more than it has lost anywhere.
DrawdownIsLargest(ts) ==
    LET At(i) == InitialCapital + SumOver(1..i, PnLs(ts))
        points == {ij \in (0..Len(ts)) \X (0..Len(ts)) : ij[1] <= ij[2] /\ At(ij[1]) > 0}
        Between(ij) == [loss |-> At(ij[1]) - At(ij[2]), peak |-> At(ij[1])]
        dd == MaxDrawdown(ts)
    IN  /\ \A ij \in points : At(ij[2]) >= 0 => ~Larger(Between(ij), dd)
        /\ \E ij \in points : ~Larger(dd, Between(ij))

\* Statistics s are those of the trades ts, in total and by strategy.
StatsOf(s, ts) ==
    /\ s.total = Len(ts) /\ s.winners = Cardinality(Wins(ts))
    /\ s.winners + s.losers = s.total
    /\ s.pnl = SumOver(DOMAIN ts, PnLs(ts))
    /\ s.grossProfit = SumOver(Wins(ts), PnLs(ts))
    /\ s.grossProfit - s.grossLoss = s.pnl
    /\ s.largestWin = Max({0} \cup {PnL[ts[i]] : i \in Wins(ts)})
    /\ s.largestLoss = Min({0} \cup {PnL[ts[i]] : i \in DOMAIN ts})
    /\ s.maxConsecWins = LongestRunIn(Wins(ts), Len(ts))
    /\ s.maxConsecLoss = LongestRunIn(DOMAIN ts \ Wins(ts), Len(ts))
    /\ s.total = SumOver(Strategies, [g \in Strategies |-> s.byStrategy[g].trades])
    /\ s.winners = SumOver(Strategies, [g \in Strategies |-> s.byStrategy[g].winners])
    /\ s.pnl = SumOver(Strategies, [g \in Strategies |-> s.byStrategy[g].pnl])

\* The running statistics, rebuilt by replays and extended by records in any
\* order, are those of the trades in memory, and so is the reported drawdown.
StatsMatchTrades == StatsOf(stats, trades) /\ DrawdownIsLargest(trades)

\* What a restart at this moment would rebuild: as long as no write has been cut
\* short, what is in memory, in the same order; and an interrupted write costs at
\* most one acknowledged trade, the one whose line is glued to its remains.
ReplayRestores ==
    /\ up /\ tears = 0 => trades = Replay.trades
    /\ Cardinality(ToSet(acked) \ ToSet(Replay.trades)) <= tears
=============================================================================
