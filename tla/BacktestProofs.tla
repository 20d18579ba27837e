---------------------------- MODULE BacktestProofs ----------------------------
(***************************************************************************)
(* Proofs about Backtest, for replays of any length, prices, levels, fees  *)
(* and sizes: positions follow one another and end at the first bar beyond *)
(* a level; the ledger balances; the drawdown reported is the largest.     *)
(* The loops of the report are folds over sequences of any length, so      *)
(* the first two parts provide induction and what a fold computes.         *)
(***************************************************************************)
EXTENDS Backtest, FiniteSetTheorems, SequenceTheorems, TLAPS


-----------------------------------------------------------------------------
(* Induction *)

\* Induction on natural numbers, with the property as a set T of numbers.
LEMMA NatSetInduction ==
    ASSUME NEW T, 0 \in T, \A n \in Nat : n \in T => n + 1 \in T
    PROVE  \A n \in Nat : n \in T
<1> SUFFICES ASSUME NEW m \in Nat, m \notin T PROVE FALSE
  OBVIOUS
<1> DEFINE M == 0..m
           U == {0..k : k \in {j \in M : j \notin T}}
           R == StrictSubsetOrdering(M)
<1>1. IsWellFoundedOn(R, SUBSET M)
  <2>1. IsFiniteSet(M)
    BY FS_Interval
  <2> HIDE DEF M
  <2> QED BY <2>1, FS_StrictSubsetOrderingWellFounded, FS_FiniteSubsetsOfFinite
<1>2. U \subseteq SUBSET M /\ U # {}
  OBVIOUS
<1>3. PICK u \in U : \A v \in U : <<v, u>> \notin R
  <2> HIDE DEF R, U, M
  <2> QED BY <1>1, <1>2, WFMin
<1>4. PICK k \in M : k \notin T /\ u = 0..k
  BY <1>3
<1>5. k # 0 /\ k - 1 \in M /\ k - 1 \notin T
  BY <1>4
<1>6. 0..k - 1 \in U
  BY <1>5
<1>7. 0..k - 1 \subseteq u /\ k \in u /\ k \notin 0..k - 1
  BY <1>4, <1>5
<1>8. <<0..k - 1, u>> \in R
  BY <1>2, <1>6, <1>7 DEF StrictSubsetOrdering
<1> QED BY <1>3, <1>6, <1>8

-----------------------------------------------------------------------------
(* Folds: the loops of buildResult as sequences of steps *)

NoResult == [wins |-> 0, losses |-> 0, profit |-> 0, loss |-> 0]
NoLoss == [loss |-> 0, peak |-> 1]

\* The bodies of the three loops over a sequence that Backtest folds.
Step(k, a, x) ==
    IF k = "fees" THEN a + Fee(x.entry, x.qty)
    ELSE IF k = "trades"
    THEN IF x.pnl > 0 THEN [a EXCEPT !.wins = @ + 1, !.profit = @ + x.pnl]
                      ELSE [a EXCEPT !.losses = @ + 1, !.loss = @ - x.pnl]
    ELSE LET peak == IF x > a.top THEN x ELSE a.top
             dd == [loss |-> peak - x, peak |-> peak]
         IN  [top |-> peak, max |-> IF Larger(dd, a.max) THEN dd ELSE a.max]

\* f folds the parts of the first n elements of s, from the base b.
Folds(k, b, s, n, f) ==
    f = [t \in SUBSET (1..n) |-> IF t = {} THEN b ELSE Step(k, f[t \ {Max(t)}], s[Max(t)])]

\* The largest position of a part that has the last one.
LEMMA MaxOfTop ==
    ASSUME NEW n \in Nat, NEW t \in SUBSET (1..n + 1), n + 1 \in t
    PROVE  Max(t) = n + 1
<1>1. n + 1 \in t /\ \A y \in t : n + 1 >= y
  OBVIOUS
<1>2. \A x \in t : (\A y \in t : x >= y) => x = n + 1
  OBVIOUS
<1> QED BY <1>1, <1>2 DEF Max

\* There is such an f, and so CHOOSE finds it.
LEMMA FoldExists ==
    ASSUME NEW k, NEW b, NEW s PROVE \A n \in Nat : \E f : Folds(k, b, s, n, f)
<1> DEFINE T == {n \in Nat : \E f : Folds(k, b, s, n, f)}
<1>1. 0 \in T
  <2>1. Folds(k, b, s, 0, [t \in SUBSET (1..0) |-> b])
    BY DEF Folds
  <2> QED BY <2>1
<1>2. ASSUME NEW n \in Nat, n \in T PROVE n + 1 \in T
  <2>1. PICK f : Folds(k, b, s, n, f)
    BY <1>2
  <2> DEFINE g == [t \in SUBSET (1..n + 1) |-> IF n + 1 \in t THEN Step(k, f[t \ {n + 1}], s[n + 1]) ELSE f[t]]
  <2>2. ASSUME NEW t \in SUBSET (1..n + 1)
        PROVE  g[t] = IF t = {} THEN b ELSE Step(k, g[t \ {Max(t)}], s[Max(t)])
    <3>1. CASE n + 1 \in t
      <4>1. Max(t) = n + 1
        BY <3>1, MaxOfTop
      <4>2. t \ {n + 1} \in SUBSET (1..n + 1) /\ n + 1 \notin t \ {n + 1}
        OBVIOUS
      <4> QED BY <3>1, <4>1, <4>2
    <3>2. CASE n + 1 \notin t
      <4>1. /\ t \in SUBSET (1..n) /\ t \ {Max(t)} \in SUBSET (1..n)
            /\ t \ {Max(t)} \in SUBSET (1..n + 1) /\ n + 1 \notin t \ {Max(t)}
        <5>1. t \in SUBSET (1..n)
          BY <3>2
        <5> QED BY <3>2, <5>1
      <4>2. g[t] = f[t] /\ g[t \ {Max(t)}] = f[t \ {Max(t)}]
        BY <3>2, <4>1
      <4> HIDE DEF g
      <4> QED BY <2>1, <4>1, <4>2 DEF Folds
    <3> QED BY <3>1, <3>2
  <2>3. Folds(k, b, s, n + 1, g)
    <3>1. g = [t \in SUBSET (1..n + 1) |-> g[t]]
      OBVIOUS
    <3> HIDE DEF g
    <3> QED BY <2>2, <3>1 DEF Folds
  <2> QED BY <2>3
<1>3. \A n \in Nat : n \in T
  <2> HIDE DEF T
  <2> QED BY <1>1, <1>2, NatSetInduction
<1> QED BY <1>3

\* One element after the other.
LEMMA FoldStart ==
    ASSUME NEW k, NEW b, NEW s, NEW n \in Nat, NEW f, Folds(k, b, s, n, f)
    PROVE  f[1..0] = b
<1>1. 1..0 = {} /\ 1..0 \in SUBSET (1..n)
  OBVIOUS
<1> QED BY <1>1 DEF Folds

LEMMA FoldNext ==
    ASSUME NEW k, NEW b, NEW s, NEW n \in Nat, NEW f, Folds(k, b, s, n, f),
           NEW i \in Nat, i + 1 <= n
    PROVE  f[1..i + 1] = Step(k, f[1..i], s[i + 1])
<1>1. 1..i + 1 \in SUBSET (1..n) /\ 1..i + 1 # {} /\ (1..i + 1) \ {i + 1} = 1..i
  OBVIOUS
<1>2. Max(1..i + 1) = i + 1
  <2>1. 1..i + 1 \in SUBSET (1..i + 1) /\ i + 1 \in 1..i + 1
    OBVIOUS
  <2> QED BY <2>1, MaxOfTop
<1> QED BY <1>1, <1>2 DEF Folds

\* Only the elements folded matter.
LEMMA FoldSame ==
    ASSUME NEW k, NEW b, NEW s, NEW r, NEW n \in Nat, NEW m \in Nat, n <= m,
           \A i \in 1..n : s[i] = r[i],
           NEW f, Folds(k, b, s, n, f), NEW g, Folds(k, b, r, m, g)
    PROVE  f[1..n] = g[1..n]
<1> DEFINE T == {i \in Nat : i <= n => f[1..i] = g[1..i]}
<1>1. 0 \in T
  <2>1. f[1..0] = b /\ g[1..0] = b
    BY FoldStart
  <2> QED BY <2>1
<1>2. ASSUME NEW i \in Nat, i \in T PROVE i + 1 \in T
  <2> SUFFICES ASSUME i + 1 <= n PROVE f[1..i + 1] = g[1..i + 1]
    OBVIOUS
  <2>1. i + 1 \in 1..n /\ i + 1 <= m /\ f[1..i] = g[1..i]
    BY <1>2
  <2>2. f[1..i + 1] = Step(k, f[1..i], s[i + 1]) /\ g[1..i + 1] = Step(k, g[1..i], r[i + 1])
    BY <2>1, FoldNext
  <2> QED BY <2>1, <2>2
<1>3. n \in T
  <2> HIDE DEF T
  <2> QED BY <1>1, <1>2, NatSetInduction
<1> QED BY <1>3

\* What a fold of a sequence is.
FoldValue(k, b, s) ==
    LET f == CHOOSE f : Folds(k, b, s, Len(s), f) IN f[1..Len(s)]

LEMMA FoldIs ==
    ASSUME NEW k, NEW b, NEW S, NEW s \in Seq(S), NEW f, Folds(k, b, s, Len(s), f)
    PROVE  FoldValue(k, b, s) = f[1..Len(s)]
<1>1. PICK n \in Nat : n = Len(s)
  OBVIOUS
<1>2. PICK g : g = CHOOSE h : Folds(k, b, s, n, h)
  OBVIOUS
<1>3. Folds(k, b, s, n, g)
  BY <1>1, <1>2
<1>4. g[1..n] = f[1..n]
  BY <1>1, <1>3, FoldSame
<1> QED BY <1>1, <1>2, <1>4 DEF FoldValue

\* The values a fold takes on the way.
LEMMA FoldRun ==
    ASSUME NEW k, NEW b, NEW S, NEW s \in Seq(S)
    PROVE  \E h : /\ h[0] = b /\ h[Len(s)] = FoldValue(k, b, s)
                  /\ \A i \in 0..Len(s) - 1 : h[i + 1] = Step(k, h[i], s[i + 1])
<1>1. PICK n \in Nat : n = Len(s)
  OBVIOUS
<1>2. PICK f : Folds(k, b, s, n, f)
  BY FoldExists
<1> DEFINE h == [i \in Nat |-> f[1..i]]
<1>3. h[0] = b
  BY <1>2, FoldStart
<1>4. h[n] = FoldValue(k, b, s)
  BY <1>1, <1>2, FoldIs
<1>5. ASSUME NEW i \in 0..n - 1 PROVE h[i + 1] = Step(k, h[i], s[i + 1])
  <2>1. i \in Nat /\ i + 1 \in Nat /\ i + 1 <= n
    OBVIOUS
  <2>2. f[1..i + 1] = Step(k, f[1..i], s[i + 1])
    BY <1>2, <2>1, FoldNext
  <2> QED BY <2>1, <2>2
<1> HIDE DEF h
<1> QED BY <1>1, <1>3, <1>4, <1>5

LEMMA FoldEmpty == \A k, b : FoldValue(k, b, <<>>) = b
<1> TAKE k, b
<1>1. PICK s \in Seq({}) : s = <<>> /\ Len(s) = 0
  <2>1. <<>> \in Seq({}) /\ Len(<<>>) = 0
    OBVIOUS
  <2> QED BY <2>1
<1>2. PICK f : Folds(k, b, s, 0, f)
  BY FoldExists
<1>3. f[1..0] = b
  <2>1. 0 \in Nat
    OBVIOUS
  <2> QED BY <1>2, <2>1, FoldStart
<1>4. FoldValue(k, b, s) = f[1..Len(s)]
  <2>1. Folds(k, b, s, Len(s), f)
    BY <1>1, <1>2
  <2> QED BY <2>1, FoldIs
<1> QED BY ONLY <1>1, <1>3, <1>4

LEMMA FoldAppend ==
    ASSUME NEW k, NEW b, NEW S, NEW s \in Seq(S), NEW x \in S
    PROVE  FoldValue(k, b, Append(s, x)) = Step(k, FoldValue(k, b, s), x)
<1>1. PICK n \in Nat : n = Len(s)
  OBVIOUS
<1>2. PICK r \in Seq(S) : r = Append(s, x)
  BY AppendProperties
<1>3. Len(r) = n + 1 /\ r[n + 1] = x /\ \A i \in 1..n : s[i] = r[i]
  BY <1>1, <1>2
<1>4. PICK f : Folds(k, b, s, n, f)
  BY FoldExists
<1>5. PICK g : Folds(k, b, r, n + 1, g)
  <2>1. n + 1 \in Nat
    OBVIOUS
  <2> QED BY <2>1, FoldExists
<1>6. f[1..n] = g[1..n]
  BY <1>3, <1>4, <1>5, FoldSame
<1>7. g[1..n + 1] = Step(k, f[1..n], x)
  <2>1. PICK m \in Nat : m = n + 1
    OBVIOUS
  <2>2. Folds(k, b, r, m, g) /\ n + 1 <= m
    BY <1>5, <2>1
  <2>3. g[1..n + 1] = Step(k, g[1..n], r[n + 1])
    BY <2>2, FoldNext
  <2> QED BY <1>3, <1>6, <2>3
<1>8. FoldValue(k, b, s) = f[1..n] /\ FoldValue(k, b, r) = g[1..n + 1]
  BY <1>1, <1>3, <1>4, <1>5, FoldIs
<1> QED BY <1>2, <1>7, <1>8

\* The three folds of Backtest are folds in this sense: FoldLeft is a recursion over
\* the sets of positions, whose largest element is folded last.
LEMMA EntryFeesFold ==
    ASSUME NEW S, trades \in Seq(S)
    PROVE  EntryFees = FoldValue("fees", Fee(pos.entry, pos.qty), trades)
<1> DEFINE b == Fee(pos.entry, pos.qty)
           Eq(f) == f = [t \in SUBSET DOMAIN trades |->
                           IF t = {} THEN b
                           ELSE f[t \ {Max(t)}] + Fee(trades[Max(t)].entry, trades[Max(t)].qty)]
<1>1. Len(trades) \in Nat /\ DOMAIN trades = 1..Len(trades)
  OBVIOUS
<1>2. \A f : Eq(f) <=> Folds("fees", b, trades, Len(trades), f)
  BY <1>1 DEF Folds, Step
<1>3. PICK f : Eq(f)
  <2>1. PICK f : Folds("fees", b, trades, Len(trades), f)
    BY <1>1, FoldExists
  <2> HIDE DEF Eq
  <2> QED BY <1>2, <2>1
<1>4. EntryFees = (CHOOSE g : Eq(g))[DOMAIN trades]
  BY DEF EntryFees, FoldLeft, MapThenFoldSet
<1>5. Eq(CHOOSE g : Eq(g))
  <2> HIDE DEF Eq
  <2> QED BY <1>3
<1> HIDE DEF Eq, b
<1>6. FoldValue("fees", b, trades) = (CHOOSE g : Eq(g))[1..Len(trades)]
  BY <1>2, <1>5, FoldIs
<1> QED BY <1>1, <1>4, <1>6 DEF b

LEMMA WinLossFold ==
    ASSUME NEW S, NEW ts \in Seq(S)
    PROVE  WinLoss(ts) = FoldValue("trades", NoResult, ts)
<1> DEFINE Eq(f) == f = [t \in SUBSET DOMAIN ts |->
               IF t = {} THEN NoResult
               ELSE IF ts[Max(t)].pnl > 0
                    THEN [f[t \ {Max(t)}] EXCEPT !.wins = @ + 1, !.profit = @ + ts[Max(t)].pnl]
                    ELSE [f[t \ {Max(t)}] EXCEPT !.losses = @ + 1, !.loss = @ - ts[Max(t)].pnl]]
<1>1. Len(ts) \in Nat /\ DOMAIN ts = 1..Len(ts)
  OBVIOUS
<1>2. \A f : Eq(f) <=> Folds("trades", NoResult, ts, Len(ts), f)
  BY <1>1 DEF Folds, Step
<1>3. PICK f : Eq(f)
  <2>1. PICK f : Folds("trades", NoResult, ts, Len(ts), f)
    BY <1>1, FoldExists
  <2> HIDE DEF Eq
  <2> QED BY <1>2, <2>1
<1>4. WinLoss(ts) = (CHOOSE g : Eq(g))[DOMAIN ts]
  BY DEF WinLoss, FoldLeft, MapThenFoldSet, NoResult
<1>5. Eq(CHOOSE g : Eq(g))
  <2> HIDE DEF Eq
  <2> QED BY <1>3
<1> HIDE DEF Eq
<1>6. FoldValue("trades", NoResult, ts) = (CHOOSE g : Eq(g))[1..Len(ts)]
  BY <1>2, <1>5, FoldIs
<1> QED BY <1>1, <1>4, <1>6

LEMMA MaxDrawdownFold ==
    ASSUME NEW S, NEW eqs \in Seq(S)
    PROVE  MaxDrawdown(eqs) = FoldValue("peaks", [top |-> eqs[1], max |-> NoLoss], eqs).max
<1> DEFINE b == [top |-> eqs[1], max |-> NoLoss]
           Eq(f) == f = [t \in SUBSET DOMAIN eqs |-> IF t = {} THEN b ELSE
             LET a == f[t \ {Max(t)}]
                 peak == IF eqs[Max(t)] > a.top THEN eqs[Max(t)] ELSE a.top
                 dd == [loss |-> peak - eqs[Max(t)], peak |-> peak]
                IN  [top |-> peak, max |-> IF Larger(dd, a.max) THEN dd ELSE a.max]]
<1>1. Len(eqs) \in Nat /\ DOMAIN eqs = 1..Len(eqs)
  OBVIOUS
<1>2. \A f : Eq(f) <=> Folds("peaks", b, eqs, Len(eqs), f)
  BY <1>1 DEF Folds, Step
<1>3. PICK f : Eq(f)
  <2>1. PICK f : Folds("peaks", b, eqs, Len(eqs), f)
    BY <1>1, FoldExists
  <2> HIDE DEF Eq
  <2> QED BY <1>2, <2>1
<1>4. MaxDrawdown(eqs) = (CHOOSE g : Eq(g))[DOMAIN eqs].max
  BY DEF MaxDrawdown, FoldLeft, MapThenFoldSet, NoLoss
<1>5. Eq(CHOOSE g : Eq(g))
  <2> HIDE DEF Eq
  <2> QED BY <1>3
<1> HIDE DEF Eq, b
<1>6. FoldValue("peaks", b, eqs) = (CHOOSE g : Eq(g))[1..Len(eqs)]
  BY <1>2, <1>5, FoldIs
<1> QED BY <1>1, <1>4, <1>6 DEF b

-----------------------------------------------------------------------------
(* Levels *)

\* No bar in from..to has, in the closes cs, a close at or beyond a level of q.
Within(q, cs, from, to) ==
    \A j \in from..to : ~StopLossHit(q, cs[j]) /\ ~TakeProfitHit(q, cs[j])

\* A trade that LevelsRespected and OneAtATime are content with, after the closes cs.
GoodTrade(t, cs) ==
    /\ t.from \in Nat /\ t.to \in 1..Len(cs)
    /\ Within(t, cs, t.from + 1, t.to - 1)
    /\ t.reason = "sl" <=> StopLossHit(t, cs[t.to]) /\ t.from < t.to
    /\ t.reason = "tp" => TakeProfitHit(t, cs[t.to])
    /\ t.from < t.to \/ t.reason = "end"

GoodTrades(ts, cs) ==
    /\ \E T : ts \in Seq(T)
    /\ \A i \in 1..Len(ts) : GoodTrade(ts[i], cs)
    /\ \A i \in 1..Len(ts) - 1 : ts[i].to <= ts[i + 1].from

\* The last trade, if any, has ended in a bar or before it.
EndedBy(ts, bar) == Len(ts) > 0 => ts[Len(ts)].to <= bar

LevelsInv ==
    /\ closes \in Seq(Closes)
    /\ GoodTrades(trades, closes)
    /\ pos # NoPosition => /\ pos.bar \in 1..Len(closes) /\ EndedBy(trades, pos.bar)
                           /\ Within(pos, closes, pos.bar + 1, Len(closes))

(* Closes and trades that are added *)

\* A trade has the levels of the position it closes.
LEMMA LevelsOfTrade ==
    ASSUME NEW q, NEW x, NEW b, NEW r, NEW p
    PROVE  /\ StopLossHit(TradeOf(q, x, b, r), p) <=> StopLossHit(q, p)
           /\ TakeProfitHit(TradeOf(q, x, b, r), p) <=> TakeProfitHit(q, p)
           /\ TradeOf(q, x, b, r).from = q.bar /\ TradeOf(q, x, b, r).to = b
           /\ TradeOf(q, x, b, r).reason = r
BY DEF TradeOf, StopLossHit, TakeProfitHit, Gain

\* A close more does not change what is said about the bars before.
LEMMA CloseAdded ==
    ASSUME NEW cs \in Seq(Closes), NEW p \in Closes, NEW ts, GoodTrades(ts, cs)
    PROVE  /\ Append(cs, p) \in Seq(Closes) /\ Len(Append(cs, p)) = Len(cs) + 1
           /\ Len(cs) \in Nat /\ Append(cs, p)[Len(cs) + 1] = p
           /\ \A j \in 1..Len(cs) : Append(cs, p)[j] = cs[j]
           /\ GoodTrades(ts, Append(cs, p))
<1> DEFINE ds == Append(cs, p)
<1>1. /\ ds \in Seq(Closes) /\ Len(ds) = Len(cs) + 1
      /\ Len(cs) \in Nat /\ ds[Len(cs) + 1] = p
      /\ \A j \in 1..Len(cs) : ds[j] = cs[j]
  OBVIOUS
<1> HIDE DEF ds
<1>2. ASSUME NEW t, GoodTrade(t, cs) PROVE GoodTrade(t, ds)
  <2>1. /\ t.from \in Nat /\ t.to \in 1..Len(cs) /\ t.to \in 1..Len(ds)
        /\ ds[t.to] = cs[t.to]
    BY <1>1, <1>2 DEF GoodTrade
  <2>2. \A j \in t.from + 1..t.to - 1 : ds[j] = cs[j]
    BY <1>1, <2>1
  <2> QED BY <1>2, <2>1, <2>2 DEF GoodTrade, Within
<1>3. GoodTrades(ts, ds)
  BY <1>2 DEF GoodTrades
<1> QED BY <1>1, <1>3 DEF ds

\* A good trade that follows the others keeps them good and in order.
LEMMA TradeAdded ==
    ASSUME NEW cs, NEW ts, GoodTrades(ts, cs), NEW t, GoodTrade(t, cs), EndedBy(ts, t.from)
    PROVE  /\ GoodTrades(Append(ts, t), cs)
           /\ Len(Append(ts, t)) > 0 /\ Append(ts, t)[Len(Append(ts, t))] = t
<1>1. PICK T : ts \in Seq(T)
  BY DEF GoodTrades
<1>2. ts \in Seq(T \cup {t}) /\ Len(ts) \in Nat
  BY <1>1
<1> DEFINE us == Append(ts, t)
<1>3. /\ us \in Seq(T \cup {t}) /\ Len(us) = Len(ts) + 1
      /\ us[Len(ts) + 1] = t
      /\ \A i \in 1..Len(ts) : us[i] = ts[i]
  BY <1>2
<1> HIDE DEF us
<1>4. \A i \in 1..Len(us) : GoodTrade(us[i], cs)
  BY <1>2, <1>3 DEF GoodTrades
<1>5. ASSUME NEW i \in 1..Len(us) - 1 PROVE us[i].to <= us[i + 1].from
  <2>1. CASE i = Len(ts)
    BY <1>2, <1>3, <2>1 DEF EndedBy
  <2>2. CASE i # Len(ts)
    <3>1. i \in 1..Len(ts) - 1 /\ i \in 1..Len(ts) /\ i + 1 \in 1..Len(ts)
      BY <1>2, <1>3, <2>2
    <3> QED BY <1>3, <3>1 DEF GoodTrades
  <2> QED BY <2>1, <2>2
<1>6. GoodTrades(us, cs)
  BY <1>3, <1>4, <1>5 DEF GoodTrades
<1> QED BY <1>2, <1>3, <1>6 DEF us

\* The trades so far have ended by the last bar.
LEMMA TradesEnded ==
    ASSUME NEW cs, NEW ts, GoodTrades(ts, cs)
    PROVE  EndedBy(ts, Len(cs)) /\ Len(ts) \in Nat
<1>1. Len(ts) \in Nat
  BY DEF GoodTrades
<1>2. ASSUME Len(ts) > 0 PROVE ts[Len(ts)].to <= Len(cs)
  <2>1. GoodTrade(ts[Len(ts)], cs)
    BY <1>1, <1>2 DEF GoodTrades
  <2> QED BY <2>1 DEF GoodTrade
<1> QED BY <1>1, <1>2 DEF EndedBy

(* Steps *)

\* An exit in a bar makes a good trade of the open position.
LEMMA ExitMakesGoodTrade ==
    ASSUME LevelsInv, NEW p \in Closes, NEW sig, NEW x,
           ExitReason(pos, p, sig) # "hold"
    PROVE  LET t == TradeOf(pos, x, Len(closes) + 1, ExitReason(pos, p, sig))
           IN  GoodTrade(t, Append(closes, p)) /\ EndedBy(trades, t.from)
<1> DEFINE cs == Append(closes, p)
           r == ExitReason(pos, p, sig)
           t == TradeOf(pos, x, Len(closes) + 1, r)
<1>1. pos # NoPosition
  BY DEF ExitReason
<1>2. /\ r = "sl" <=> StopLossHit(pos, p)
      /\ r = "tp" => TakeProfitHit(pos, p)
  BY <1>1 DEF ExitReason
<1>3. /\ Len(cs) = Len(closes) + 1 /\ Len(closes) \in Nat /\ cs[Len(closes) + 1] = p
      /\ \A j \in 1..Len(closes) : cs[j] = closes[j]
  BY CloseAdded DEF LevelsInv
<1>4. /\ pos.bar \in 1..Len(closes) /\ EndedBy(trades, pos.bar)
      /\ Within(pos, closes, pos.bar + 1, Len(closes))
  BY <1>1 DEF LevelsInv
<1>5. /\ t.from = pos.bar /\ t.to = Len(closes) + 1 /\ t.reason = r
      /\ \A c : /\ StopLossHit(t, c) <=> StopLossHit(pos, c)
                /\ TakeProfitHit(t, c) <=> TakeProfitHit(pos, c)
  BY LevelsOfTrade
<1> HIDE DEF cs, r, t
<1>6. Within(t, cs, t.from + 1, t.to - 1)
  BY <1>3, <1>4, <1>5 DEF Within
<1>7. GoodTrade(t, cs)
  BY <1>2, <1>3, <1>4, <1>5, <1>6 DEF GoodTrade
<1> QED BY <1>4, <1>5, <1>7 DEF cs, r, t

\* A bar in which nothing is closed leaves the open position within its levels.
LEMMA HoldStaysWithin ==
    ASSUME LevelsInv, NEW p \in Closes, NEW sig, pos # NoPosition,
           ExitReason(pos, p, sig) = "hold"
    PROVE  Within(pos, Append(closes, p), pos.bar + 1, Len(closes) + 1)
<1>1. ~StopLossHit(pos, p) /\ ~TakeProfitHit(pos, p)
  BY DEF ExitReason
<1>2. /\ Len(closes) \in Nat /\ Append(closes, p)[Len(closes) + 1] = p
      /\ \A j \in 1..Len(closes) : Append(closes, p)[j] = closes[j]
  BY CloseAdded DEF LevelsInv
<1> QED BY <1>1, <1>2 DEF Within, LevelsInv

LEMMA BarPreserves ==
    ASSUME LevelsInv, NEW p \in Closes, NEW sig \in Sides \cup {"FLAT"}, Bar(p, sig)
    PROVE  LevelsInv'
<1> DEFINE i == Len(closes) + 1
           r == ExitReason(pos, p, sig)
           t == TradeOf(pos, ExitPrice(pos.side, p), i, r)
<1>1. /\ closes' = Append(closes, p)
      /\ r # "hold" => trades' = Append(trades, t)
      /\ r = "hold" => trades' = trades
  BY DEF Bar
<1>2. \/ pos' = NoPosition
      \/ pos'.bar = i
      \/ r = "hold" /\ pos' = pos
  BY DEF Bar
<1>3. /\ closes' \in Seq(Closes) /\ Len(closes') = i /\ Len(closes) \in Nat
      /\ GoodTrades(trades, closes')
  BY <1>1, CloseAdded DEF LevelsInv
<1>4. GoodTrades(trades', closes')
  <2>1. CASE r = "hold"
    BY <1>1, <1>3, <2>1
  <2>2. CASE r # "hold"
    <3>1. GoodTrade(t, closes') /\ EndedBy(trades, t.from)
      BY <1>1, <2>2, ExitMakesGoodTrade
    <3> QED BY <1>1, <1>3, <2>2, <3>1, TradeAdded
  <2> QED BY <2>1, <2>2
<1>5. EndedBy(trades', i)
  BY <1>3, <1>4, TradesEnded
<1>6. ASSUME pos' # NoPosition
      PROVE  /\ pos'.bar \in 1..Len(closes') /\ EndedBy(trades', pos'.bar)
             /\ Within(pos', closes', pos'.bar + 1, Len(closes'))
  <2>1. CASE pos'.bar = i
    BY <1>3, <1>5, <2>1 DEF Within
  <2>2. CASE r = "hold" /\ pos' = pos
    <3>1. Within(pos, closes', pos.bar + 1, i)
      BY <1>1, <1>6, <2>2, HoldStaysWithin
    <3>2. pos.bar \in 1..Len(closes) /\ EndedBy(trades, pos.bar)
      BY <1>6, <2>2 DEF LevelsInv
    <3> QED BY <1>1, <1>3, <2>2, <3>1, <3>2
  <2> QED BY <1>2, <1>6, <2>1, <2>2
<1> QED BY <1>3, <1>4, <1>6 DEF LevelsInv

LEMMA EndPreserves == LevelsInv /\ End => LevelsInv'
<1> SUFFICES ASSUME LevelsInv, End PROVE LevelsInv'
  OBVIOUS
<1> DEFINE t == TradeOf(pos, Last(closes), Bars, "end")
<1>1. /\ Len(closes) = Bars /\ closes' = closes /\ pos' = NoPosition
      /\ pos = NoPosition => trades' = trades
      /\ pos # NoPosition => trades' = Append(trades, t)
  BY DEF End
<1>2. GoodTrades(trades', closes')
  <2>1. CASE pos = NoPosition
    BY <1>1, <2>1 DEF LevelsInv
  <2>2. CASE pos # NoPosition
    <3>1. /\ pos.bar \in 1..Len(closes) /\ EndedBy(trades, pos.bar)
          /\ Within(pos, closes, pos.bar + 1, Len(closes)) /\ Len(closes) \in Nat
      BY <2>2 DEF LevelsInv
    <3>2. /\ t.from = pos.bar /\ t.to = Len(closes) /\ t.reason = "end"
          /\ \A c : /\ StopLossHit(t, c) <=> StopLossHit(pos, c)
                    /\ TakeProfitHit(t, c) <=> TakeProfitHit(pos, c)
      BY <1>1, LevelsOfTrade
    <3> HIDE DEF t
    <3>3. Within(t, closes, t.from + 1, t.to - 1)
      BY <3>1, <3>2 DEF Within
    <3>4. t.from < t.to => ~StopLossHit(t, closes[t.to])
      BY <3>1, <3>2 DEF Within
    <3>5. GoodTrade(t, closes)
      BY <3>1, <3>2, <3>3, <3>4 DEF GoodTrade
    <3> QED BY <1>1, <2>2, <3>1, <3>2, <3>5, TradeAdded DEF LevelsInv
  <2> QED BY <2>1, <2>2
<1> QED BY <1>1, <1>2 DEF LevelsInv

\* Any step keeps the invariant.
LEMMA LevelsInvHolds == Spec => []LevelsInv
<1>1. Init => LevelsInv
  <2> SUFFICES ASSUME Init PROVE LevelsInv
    OBVIOUS
  <2>1. closes \in Seq(Closes) /\ trades \in Seq({}) /\ Len(trades) = 0 /\ pos = NoPosition
    BY DEF Init
  <2> QED BY <2>1 DEF LevelsInv, GoodTrades
<1>2. LevelsInv /\ [Next]_vars => LevelsInv'
  <2> SUFFICES ASSUME LevelsInv, [Next]_vars PROVE LevelsInv'
    OBVIOUS
  <2>1. ASSUME NEW p \in Closes, NEW sig \in Sides \cup {"FLAT"}, Bar(p, sig) PROVE LevelsInv'
    BY <2>1, BarPreserves
  <2>2. CASE End
    BY <2>2, EndPreserves
  <2>3. CASE UNCHANGED vars
    BY <2>3 DEF vars, LevelsInv
  <2> QED BY <2>1, <2>2, <2>3 DEF Next
<1> QED BY <1>1, <1>2, PTL DEF Spec

\* Whatever the prices and signals, and for any levels, fees and number of bars:
\* a position is closed in the first bar after its entry that is at or beyond its
\* stop-loss or take-profit, with that reason, and positions follow one another.
\* The loop of Run and its forced close at the end.
THEOREM LevelsAreRespected == Spec => []LevelsRespected
<1>1. LevelsInv => LevelsRespected
  <2> SUFFICES ASSUME LevelsInv PROVE LevelsRespected
    OBVIOUS
  <2>1. /\ \A i \in 1..Len(trades) : GoodTrade(trades[i], closes)
        /\ \A i \in 1..Len(trades) - 1 : trades[i].to <= trades[i + 1].from
        /\ \E T : trades \in Seq(T)
    BY DEF LevelsInv, GoodTrades
  <2>2. \A t \in ToSet(trades) : GoodTrade(t, closes)
    BY <2>1 DEF ToSet
  <2>3. trades # <<>> => Last(trades) = trades[Len(trades)] /\ Len(trades) > 0
    BY <2>1 DEF Last
  <2>4. OneAtATime
    BY <2>1, <2>2, <2>3 DEF OneAtATime, GoodTrade, LevelsInv, EndedBy
  <2>5. \A t \in ToSet(trades) :
          /\ \A j \in t.from + 1 .. t.to - 1 : ~BeyondLoss(t, j) /\ ~BeyondProfit(t, j)
          /\ t.reason = "sl" <=> BeyondLoss(t, t.to) /\ t.from < t.to
          /\ t.reason = "tp" => BeyondProfit(t, t.to)
    BY <2>2 DEF GoodTrade, Within, BeyondLoss, BeyondProfit, StopLossHit, TakeProfitHit
  <2>6. pos # NoPosition => \A j \in pos.bar + 1 .. Len(closes) :
                               ~BeyondLoss(pos, j) /\ ~BeyondProfit(pos, j)
    BY DEF LevelsInv, Within, BeyondLoss, BeyondProfit, StopLossHit, TakeProfitHit
  <2> QED BY <2>4, <2>5, <2>6 DEF LevelsRespected
<1> QED BY <1>1, LevelsInvHolds, PTL

-----------------------------------------------------------------------------
(* Percentages and fees *)

\* A share of 0 to 100 per cent of an amount is no more than it, and one of less
\* than 100 per cent of a positive amount is less.
LEMMA PercentBounds ==
    ASSUME NEW n \in Nat, NEW p \in 0..100
    PROVE  /\ Percent(n, p) \in 0..n
           /\ p <= 99 /\ n > 0 => Percent(n, p) < n
<1>1. n * p \in Nat /\ n * p <= n * 100 /\ (p <= 99 => n * p <= n * 99)
  OBVIOUS
<1>2. ASSUME NEW m \in Nat, m <= n * 100
      PROVE  m \div 100 \in 0..n /\ (m <= n * 99 /\ n > 0 => m \div 100 < n)
  BY <1>2
<1> QED BY <1>1, <1>2 DEF Percent

\* Positions and trades as the replay makes them, and what a report adds up.
Positions == [side : Sides, entry : Nat \ {0}, qty : Nat, bar : 1..Bars]
Trades == [side : Sides, entry : Nat \ {0}, qty : Nat, exit : Int, from : 1..Bars, to : 1..Bars,
           pnl : Int, reason : {"sl", "tp", "signal_flip", "end"}]
Results == [wins : Nat, losses : Nat, profit : Int, loss : Int]

\* Whole units bought with an amount.
LEMMA WholeUnits ==
    ASSUME NEW a \in Nat, NEW d \in Nat \ {0}
    PROVE  a \div d \in Nat /\ d * (a \div d) \in Nat /\ d * (a \div d) <= a
OBVIOUS

\* A fee is no negative amount.
LEMMA FeeIsNatural ==
    ASSUME NEW price \in Nat, NEW qty \in Nat
    PROVE  Fee(price, qty) \in Nat
<1>1. PICK m \in Nat : m = price * qty
  OBVIOUS
<1>2. FeePct \in 0..100
  BY BacktestConstantsOK
<1>3. Percent(m, FeePct) \in 0..m
  BY <1>2, PercentBounds
<1> QED BY <1>1, <1>3 DEF Fee

\* A position opened with an equity eq leaves some of it.
LEMMA EntryIsPaid ==
    ASSUME NEW p \in Closes, NEW side \in Sides, NEW eq \in Nat \ {0}
    PROVE  LET entry == EntryPrice(side, p)
               qty == Percent(eq, PositionSizePct) \div entry
           IN  entry \in Nat \ {0} /\ qty \in Nat /\ Fee(entry, qty) \in 0..eq - 1
<1> DEFINE entry == EntryPrice(side, p)
           spent == Percent(eq, PositionSizePct)
           qty == spent \div entry
<1>1. /\ p \in Nat \ {0} /\ SlippagePct \in 0..100 /\ SlippagePct <= 99
      /\ PositionSizePct \in 0..100 /\ FeePct \in 0..100 /\ FeePct <= 99
  BY BacktestConstantsOK
<1>2. entry \in Nat \ {0}
  <2>1. Percent(p, SlippagePct) \in 0..p /\ Percent(p, SlippagePct) < p
    <3>1. p \in Nat /\ p > 0
      BY <1>1
    <3> QED BY <1>1, <3>1, PercentBounds
  <2> QED BY <1>1, <2>1 DEF EntryPrice, Bought, Sold
<1>3. spent \in 0..eq
  BY <1>1, PercentBounds
<1> HIDE DEF entry, spent
<1>4. qty \in Nat /\ entry * qty \in Nat /\ entry * qty <= spent
  BY <1>2, <1>3, WholeUnits
<1>5. Percent(entry * qty, FeePct) \in 0..eq - 1
  <2>1. PICK m \in Nat : m = entry * qty /\ m <= eq
    BY <1>3, <1>4
  <2>2. Percent(m, FeePct) \in 0..m /\ (m > 0 => Percent(m, FeePct) < m)
    BY <1>1, PercentBounds
  <2> QED BY <2>1, <2>2
<1> QED BY <1>2, <1>4, <1>5 DEF Fee, entry, spent

-----------------------------------------------------------------------------
(* The ledger *)

\* Fees are added up from any base.
LEMMA FeesFromBase ==
    ASSUME NEW b \in Int, NEW ts \in Seq(Trades)
    PROVE  FoldValue("fees", b, ts) = b + FoldValue("fees", 0, ts)
<1>1. PICK n \in Nat : n = Len(ts)
  OBVIOUS
<1>2. PICK f : /\ f[0] = b /\ f[n] = FoldValue("fees", b, ts)
               /\ \A i \in 0..n - 1 : f[i + 1] = Step("fees", f[i], ts[i + 1])
  BY <1>1, FoldRun
<1>3. PICK g : /\ g[0] = 0 /\ g[n] = FoldValue("fees", 0, ts)
               /\ \A i \in 0..n - 1 : g[i + 1] = Step("fees", g[i], ts[i + 1])
  BY <1>1, FoldRun
<1> DEFINE T == {i \in Nat : i <= n => g[i] \in Int /\ f[i] = b + g[i]}
<1>4. 0 \in T
  BY <1>2, <1>3
<1>5. ASSUME NEW i \in Nat, i \in T PROVE i + 1 \in T
  <2> SUFFICES ASSUME i + 1 <= n PROVE g[i + 1] \in Int /\ f[i + 1] = b + g[i + 1]
    OBVIOUS
  <2>1. i \in 0..n - 1 /\ g[i] \in Int /\ f[i] = b + g[i]
    BY <1>5
  <2>2. Fee(ts[i + 1].entry, ts[i + 1].qty) \in Nat
    <3>1. ts[i + 1] \in Trades
      BY <1>1
    <3>2. ts[i + 1].entry \in Nat /\ ts[i + 1].qty \in Nat
      BY <3>1 DEF Trades
    <3> QED BY <3>2, FeeIsNatural
  <2>3. \A a, x : Step("fees", a, x) = a + Fee(x.entry, x.qty)
    BY DEF Step
  <2> HIDE DEF T
  <2> QED BY <1>2, <1>3, <2>1, <2>2, <2>3
<1>6. n \in T
  <2> HIDE DEF T
  <2> QED BY <1>4, <1>5, NatSetInduction
<1> QED BY <1>2, <1>3, <1>6

\* Equity e, position q and trades ts account for the capital.
Account(e, q, ts) ==
    LET r == FoldValue("trades", NoResult, ts)
        fees == FoldValue("fees", 0, ts)
    IN  /\ e \in Int /\ ts \in Seq(Trades)
        /\ q # NoPosition => q \in Positions /\ e > 0
        /\ r \in Results /\ r.wins + r.losses = Len(ts)
        /\ fees \in Int
        /\ e = InitialCapital + r.profit - r.loss - fees - Fee(q.entry, q.qty)

\* A position that is closed becomes a trade.
LEMMA AfterExit ==
    ASSUME NEW e, NEW q, NEW ts, Account(e, q, ts), q # NoPosition,
           NEW x \in Int, NEW b \in 1..Bars, NEW reason \in {"sl", "tp", "signal_flip", "end"}
    PROVE  LET t == TradeOf(q, x, b, reason)
           IN  Account(e + t.pnl, NoPosition, Append(ts, t))
<1> DEFINE t == TradeOf(q, x, b, reason)
           r == FoldValue("trades", NoResult, ts)
           fees == FoldValue("fees", 0, ts)
           paid == Fee(q.entry, q.qty)
<1>1. /\ q \in Positions /\ e \in Int /\ ts \in Seq(Trades) /\ r \in Results
      /\ r.wins + r.losses = Len(ts) /\ fees \in Int
      /\ e = InitialCapital + r.profit - r.loss - fees - paid
  BY DEF Account
<1>2. paid \in Nat /\ FeePct \in Nat /\ InitialCapital \in Nat
  <2>1. q.entry \in Nat /\ q.qty \in Nat
    BY <1>1 DEF Positions
  <2>2. paid \in Nat
    BY <2>1, FeeIsNatural
  <2> QED BY <2>2, BacktestConstantsOK
<1>3. t.pnl \in Int /\ t \in Trades /\ t.entry = q.entry /\ t.qty = q.qty
  <2>1. q.entry \in Nat /\ q.qty \in Nat /\ Gain(q, x) \in Int
    BY <1>1 DEF Positions, Gain
  <2>2. q.qty * Gain(q, x) \in Int /\ x * q.qty \in Int
    BY <2>1
  <2>3. Fee(x, q.qty) \in Int
    BY <1>2, <2>2 DEF Fee, Percent
  <2>4. PICK g \in Int : g = q.qty * Gain(q, x) - Fee(x, q.qty)
    <3>1. q.qty * Gain(q, x) - Fee(x, q.qty) \in Int
      BY <2>2, <2>3
    <3> QED BY <3>1
  <2>5. t = [side |-> q.side, entry |-> q.entry, qty |-> q.qty, exit |-> x, from |-> q.bar, to |-> b,
             pnl |-> g, reason |-> reason]
    BY <2>4 DEF TradeOf
  <2>6. q.side \in Sides /\ q.entry \in Nat \ {0} /\ q.qty \in Nat /\ q.bar \in 1..Bars
    BY <1>1 DEF Positions
  <2> HIDE DEF t
  <2> QED BY <2>4, <2>5, <2>6 DEF Trades
<1> HIDE DEF t
<1>4. FoldValue("fees", 0, Append(ts, t)) = fees + paid
  <2>1. FoldValue("fees", 0, Append(ts, t)) = Step("fees", fees, t)
    BY <1>1, <1>3, FoldAppend
  <2> QED BY <1>3, <2>1 DEF Step
<1> DEFINE n == FoldValue("trades", NoResult, Append(ts, t))
<1>5. n = Step("trades", r, t)
  BY <1>1, <1>3, FoldAppend
<1>6. /\ Append(ts, t) \in Seq(Trades) /\ Len(Append(ts, t)) = Len(ts) + 1 /\ Len(ts) \in Nat
  BY <1>1, <1>3
<1>7. Fee(NoPosition.entry, NoPosition.qty) = 0
  BY <1>2 DEF Fee, Percent, NoPosition
<1> HIDE DEF r, fees, paid, n
<1>8. /\ n \in Results /\ n.wins + n.losses = r.wins + r.losses + 1
      /\ n.profit - n.loss = r.profit - r.loss + t.pnl
  <2>1. /\ r.wins \in Nat /\ r.losses \in Nat /\ r.profit \in Int /\ r.loss \in Int
        /\ r = [wins |-> r.wins, losses |-> r.losses, profit |-> r.profit, loss |-> r.loss]
    BY <1>1 DEF Results
  <2>2. CASE t.pnl > 0
    <3>1. n = [wins |-> r.wins + 1, losses |-> r.losses, profit |-> r.profit + t.pnl, loss |-> r.loss]
      BY <1>5, <2>1, <2>2 DEF Step
    <3> QED BY <1>3, <2>1, <3>1 DEF Results
  <2>3. CASE ~(t.pnl > 0)
    <3>1. n = [wins |-> r.wins, losses |-> r.losses + 1, profit |-> r.profit, loss |-> r.loss - t.pnl]
      BY <1>5, <2>1, <2>3 DEF Step
    <3> QED BY <1>3, <2>1, <3>1 DEF Results
  <2> QED BY <2>2, <2>3
<1>9. e + t.pnl = InitialCapital + n.profit - n.loss - (fees + paid) - 0
  <2>1. /\ r.profit \in Int /\ r.loss \in Int /\ n.profit \in Int /\ n.loss \in Int
    BY <1>1, <1>8 DEF Results
  <2>2. n.profit - n.loss = r.profit - r.loss + t.pnl
    BY <1>8
  <2>3. InitialCapital \in Int /\ paid \in Int /\ fees \in Int /\ t.pnl \in Int
    BY <1>1, <1>2, <1>3
  <2>4. e = InitialCapital + r.profit - r.loss - fees - paid
    BY <1>1
  <2> QED BY <2>1, <2>2, <2>3, <2>4
<1>10. n.wins + n.losses = Len(Append(ts, t)) /\ n \in Results
  <2>1. n.wins + n.losses = r.wins + r.losses + 1
    BY <1>8
  <2> QED BY <1>1, <1>6, <1>8, <2>1
<1>11. fees + paid \in Int /\ e + t.pnl \in Int
  BY <1>1, <1>2, <1>3
<1>12. Account(e + t.pnl, NoPosition, Append(ts, t))
  BY <1>4, <1>6, <1>7, <1>9, <1>10, <1>11 DEF Account, n
<1> QED BY <1>12 DEF t

\* An entry with what is there.
LEMMA AfterEntry ==
    ASSUME NEW e, NEW ts, Account(e, NoPosition, ts), e > 0,
           NEW p \in Closes, NEW side \in Sides, NEW b \in 1..Bars
    PROVE  LET entry == EntryPrice(side, p)
               qty == Percent(e, PositionSizePct) \div entry
           IN  Account(e - Fee(entry, qty), [side |-> side, entry |-> entry, qty |-> qty, bar |-> b], ts)
<1> DEFINE entry == EntryPrice(side, p)
           qty == Percent(e, PositionSizePct) \div entry
           q == [side |-> side, entry |-> entry, qty |-> qty, bar |-> b]
<1>1. e \in Nat \ {0} /\ Fee(NoPosition.entry, NoPosition.qty) = 0
  BY BacktestConstantsOK DEF Account, Fee, Percent, NoPosition
<1>2. entry \in Nat \ {0} /\ qty \in Nat /\ Fee(entry, qty) \in 0..e - 1
  BY <1>1, EntryIsPaid
<1> HIDE DEF entry, qty
<1>3. q \in Positions /\ q.entry = entry /\ q.qty = qty
  BY <1>2 DEF Positions
<1> HIDE DEF q
<1> DEFINE r == FoldValue("trades", NoResult, ts)
           fees == FoldValue("fees", 0, ts)
<1>4. /\ ts \in Seq(Trades) /\ r \in Results /\ r.wins + r.losses = Len(ts) /\ fees \in Int
      /\ e = InitialCapital + r.profit - r.loss - fees - 0
  BY <1>1 DEF Account
<1>5. r.profit \in Int /\ r.loss \in Int /\ InitialCapital \in Int
  BY <1>4, BacktestConstantsOK DEF Results
<1> HIDE DEF r, fees
<1>6. PICK paid \in 0..e - 1 : paid = Fee(entry, qty)
  BY <1>2
<1>7. e - paid > 0 /\ e - paid \in Int /\ e - paid = InitialCapital + r.profit - r.loss - fees - paid
  BY <1>1, <1>4, <1>5
<1>8. Account(e - Fee(entry, qty), q, ts)
  <2>1. e - Fee(entry, qty) = e - paid /\ Fee(q.entry, q.qty) = paid
    BY <1>3, <1>6
  <2>2. Account(e - paid, q, ts)
    BY <1>3, <1>4, <1>7, <2>1 DEF Account, r, fees
  <2> QED BY <2>1, <2>2
<1> QED BY <1>8 DEF entry, qty, q

\* The account balances, and the curve is above zero until the equity is gone.
AccountInv ==
    /\ closes \in Seq(Closes) /\ Len(closes) <= Bars /\ ended \in BOOLEAN
    /\ Account(equity, pos, trades)
    /\ pos # NoPosition => pos.bar <= Len(closes)
    /\ curve \in Seq(Int) /\ Len(curve) = Len(closes)
    /\ Len(curve) > 0 => curve[1] > 0
    /\ Len(curve) = 0 => equity > 0
    /\ ended => Len(closes) = Bars
    /\ RuinIsFinal

\* What a bar does to the account: the point it adds to the curve is positive as
\* long as the equity was, or a position was held that may have lost everything.
LEMMA BarAccounts ==
    ASSUME AccountInv, NEW p \in Closes, NEW sig \in Sides \cup {"FLAT"}, Bar(p, sig)
    PROVE  /\ Account(equity', pos', trades')
           /\ pos' # NoPosition => pos'.bar <= Len(closes) + 1
           /\ pos = NoPosition /\ equity > 0 => equity' > 0
           /\ pos = NoPosition /\ equity <= 0 => equity' = equity /\ pos' = NoPosition
<1> DEFINE i == Len(closes) + 1
           reason == ExitReason(pos, p, sig)
           t == TradeOf(pos, ExitPrice(pos.side, p), i, reason)
           exits == reason # "hold"
           held == IF exits THEN NoPosition ELSE pos
           eq == IF exits THEN equity + t.pnl ELSE equity
           ts == IF exits THEN Append(trades, t) ELSE trades
           opens == MayOpen(held, sig, eq)
           entry == EntryPrice(sig, p)
           qty == Percent(eq, PositionSizePct) \div entry
<1>1. /\ i <= Bars /\ trades' = ts
      /\ pos' = IF opens THEN [side |-> sig, entry |-> entry, qty |-> qty, bar |-> i] ELSE held
      /\ equity' = IF opens THEN eq - Fee(entry, qty) ELSE eq
  BY DEF Bar
<1>2. i \in 1..Bars /\ Account(equity, pos, trades) /\ equity \in Int
  BY <1>1, BacktestConstantsOK DEF AccountInv, Account
<1>3. ExitPrice(pos.side, p) \in Int
  <2>1. p \in Nat /\ SlippagePct \in 0..100
    BY BacktestConstantsOK
  <2>2. Percent(p, SlippagePct) \in 0..p
    BY <2>1, PercentBounds
  <2> QED BY <2>1, <2>2 DEF ExitPrice, Bought, Sold
<1>4. pos = NoPosition => ~exits
  BY DEF ExitReason
<1>5. Account(eq, held, ts)
  <2>1. CASE exits
    <3>1. pos # NoPosition /\ reason \in {"sl", "tp", "signal_flip", "end"}
      BY <2>1 DEF ExitReason
    <3>2. Account(equity + t.pnl, NoPosition, Append(trades, t))
      <4> HIDE DEF reason, i
      <4> QED BY <1>2, <1>3, <3>1, AfterExit
    <3> QED BY <2>1, <3>2
  <2>2. CASE ~exits
    BY <1>2, <2>2
  <2> QED BY <2>1, <2>2
<1>6. held # NoPosition => held = pos
  OBVIOUS
<1>7. pos = NoPosition => held = NoPosition /\ eq = equity
  BY <1>4
<1>8. eq \in Int
  BY <1>5 DEF Account
<1>9. opens => /\ sig \in Sides /\ held = NoPosition /\ eq > 0
  BY DEF MayOpen
<1> HIDE DEF i, reason, t, exits, held, eq, ts, opens
<1>10. CASE opens
  <2>1. Account(eq - Fee(entry, qty), [side |-> sig, entry |-> entry, qty |-> qty, bar |-> i], ts)
    BY <1>2, <1>5, <1>9, <1>10, AfterEntry
  <2>2. Account(equity', pos', trades') /\ pos'.bar = i /\ pos' # NoPosition
    BY <1>1, <1>2, <1>10, <2>1 DEF NoPosition
  <2>3. equity' > 0
    BY <2>2 DEF Account
  <2> QED BY <1>2, <1>7, <1>9, <1>10, <2>2, <2>3 DEF i
<1>11. CASE ~opens
  <2>1. pos' = held /\ equity' = eq /\ trades' = ts
    BY <1>1, <1>11
  <2>2. held # NoPosition => held.bar <= Len(closes) + 1
    <3>1. pos # NoPosition => pos.bar <= Len(closes) /\ pos.bar \in Int /\ Len(closes) \in Nat
      BY BacktestConstantsOK DEF AccountInv, Account, Positions
    <3> QED BY <1>6, <3>1
  <2> QED BY <1>2, <1>5, <1>7, <2>1, <2>2
<1> QED BY <1>10, <1>11

\* A bar keeps the account, and nothing is made of nothing.
LEMMA BarKeepsAccount ==
    ASSUME AccountInv, NEW p \in Closes, NEW sig \in Sides \cup {"FLAT"}, Bar(p, sig)
    PROVE  AccountInv'
<1>1. /\ closes' = Append(closes, p) /\ curve' = Append(curve, equity') /\ ended' = ended
      /\ Len(closes) + 1 <= Bars /\ ~ended
  BY DEF Bar
<1>2. /\ Account(equity', pos', trades')
      /\ pos' # NoPosition => pos'.bar <= Len(closes) + 1
      /\ pos = NoPosition /\ equity > 0 => equity' > 0
      /\ pos = NoPosition /\ equity <= 0 => equity' = equity /\ pos' = NoPosition
  BY BarAccounts
<1>3. equity' \in Int /\ (pos' # NoPosition => equity' > 0)
  BY <1>2 DEF Account
<1>4. PICK n \in Nat : n = Len(closes) /\ n = Len(curve)
  BY DEF AccountInv
<1>5. /\ closes' \in Seq(Closes) /\ Len(closes') = n + 1
      /\ curve' \in Seq(Int) /\ Len(curve') = n + 1 /\ curve'[n + 1] = equity'
      /\ \A j \in 1..n : curve'[j] = curve[j] /\ curve[j] \in Int
  BY <1>1, <1>3, <1>4 DEF AccountInv
<1>6. n = 0 => pos = NoPosition /\ equity > 0
  <2>1. pos # NoPosition => pos.bar \in 1..n
    BY <1>4, BacktestConstantsOK DEF AccountInv, Account, Positions
  <2> QED BY <1>4, <2>1 DEF AccountInv
<1>7. curve'[1] > 0
  <2>1. CASE n = 0
    BY <1>2, <1>5, <1>6, <2>1
  <2>2. CASE n # 0
    <3>1. 1 \in 1..n /\ curve[1] > 0
      BY <1>4, <2>2 DEF AccountInv
    <3> QED BY <1>5, <3>1
  <2> QED BY <2>1, <2>2
<1>8. RuinIsFinal'
  <2> SUFFICES ASSUME NEW i \in 1..n + 1, curve'[i] <= 0
               PROVE  /\ \A j \in i..n + 1 : curve'[j] = curve'[i]
                      /\ equity' = curve'[i] /\ pos' = NoPosition
    BY <1>5 DEF RuinIsFinal
  <2>1. CASE i = n + 1
    BY <1>3, <1>5, <2>1
  <2>2. CASE i # n + 1
    <3>1. i \in 1..n /\ curve[i] <= 0
      BY <1>5, <2>2
    <3>2. (\A j \in i..n : curve[j] = curve[i]) /\ equity = curve[i] /\ pos = NoPosition
      BY <1>4, <3>1 DEF AccountInv, RuinIsFinal
    <3>3. equity' = equity /\ pos' = NoPosition
      BY <1>2, <3>1, <3>2
    <3> QED BY <1>5, <3>1, <3>2, <3>3
  <2> QED BY <2>1, <2>2
<1> QED BY <1>1, <1>2, <1>4, <1>5, <1>7, <1>8 DEF AccountInv

\* The forced close adds no point to the curve.
LEMMA EndKeepsAccount == AccountInv /\ End => AccountInv'
<1> SUFFICES ASSUME AccountInv, End PROVE AccountInv'
  OBVIOUS
<1> DEFINE t == TradeOf(pos, Last(closes), Bars, "end")
<1>1. /\ Len(closes) = Bars /\ closes' = closes /\ curve' = curve /\ ended' = TRUE
      /\ pos' = NoPosition
      /\ pos = NoPosition => equity' = equity /\ trades' = trades
      /\ pos # NoPosition => equity' = equity + t.pnl /\ trades' = Append(trades, t)
  BY DEF End
<1>2. Account(equity', pos', trades')
  <2>1. CASE pos = NoPosition
    BY <1>1, <2>1 DEF AccountInv
  <2>2. CASE pos # NoPosition
    <3>1. Bars \in 1..Bars /\ Last(closes) = closes[Bars] /\ closes \in Seq(Closes)
      BY <1>1, BacktestConstantsOK DEF AccountInv, Last
    <3>2. Last(closes) \in Int
      <4>1. closes[Bars] \in Closes
        BY <1>1, <3>1
      <4>2. Closes \subseteq Int
        BY BacktestConstantsOK
      <4> HIDE DEF t
      <4> QED BY <3>1, <4>1, <4>2
    <3>3. Account(equity + t.pnl, NoPosition, Append(trades, t))
      BY <2>2, <3>1, <3>2, AfterExit DEF AccountInv
    <3> QED BY <1>1, <2>2, <3>3
  <2> QED BY <2>1, <2>2
<1>3. RuinIsFinal'
  BY <1>1 DEF AccountInv, RuinIsFinal
<1> QED BY <1>1, <1>2, <1>3, BacktestConstantsOK DEF AccountInv

LEMMA AccountInvHolds == Spec => []AccountInv
<1>1. Init => AccountInv
  <2> SUFFICES ASSUME Init PROVE AccountInv
    OBVIOUS
  <2>1. /\ closes = <<>> /\ equity = InitialCapital /\ pos = NoPosition
        /\ trades = <<>> /\ curve = <<>> /\ ended = FALSE
    BY DEF Init
  <2>2. /\ FoldValue("trades", NoResult, <<>>) = NoResult /\ FoldValue("fees", 0, <<>>) = 0
    BY FoldEmpty
  <2>3. Fee(NoPosition.entry, NoPosition.qty) = 0
    BY BacktestConstantsOK DEF Fee, Percent, NoPosition
  <2>4. Account(equity, pos, trades)
    BY <2>1, <2>2, <2>3, BacktestConstantsOK DEF Account, NoResult, Results
  <2>5. /\ closes \in Seq(Closes) /\ Len(closes) = 0 /\ curve \in Seq(Int) /\ Len(curve) = 0
    BY <2>1
  <2>6. RuinIsFinal
    BY <2>5 DEF RuinIsFinal
  <2>7. Len(closes) <= Bars
    BY <2>5, BacktestConstantsOK
  <2>8. equity > 0 /\ ended \in BOOLEAN
    <3>1. InitialCapital > 0
      BY BacktestConstantsOK
    <3> QED BY <2>1, <3>1
  <2> QED BY <2>1, <2>4, <2>5, <2>6, <2>7, <2>8 DEF AccountInv
<1>2. AccountInv /\ [Next]_vars => AccountInv'
  <2> SUFFICES ASSUME AccountInv, [Next]_vars PROVE AccountInv'
    OBVIOUS
  <2>1. ASSUME NEW p \in Closes, NEW sig \in Sides \cup {"FLAT"}, Bar(p, sig) PROVE AccountInv'
    BY <2>1, BarKeepsAccount
  <2>2. CASE End
    BY <2>2, EndKeepsAccount
  <2>3. CASE UNCHANGED vars
    BY <2>3 DEF vars, AccountInv, RuinIsFinal
  <2> QED BY <2>1, <2>2, <2>3 DEF Next
<1> QED BY <1>1, <1>2, PTL DEF Spec

\* Amounts stay whole numbers, quantities and prices of trades positive, and the
\* curve has a point for each bar. The state of Run.
THEOREM TypeCorrect == Spec => []TypeOK
<1>1. AccountInv => TypeOK
  <2> SUFFICES ASSUME AccountInv PROVE TypeOK
    OBVIOUS
  <2>1. equity \in Int /\ trades \in Seq(Trades)
    BY DEF AccountInv, Account
  <2>2. \A t \in ToSet(trades) : t.side \in Sides /\ t.from \in 1..Bars /\ t.to \in 1..Bars
    <3>1. \A i \in DOMAIN trades : trades[i] \in Trades
      BY <2>1
    <3> QED BY <3>1 DEF ToSet, Trades
  <2>3. pos.side \in Sides \cup {"FLAT"} /\ pos.bar \in 0..Len(closes)
    <3>1. CASE pos = NoPosition
      BY <3>1 DEF NoPosition, AccountInv
    <3>2. CASE pos # NoPosition
      BY <3>2, BacktestConstantsOK DEF AccountInv, Account, Positions
    <3> QED BY <3>1, <3>2
  <2> QED BY <2>1, <2>2, <2>3 DEF AccountInv, TypeOK
<1> QED BY <1>1, AccountInvHolds, PTL

\* Over any sequence of exits, flips and the forced close the equity is the capital,
\* plus what the trades report, minus the entry fees they do not report; and an
\* account that has lost everything stays as it is. Run and buildResult.
THEOREM BooksBalance == Spec => []LedgerBalances
<1>1. AccountInv => LedgerBalances
  <2> SUFFICES ASSUME AccountInv PROVE LedgerBalances
    OBVIOUS
  <2> DEFINE r == FoldValue("trades", NoResult, trades)
             fees == FoldValue("fees", 0, trades)
             paid == Fee(pos.entry, pos.qty)
  <2>1. /\ trades \in Seq(Trades) /\ r \in Results /\ r.wins + r.losses = Len(trades)
        /\ fees \in Int /\ equity = InitialCapital + r.profit - r.loss - fees - paid
        /\ pos # NoPosition => pos \in Positions
    BY DEF AccountInv, Account
  <2>2. WinLoss(trades) = r
    BY <2>1, WinLossFold
  <2>3. paid \in Nat
    <3>1. pos.entry \in Nat /\ pos.qty \in Nat
      BY <2>1 DEF Positions, NoPosition
    <3> QED BY <3>1, FeeIsNatural
  <2>4. EntryFees = paid + fees
    <3>1. EntryFees = FoldValue("fees", paid, trades)
      BY <2>1, EntryFeesFold
    <3>2. FoldValue("fees", paid, trades) = paid + fees
      <4> HIDE DEF paid
      <4> QED BY <2>1, <2>3, FeesFromBase
    <3> QED BY <3>1, <3>2
  <2> HIDE DEF r, fees, paid
  <2>5. r.profit \in Int /\ r.loss \in Int
    BY <2>1 DEF Results
  <2>6. equity = InitialCapital + r.profit - r.loss - EntryFees
    BY <2>1, <2>3, <2>4, <2>5, BacktestConstantsOK
  <2> QED BY <2>1, <2>2, <2>6 DEF LedgerBalances, AccountInv
<1> QED BY <1>1, AccountInvHolds, PTL

-----------------------------------------------------------------------------
(* The drawdown *)

\* Comparing fractions by multiplying them out.
LEMMA Multiplied ==
    ASSUME NEW x \in Int, NEW y \in Int, NEW c \in Nat \ {0}
    PROVE  x <= y <=> x * c <= y * c
<1>1. ASSUME x <= y PROVE x * c <= y * c
  BY <1>1
<1>2. ASSUME y < x PROVE y * c < x * c
  BY <1>2
<1>3. x * c \in Int /\ y * c \in Int
  OBVIOUS
<1> QED BY <1>1, <1>2, <1>3

Drawdowns == [loss : Int, peak : Nat \ {0}]
From(q, x) == [loss |-> q - x, peak |-> q]

LEMMA LargerIsTransitive ==
    ASSUME NEW a \in Drawdowns, NEW b \in Drawdowns, NEW c \in Drawdowns,
           ~Larger(a, b), ~Larger(b, c)
    PROVE  ~Larger(a, c)
<1>1. PICK al \in Int, ap \in Nat \ {0} : al = a.loss /\ ap = a.peak
  BY DEF Drawdowns
<1>2. PICK bl \in Int, bp \in Nat \ {0} : bl = b.loss /\ bp = b.peak
  BY DEF Drawdowns
<1>3. PICK cl \in Int, cp \in Nat \ {0} : cl = c.loss /\ cp = c.peak
  BY DEF Drawdowns
<1>4. al * bp <= bl * ap /\ bl * cp <= cl * bp
  BY <1>1, <1>2, <1>3 DEF Larger
<1>5. (al * bp) * cp <= (bl * ap) * cp
  <2>1. al * bp \in Int /\ bl * ap \in Int
    OBVIOUS
  <2> QED BY <1>4, <2>1, Multiplied
<1>6. (bl * cp) * ap <= (cl * bp) * ap
  <2>1. bl * cp \in Int /\ cl * bp \in Int
    OBVIOUS
  <2> QED BY <1>4, <2>1, Multiplied
<1>7. (al * cp) * bp <= (cl * ap) * bp
  <2>1. /\ (al * bp) * cp = (al * cp) * bp /\ (bl * ap) * cp = (bl * cp) * ap
        /\ (cl * bp) * ap = (cl * ap) * bp
    OBVIOUS
  <2>2. (al * cp) * bp \in Int /\ (bl * cp) * ap \in Int /\ (cl * ap) * bp \in Int
    OBVIOUS
  <2> QED BY <1>5, <1>6, <2>1, <2>2
<1>8. al * cp <= cl * ap
  <2>1. al * cp \in Int /\ cl * ap \in Int
    OBVIOUS
  <2> QED BY <1>7, <2>1, Multiplied
<1>9. al * cp \in Int /\ cl * ap \in Int
  OBVIOUS
<1> QED BY <1>1, <1>3, <1>8, <1>9 DEF Larger

LEMMA LargerIsTotal ==
    ASSUME NEW a \in Drawdowns, NEW b \in Drawdowns, Larger(a, b)
    PROVE  ~Larger(b, a)
<1>1. a.loss * b.peak \in Int /\ b.loss * a.peak \in Int
  BY DEF Drawdowns
<1> QED BY <1>1 DEF Larger

\* Down to a point that is not negative more is lost from a higher peak.
LEMMA HigherPeakLosesMore ==
    ASSUME NEW q \in Nat \ {0}, NEW top \in Nat \ {0}, q <= top, NEW x \in Nat
    PROVE  ~Larger(From(q, x), From(top, x))
<1>1. x * q <= x * top
  OBVIOUS
<1>2. /\ (q - x) * top = q * top - x * top /\ (top - x) * q = top * q - x * q
      /\ q * top = top * q
  OBVIOUS
<1>3. q * top \in Int /\ x * top \in Int /\ x * q \in Int
  OBVIOUS
<1>4. (q - x) * top <= (top - x) * q
  BY <1>1, <1>2, <1>3
<1>5. (q - x) * top \in Int /\ (top - x) * q \in Int
  OBVIOUS
<1> QED BY <1>4, <1>5 DEF Larger, From

\* The state a of the loop of buildResult after m points of a curve: its top is
\* their highest, or the first point, and the drawdown is the largest among them.
TopOf(eqs, a, m) ==
    /\ a.top \in Nat \ {0} /\ \A i \in 1..m : eqs[i] <= a.top
    /\ \E i \in 1..Len(eqs) : i <= m + 1 /\ eqs[i] = a.top

NoneLarger(eqs, a, m) ==
    \A i, j \in 1..m : i <= j /\ eqs[i] > 0 /\ eqs[j] >= 0 => ~Larger(From(eqs[i], eqs[j]), a.max)

Attained(eqs, a) ==
    \E i, j \in 1..Len(eqs) : i <= j /\ eqs[i] > 0 /\ ~Larger(a.max, From(eqs[i], eqs[j]))

LoopState(eqs, a, m) ==
    a.max \in Drawdowns /\ TopOf(eqs, a, m) /\ NoneLarger(eqs, a, m) /\ Attained(eqs, a)

\* The loop starts in such a state, and every point of the curve keeps it.
LEMMA LoopStarts ==
    ASSUME NEW eqs \in Seq(Int), Len(eqs) > 0, eqs[1] > 0
    PROVE  LoopState(eqs, [top |-> eqs[1], max |-> NoLoss], 0)
<1> DEFINE a == [top |-> eqs[1], max |-> NoLoss]
<1>1. Len(eqs) \in Nat /\ 1 \in 1..Len(eqs) /\ eqs[1] \in Nat \ {0}
  OBVIOUS
<1>2. a.max = NoLoss /\ a.top = eqs[1] /\ NoLoss \in Drawdowns
  BY DEF NoLoss, Drawdowns
<1>3. ~Larger(NoLoss, From(eqs[1], eqs[1]))
  BY <1>1 DEF Larger, NoLoss, From
<1> HIDE DEF a
<1>4. TopOf(eqs, a, 0) /\ NoneLarger(eqs, a, 0)
  BY <1>1, <1>2 DEF TopOf, NoneLarger
<1>5. Attained(eqs, a)
  BY <1>1, <1>2, <1>3 DEF Attained
<1> QED BY <1>2, <1>4, <1>5 DEF LoopState, a

LEMMA LoopGoesOn ==
    ASSUME NEW eqs \in Seq(Int), NEW m \in Nat, m + 1 <= Len(eqs), NEW a, LoopState(eqs, a, m)
    PROVE  LoopState(eqs, Step("peaks", a, eqs[m + 1]), m + 1)
<1> DEFINE x == eqs[m + 1]
           peak == IF x > a.top THEN x ELSE a.top
           dd == From(peak, x)
           c == Step("peaks", a, x)
<1>1. PICK n \in Nat : n = Len(eqs)
  OBVIOUS
<1>2. \A j \in 1..n : eqs[j] \in Int
  BY <1>1
<1>3. m + 1 \in 1..n /\ x \in Int
  BY <1>1
<1>4. c.top = peak /\ c.max = IF Larger(dd, a.max) THEN dd ELSE a.max
  BY DEF Step, From
<1>5. a.max \in Drawdowns /\ a.top \in Nat \ {0}
  BY DEF LoopState, TopOf
<1>6. /\ peak \in Nat \ {0} /\ a.top <= peak /\ x <= peak
      /\ peak = x \/ peak = a.top
  BY <1>3, <1>5
<1> HIDE DEF c, peak, x
<1>7. TopOf(eqs, c, m + 1)
  <2>1. ASSUME NEW i \in 1..m + 1 PROVE eqs[i] <= peak
    <3>1. CASE i = m + 1
      BY <1>6, <3>1 DEF x
    <3>2. CASE i # m + 1
      <4>1. i \in 1..m /\ i \in 1..n
        BY <1>3, <3>2
      <4>2. eqs[i] \in Int /\ eqs[i] <= a.top
        BY <1>2, <4>1 DEF LoopState, TopOf
      <4> QED BY <1>5, <1>6, <4>2
    <3> QED BY <3>1, <3>2
  <2>2. \E i \in 1..n : i <= (m + 1) + 1 /\ eqs[i] = peak
    <3>1. PICK i \in 1..n : i <= m + 1 /\ eqs[i] = a.top
      BY <1>1 DEF LoopState, TopOf
    <3> QED BY <1>3, <1>6, <3>1 DEF x
  <2> QED BY <1>1, <1>4, <1>6, <2>1, <2>2 DEF TopOf
<1>8. dd \in Drawdowns
  BY <1>3, <1>6 DEF Drawdowns, From
<1>9. \A d \in Drawdowns : ~Larger(d, d)
  BY DEF Larger, Drawdowns
<1> HIDE DEF dd
<1>10. /\ c.max \in Drawdowns
       /\ ~Larger(dd, c.max) /\ ~Larger(a.max, c.max)
  BY <1>4, <1>5, <1>8, <1>9, LargerIsTotal
<1>11. NoneLarger(eqs, c, m + 1)
  <2> SUFFICES ASSUME NEW i \in 1..m + 1, NEW j \in 1..m + 1, i <= j, eqs[i] > 0, eqs[j] >= 0
               PROVE  ~Larger(From(eqs[i], eqs[j]), c.max)
    BY DEF NoneLarger
  <2>1. eqs[i] \in Nat \ {0} /\ eqs[j] \in Nat
    <3>1. i \in 1..n /\ j \in 1..n
      BY <1>3
    <3> QED BY <1>2, <3>1
  <2>2. From(eqs[i], eqs[j]) \in Drawdowns
    BY <2>1 DEF From, Drawdowns
  <2>3. CASE j = m + 1
    <3>1. eqs[i] <= peak
      BY <1>4, <1>7 DEF TopOf
    <3>2. x \in Nat /\ x = eqs[j]
      BY <2>1, <2>3 DEF x
    <3>3. ~Larger(From(eqs[i], x), dd)
      BY <1>6, <2>1, <3>1, <3>2, HigherPeakLosesMore DEF dd
    <3> QED BY <1>8, <1>10, <2>2, <3>2, <3>3, LargerIsTransitive
  <2>4. CASE j # m + 1
    <3>1. i \in 1..m /\ j \in 1..m
      BY <2>4
    <3>2. ~Larger(From(eqs[i], eqs[j]), a.max)
      BY <3>1 DEF LoopState, NoneLarger
    <3> QED BY <1>5, <1>10, <2>2, <3>2, LargerIsTransitive
  <2> QED BY <2>3, <2>4
<1>12. Attained(eqs, c)
  <2>1. CASE Larger(dd, a.max)
    <3>1. PICK i \in 1..n : i <= m + 1 /\ eqs[i] = a.top
      BY <1>1 DEF LoopState, TopOf
    <3>2. \E k, j \in 1..n : k <= j /\ eqs[k] > 0 /\ dd = From(eqs[k], eqs[j])
      <4>1. CASE peak = x
        BY <1>3, <1>6, <4>1 DEF dd, x
      <4>2. CASE peak = a.top
        BY <1>3, <1>6, <3>1, <4>2 DEF dd, x
      <4> QED BY <1>6, <4>1, <4>2
    <3> QED BY <1>1, <1>4, <1>8, <1>9, <2>1, <3>2 DEF Attained
  <2>2. CASE ~Larger(dd, a.max)
    BY <1>4, <2>2 DEF LoopState, Attained
  <2> QED BY <2>1, <2>2
<1> QED BY <1>7, <1>10, <1>11, <1>12 DEF LoopState, c, x

\* What the loop finds in a curve that starts above zero.
LEMMA LargestDrawdown ==
    ASSUME NEW eqs \in Seq(Int), Len(eqs) > 0, eqs[1] > 0
    PROVE  LET dd == MaxDrawdown(eqs)
           IN  /\ \A i, j \in 1..Len(eqs) :
                     i <= j /\ eqs[i] > 0 /\ eqs[j] >= 0 => ~Larger(From(eqs[i], eqs[j]), dd)
               /\ \E i, j \in 1..Len(eqs) :
                     i <= j /\ eqs[i] > 0 /\ ~Larger(dd, From(eqs[i], eqs[j]))
<1> DEFINE b == [top |-> eqs[1], max |-> NoLoss]
<1>1. PICK n \in Nat : n = Len(eqs) /\ n > 0
  OBVIOUS
<1>2. PICK f : /\ f[0] = b /\ f[n] = FoldValue("peaks", b, eqs)
               /\ \A j \in 0..n - 1 : f[j + 1] = Step("peaks", f[j], eqs[j + 1])
  BY <1>1, FoldRun
<1> DEFINE T == {m \in Nat : m <= n => LoopState(eqs, f[m], m)}
<1>3. 0 \in T
  BY <1>2, LoopStarts
<1> HIDE DEF b
<1>4. ASSUME NEW m \in Nat, m \in T PROVE m + 1 \in T
  <2>1. ASSUME m + 1 <= n PROVE LoopState(eqs, f[m + 1], m + 1)
    <3>1. LoopState(eqs, f[m], m) /\ m \in 0..n - 1
      BY <1>4, <2>1
    <3>2. LoopState(eqs, Step("peaks", f[m], eqs[m + 1]), m + 1)
      BY <1>1, <2>1, <3>1, LoopGoesOn
    <3> QED BY <1>2, <3>1, <3>2
  <2> QED BY <2>1
<1>5. LoopState(eqs, f[n], n)
  <2>1. n \in T
    <3> HIDE DEF T
    <3> QED BY <1>3, <1>4, NatSetInduction
  <2> QED BY <2>1
<1>6. MaxDrawdown(eqs) = f[n].max
  BY <1>2, MaxDrawdownFold DEF b
<1> QED BY <1>1, <1>5, <1>6 DEF LoopState, NoneLarger, Attained

\* For a curve of any length, the one pass of buildResult finds a drawdown that is
\* attained and that no two points exceed, while the equity is not negative.
THEOREM DrawdownIsFound == Spec => []DrawdownIsLargest
<1>1. AccountInv => DrawdownIsLargest
  <2> SUFFICES ASSUME AccountInv, ended PROVE DrawdownIsLargest
    BY DEF DrawdownIsLargest
  <2> DEFINE dd == MaxDrawdown(curve)
             pairs == {ij \in (DOMAIN curve) \X (DOMAIN curve) :
                          ij[1] <= ij[2] /\ curve[ij[1]] > 0}
  <2>1. curve \in Seq(Int) /\ Len(curve) > 0 /\ curve[1] > 0 /\ DOMAIN curve = 1..Len(curve)
    BY BacktestConstantsOK DEF AccountInv
  <2>2. \A i, j \in DOMAIN curve :
           i <= j /\ curve[i] > 0 /\ curve[j] >= 0 => ~Larger(From(curve[i], curve[j]), dd)
    BY <2>1, LargestDrawdown
  <2>3. \E i, j \in DOMAIN curve :
           i <= j /\ curve[i] > 0 /\ ~Larger(dd, From(curve[i], curve[j]))
    BY <2>1, LargestDrawdown
  <2> HIDE DEF dd
  <2>4. \A ij \in pairs :
           curve[ij[2]] >= 0 => ~Larger(From(curve[ij[1]], curve[ij[2]]), dd)
    BY <2>2
  <2>5. \E ij \in pairs : ~Larger(dd, From(curve[ij[1]], curve[ij[2]]))
    <3>1. PICK i \in DOMAIN curve, j \in DOMAIN curve :
              i <= j /\ curve[i] > 0 /\ ~Larger(dd, From(curve[i], curve[j]))
      BY <2>3
    <3>2. <<i, j>> \in pairs /\ <<i, j>>[1] = i /\ <<i, j>>[2] = j
      BY <3>1
    <3> HIDE DEF pairs
    <3> QED BY <3>1, <3>2
  <2> QED BY <2>4, <2>5 DEF DrawdownIsLargest, From, dd
<1> QED BY <1>1, AccountInvHolds, PTL
===============================================================================
