--------------------------- MODULE MarketFeedProofs ---------------------------
(***************************************************************************)
(* Proofs about MarketFeed, for any prices, spellings, quantities, bars    *)
(* and number of messages on the way: what the live book shows of the      *)
(* exchange, and that the candles follow its bars in whatever order they   *)
(* arrive.                                                                 *)
(***************************************************************************)
EXTENDS MarketFeed, SequenceTheorems, TLAPS

Candles == [time : Int, close : Int]

\* What can be on the way.
KLine(c) == [event |-> "kline.update", candle |-> c]
Messages == {DepthMessage(m) : m \in Markets} \cup {KLine(c) : c \in Candles}

LEMMA MarketValues ==
    ASSUME NEW m \in Markets, NEW s \in BookSides, NEW p \in Prices
    PROVE  m[s][p] \in Quantities
BY DEF Markets

-----------------------------------------------------------------------------
(* The candles *)

BarType == [time : Nat \ {0}, close : {1, 2}]

\* The klines among the messages f, and the bars they are of.
KLines(f) == {i \in DOMAIN f : f[i].event = "kline.update"}
TimeOf(f, i) == f[i].candle.time
IsSent(f, t) == \E i \in KLines(f) : TimeOf(f, i) = t

\* Klines arrive in the order of their bars, no bar is skipped up to the newest, and
\* the last kline of a bar has its present close; no kline is of an older bar than
\* there are messages behind it.
Stream(f, bs) ==
    /\ \A i, j \in KLines(f) : i <= j => TimeOf(f, i) <= TimeOf(f, j)
    /\ \A i \in KLines(f) :
          /\ f[i].candle \in BarType /\ TimeOf(f, i) <= Len(bs)
          /\ Len(bs) - TimeOf(f, i) <= Len(f) - i
          /\ \A t \in TimeOf(f, i) + 1 .. Len(bs) : IsSent(f, t)
          /\ \/ f[i].candle = bs[TimeOf(f, i)]
             \/ \E j \in KLines(f) : i < j /\ TimeOf(f, j) = TimeOf(f, i)

\* One candle for each of some successive bars, up to bar n at most.
Contiguous(cs, n) ==
    /\ cs \in Seq(BarType) /\ Len(cs) <= MaxLen
    /\ \A i \in DOMAIN cs : cs[i].time <= n /\ cs[i].time = cs[1].time + i - 1

\* As many of them as the buffer holds.
Full(cs) == cs # <<>> /\ (Len(cs) = MaxLen \/ cs[1].time = 1)

\* No kline on the way is too old for the buffer.
InReach(cs, f) == cs # <<>> => \A i \in KLines(f) : cs[1].time <= TimeOf(f, i)

\* Whatever differs from the bars or is missing will be set right by a kline.
Follows(cs, bs, f) ==
    cs # <<>> => /\ \A i \in DOMAIN cs : cs[i] = bs[cs[i].time] \/ IsSent(f, cs[i].time)
                 /\ \A t \in cs[Len(cs)].time + 1 .. Len(bs) : IsSent(f, t)

\* Candles in order, where klines have a candle of their bar or come after all.
Increasing(cs, n, f) ==
    /\ cs \in Seq(BarType) /\ Len(cs) <= MaxLen
    /\ \A i \in DOMAIN cs : cs[i].time <= n
    /\ \A i, j \in DOMAIN cs : i < j => cs[i].time < cs[j].time
    /\ \A k \in KLines(f) : \/ \E i \in DOMAIN cs : cs[i].time = TimeOf(f, k)
                            \/ cs # <<>> => cs[Len(cs)].time < TimeOf(f, k)

\* The bars of the exchange, and how they move on.
AreBars(bs) == bs \in Seq(BarType) /\ bs # <<>> /\ \A i \in DOMAIN bs : bs[i].time = i
Moved(bs, bs2) ==
    /\ AreBars(bs) /\ AreBars(bs2) /\ Len(bs2) \in {Len(bs), Len(bs) + 1}
    /\ \A i \in 1..Len(bs2) - 1 : bs2[i] = bs[i]

\* What SMT is told of a sequence.
LEMMA LenOK == \A S : \A s \in Seq(S) : /\ Len(s) \in Nat /\ DOMAIN s = 1..Len(s)
                                        /\ (s # <<>> <=> Len(s) >= 1)
                                        /\ \A i \in 1..Len(s) : s[i] \in S
<1> SUFFICES ASSUME NEW S, NEW s \in Seq(S)
             PROVE  /\ Len(s) \in Nat /\ DOMAIN s = 1..Len(s)
                    /\ (s # <<>> <=> Len(s) >= 1)
                    /\ \A i \in 1..Len(s) : s[i] \in S
  OBVIOUS
<1> QED OBVIOUS

\* Bars count from 1.
LEMMA BarTimes == \A c \in BarType : c.time \in Nat /\ c.time >= 1
BY DEF BarType

-----------------------------------------------------------------------------
(* Messages sent and handled *)

\* Another message than a kline is no kline.
LEMMA OtherAppended ==
    ASSUME NEW f \in Seq(Messages), NEW e \in Messages, e.event # "kline.update"
    PROVE  LET g == Append(f, e)
           IN  /\ KLines(g) = KLines(f) /\ \A i \in KLines(f) : g[i] = f[i]
               /\ Len(g) = Len(f) + 1
<1>1. PICK n \in Nat : n = Len(f)
  OBVIOUS
<1>2. PICK g : g = Append(f, e)
  OBVIOUS
<1>3. /\ DOMAIN f = 1..n /\ DOMAIN g = 1..n + 1 /\ Len(g) = n + 1
      /\ g[n + 1] = e /\ \A i \in 1..n : g[i] = f[i]
  BY <1>1, <1>2
<1>4. \A i : i \in KLines(g) <=> i \in KLines(f)
  <2>1. \A i : i \in 1..n + 1 <=> i \in 1..n \/ i = n + 1
    OBVIOUS
  <2> QED BY <1>3, <2>1 DEF KLines
<1>5. KLines(g) = KLines(f) /\ \A i \in KLines(f) : g[i] = f[i]
  BY <1>3, <1>4 DEF KLines
<1> QED BY <1>1, <1>2, <1>3, <1>5

\* A kline that is pushed is the last of them.
LEMMA KLineAppended ==
    ASSUME NEW f \in Seq(Messages), NEW c \in Candles
    PROVE  LET g == Append(f, KLine(c))
               n == Len(f)
           IN  /\ KLines(g) = KLines(f) \cup {n + 1} /\ \A i \in KLines(f) : g[i] = f[i] /\ i \in 1..n
               /\ Len(g) = n + 1 /\ g[n + 1].candle = c /\ TimeOf(g, n + 1) = c.time
<1>1. PICK n \in Nat : n = Len(f)
  OBVIOUS
<1>2. PICK g : g = Append(f, KLine(c))
  OBVIOUS
<1>3. /\ DOMAIN f = 1..n /\ DOMAIN g = 1..n + 1 /\ Len(g) = n + 1
      /\ g[n + 1] = KLine(c) /\ \A i \in 1..n : g[i] = f[i]
  BY <1>1, <1>2
<1>4. KLine(c).event = "kline.update" /\ KLine(c).candle = c
  BY DEF KLine
<1>5. \A i : i \in KLines(g) <=> i \in KLines(f) \/ i = n + 1
  <2>1. \A i : i \in 1..n + 1 <=> i \in 1..n \/ i = n + 1
    OBVIOUS
  <2> QED BY <1>3, <1>4, <2>1 DEF KLines
<1>6. KLines(g) = KLines(f) \cup {n + 1} /\ \A i \in KLines(f) : g[i] = f[i] /\ i \in 1..n
  BY <1>3, <1>5 DEF KLines
<1>7. g[n + 1].candle = c /\ TimeOf(g, n + 1) = c.time
  BY <1>3, <1>4 DEF TimeOf
<1> QED BY <1>1, <1>2, <1>3, <1>6, <1>7

\* When a message is handled the others move up.
LEMMA FirstHandled ==
    ASSUME NEW f \in Seq(Messages), f # <<>>
    PROVE  LET g == Tail(f)
           IN  /\ \A i \in KLines(g) : i + 1 \in KLines(f) /\ g[i] = f[i + 1] /\ i \in Nat \ {0}
               /\ \A i \in KLines(f) : i \in Nat \ {0} /\ (i # 1 => i - 1 \in KLines(g) /\ g[i - 1] = f[i])
               /\ Len(g) = Len(f) - 1 /\ Len(f) \in Nat /\ g \in Seq(Messages)
<1>1. PICK n \in Nat : n = Len(f)
  OBVIOUS
<1>2. PICK g : g = Tail(f)
  OBVIOUS
<1>3. /\ n >= 1 /\ DOMAIN f = 1..n /\ DOMAIN g = 1..n - 1 /\ Len(g) = n - 1
      /\ g \in Seq(Messages)
      /\ \A i \in 1..n - 1 : g[i] = f[i + 1]
  BY <1>1, <1>2
<1>4. ASSUME NEW i \in KLines(g) PROVE i + 1 \in KLines(f) /\ g[i] = f[i + 1] /\ i \in Nat \ {0}
  BY <1>3 DEF KLines
<1>5. ASSUME NEW i \in KLines(f)
      PROVE  i \in Nat \ {0} /\ (i # 1 => i - 1 \in KLines(g) /\ g[i - 1] = f[i])
  <2>1. i \in 1..n
    BY <1>3 DEF KLines
  <2>2. CASE i # 1
    <3>1. i - 1 \in 1..n - 1 /\ (i - 1) + 1 = i
      BY <2>1, <2>2
    <3>2. g[i - 1] = f[i]
      BY <1>3, <3>1
    <3> QED BY <1>3, <2>1, <3>1, <3>2 DEF KLines
  <2> QED BY <2>1, <2>2
<1> QED BY <1>1, <1>2, <1>3, <1>4, <1>5

-----------------------------------------------------------------------------
(* The stream of klines *)

\* Another message leaves the stream of klines as it is ...
LEMMA StreamOther ==
    ASSUME NEW f \in Seq(Messages), NEW e \in Messages, e.event # "kline.update",
           NEW bs, AreBars(bs), Stream(f, bs)
    PROVE  Stream(Append(f, e), bs) /\ \A t : IsSent(Append(f, e), t) <=> IsSent(f, t)
<1>1. PICK g : g = Append(f, e)
  OBVIOUS
<1>2. KLines(g) = KLines(f) /\ (\A i \in KLines(f) : g[i] = f[i]) /\ Len(g) = Len(f) + 1
  BY <1>1, OtherAppended
<1>3. \A i \in KLines(f) : TimeOf(g, i) = TimeOf(f, i)
  BY <1>2 DEF TimeOf
<1>4. \A t : IsSent(g, t) <=> IsSent(f, t)
  BY <1>2, <1>3 DEF IsSent
<1>5. ASSUME NEW i \in KLines(f) PROVE Len(bs) - TimeOf(g, i) <= Len(g) - i
  <2>1. Len(bs) - TimeOf(f, i) <= Len(f) - i /\ f[i].candle \in BarType
    BY DEF Stream
  <2>2. Len(bs) \in Nat /\ Len(f) \in Nat /\ i \in Nat /\ TimeOf(f, i) \in Nat
    BY <2>1, BarTimes DEF AreBars, KLines, TimeOf
  <2> QED BY <1>2, <1>3, <2>1, <2>2
<1>6. Stream(g, bs)
  BY <1>2, <1>3, <1>4, <1>5 DEF Stream
<1> QED BY <1>1, <1>4, <1>6

\* ... the kline of a bar that has moved on continues it ...
LEMMA StreamKLine ==
    ASSUME NEW f \in Seq(Messages), NEW bs, NEW bs2, Moved(bs, bs2), Stream(f, bs)
    PROVE  LET g == Append(f, KLine(bs2[Len(bs2)]))
           IN  /\ Stream(g, bs2)
               /\ \A t : IsSent(g, t) <=> IsSent(f, t) \/ t = Len(bs2)
<1>1. PICK c : c = bs2[Len(bs2)]
  OBVIOUS
<1>2. PICK g : g = Append(f, KLine(c))
  OBVIOUS
<1>3. PICK n \in Nat : n = Len(f)
  OBVIOUS
<1>4. PICK m \in Nat : m = Len(bs)
  BY LenOK DEF Moved, AreBars
<1>5. PICK m2 \in Nat \ {0} : m2 = Len(bs2)
  BY LenOK DEF Moved, AreBars
<1>6. /\ m2 = m \/ m2 = m + 1
      /\ c \in BarType /\ c.time = m2 /\ bs2[m2] = c
      /\ \A i \in 1..m2 - 1 : bs2[i] = bs[i]
  BY <1>1, <1>4, <1>5, LenOK DEF Moved, AreBars
<1>7. c \in Candles
  BY <1>6 DEF BarType, Candles
<1>8. /\ KLines(g) = KLines(f) \cup {n + 1} /\ (\A i \in KLines(f) : g[i] = f[i] /\ i \in 1..n)
      /\ Len(g) = n + 1 /\ g[n + 1].candle = c /\ TimeOf(g, n + 1) = m2
  BY <1>2, <1>3, <1>6, <1>7, KLineAppended
<1>9. \A i \in KLines(f) : TimeOf(g, i) = TimeOf(f, i) /\ g[i].candle = f[i].candle
  BY <1>8 DEF TimeOf
<1>10. \A t : IsSent(g, t) <=> IsSent(f, t) \/ t = m2
  BY <1>8, <1>9 DEF IsSent
<1>11. ASSUME NEW i \in KLines(f)
       PROVE  /\ f[i].candle \in BarType /\ TimeOf(f, i) \in 1..m
              /\ m - TimeOf(f, i) <= n - i
  BY <1>3, <1>4, BarTimes DEF Stream, TimeOf
<1>12. ASSUME NEW i \in KLines(g), NEW j \in KLines(g), i <= j
       PROVE  TimeOf(g, i) <= TimeOf(g, j)
  <2>1. CASE j = n + 1
    <3>1. CASE i = n + 1
      BY <1>8, <2>1, <3>1
    <3>2. CASE i # n + 1
      <4>1. i \in KLines(f)
        BY <1>8, <3>2
      <4>2. TimeOf(g, i) \in 1..m
        BY <1>9, <1>11, <4>1
      <4>3. TimeOf(g, j) = m2
        BY <1>8, <2>1
      <4> QED BY ONLY <1>4, <1>5, <1>6, <4>2, <4>3
    <3> QED BY <3>1, <3>2
  <2>2. CASE j # n + 1
    <3>1. j \in KLines(f) /\ j \in 1..n
      BY <1>8, <2>2
    <3>2. i \in KLines(f)
      BY <1>8, <1>12, <3>1
    <3> QED BY <1>9, <1>12, <3>1, <3>2 DEF Stream
  <2> QED BY <2>1, <2>2
<1>13. ASSUME NEW i \in KLines(g)
       PROVE  /\ g[i].candle \in BarType /\ TimeOf(g, i) <= m2
              /\ m2 - TimeOf(g, i) <= (n + 1) - i
              /\ \A t \in TimeOf(g, i) + 1 .. m2 : IsSent(g, t)
              /\ \/ g[i].candle = bs2[TimeOf(g, i)]
                 \/ \E j \in KLines(g) : i < j /\ TimeOf(g, j) = TimeOf(g, i)
  <2>1. CASE i = n + 1
    BY <1>6, <1>8, <2>1
  <2>2. CASE i # n + 1
    <3>1. i \in KLines(f) /\ i \in 1..n
      BY <1>8, <2>2
    <3>2. f[i].candle \in BarType /\ TimeOf(f, i) \in 1..m /\ m - TimeOf(f, i) <= n - i
          /\ TimeOf(g, i) = TimeOf(f, i) /\ g[i].candle = f[i].candle
      BY <1>9, <1>11, <3>1
    <3>3. TimeOf(g, i) <= m2 /\ m2 - TimeOf(g, i) <= (n + 1) - i
      BY <1>6, <3>1, <3>2
    <3>4. \A t \in TimeOf(g, i) + 1 .. m2 : IsSent(g, t)
      <4> SUFFICES ASSUME NEW t \in TimeOf(f, i) + 1 .. m2, t # m2 PROVE IsSent(f, t)
        BY <1>10, <3>2
      <4>1. t \in TimeOf(f, i) + 1 .. Len(bs)
        BY <1>4, <1>6, <3>2
      <4> QED BY <3>1, <4>1 DEF Stream
    <3>5. \/ g[i].candle = bs2[TimeOf(g, i)]
          \/ \E j \in KLines(g) : i < j /\ TimeOf(g, j) = TimeOf(g, i)
      <4>1. CASE TimeOf(f, i) = m2
        <5>1. n + 1 \in KLines(g) /\ i < n + 1 /\ TimeOf(g, n + 1) = TimeOf(g, i)
          BY <1>8, <3>1, <3>2, <4>1
        <5> QED BY <5>1
      <4>2. CASE TimeOf(f, i) # m2
        <5>1. bs2[TimeOf(f, i)] = bs[TimeOf(f, i)]
          BY <1>6, <3>2, <4>2
        <5>2. \/ f[i].candle = bs[TimeOf(f, i)]
              \/ \E j \in KLines(f) : i < j /\ TimeOf(f, j) = TimeOf(f, i)
          BY <3>1 DEF Stream
        <5> QED BY <1>8, <1>9, <3>2, <5>1, <5>2
      <4> QED BY <4>1, <4>2
    <3> QED BY <3>2, <3>3, <3>4, <3>5
  <2> QED BY <2>1, <2>2
<1>14. Stream(g, bs2)
  BY <1>5, <1>8, <1>12, <1>13 DEF Stream
<1> QED BY <1>1, <1>2, <1>5, <1>10, <1>14

\* ... and handling the first message takes that one off at most.
LEMMA StreamTail ==
    ASSUME NEW f \in Seq(Messages), f # <<>>, NEW bs, AreBars(bs), Stream(f, bs)
    PROVE  /\ Stream(Tail(f), bs)
           /\ \A t : IsSent(f, t) => IsSent(Tail(f), t) \/ (1 \in KLines(f) /\ TimeOf(f, 1) = t)
           /\ \A t : IsSent(Tail(f), t) => IsSent(f, t)
<1>1. PICK g : g = Tail(f)
  OBVIOUS
<1>2. /\ \A i \in KLines(g) : i + 1 \in KLines(f) /\ g[i] = f[i + 1] /\ i \in Nat \ {0}
      /\ \A i \in KLines(f) : i \in Nat \ {0} /\ (i # 1 => i - 1 \in KLines(g) /\ g[i - 1] = f[i])
      /\ Len(g) = Len(f) - 1 /\ Len(f) \in Nat
  BY <1>1, FirstHandled
<1>3. /\ \A i \in KLines(g) : TimeOf(g, i) = TimeOf(f, i + 1)
      /\ \A i \in KLines(f) : i # 1 => TimeOf(g, i - 1) = TimeOf(f, i)
  BY <1>2 DEF TimeOf
<1>4. \A t : IsSent(f, t) => IsSent(g, t) \/ (1 \in KLines(f) /\ TimeOf(f, 1) = t)
  BY <1>2, <1>3 DEF IsSent
<1>5. \A t : IsSent(g, t) => IsSent(f, t)
  BY <1>2, <1>3 DEF IsSent
<1>6. ASSUME NEW i \in KLines(g), NEW j \in KLines(g), i <= j
      PROVE  TimeOf(g, i) <= TimeOf(g, j)
  <2>1. i + 1 \in KLines(f) /\ j + 1 \in KLines(f) /\ i + 1 <= j + 1
    BY <1>2, <1>6
  <2> QED BY <1>3, <2>1 DEF Stream
<1>7. ASSUME NEW i \in KLines(g)
      PROVE  /\ g[i].candle \in BarType /\ TimeOf(g, i) <= Len(bs)
             /\ Len(bs) - TimeOf(g, i) <= Len(g) - i
             /\ \A t \in TimeOf(g, i) + 1 .. Len(bs) : IsSent(g, t)
             /\ \/ g[i].candle = bs[TimeOf(g, i)]
                \/ \E j \in KLines(g) : i < j /\ TimeOf(g, j) = TimeOf(g, i)
  <2>1. i + 1 \in KLines(f) /\ g[i] = f[i + 1] /\ TimeOf(g, i) = TimeOf(f, i + 1) /\ i \in Nat \ {0}
    BY <1>2, <1>3
  <2>2. /\ f[i + 1].candle \in BarType /\ TimeOf(f, i + 1) <= Len(bs)
        /\ Len(bs) - TimeOf(f, i + 1) <= Len(f) - (i + 1)
        /\ \A t \in TimeOf(f, i + 1) + 1 .. Len(bs) : IsSent(f, t)
        /\ \/ f[i + 1].candle = bs[TimeOf(f, i + 1)]
           \/ \E j \in KLines(f) : i + 1 < j /\ TimeOf(f, j) = TimeOf(f, i + 1)
    BY <2>1 DEF Stream
  <2>3. Len(bs) - TimeOf(g, i) <= Len(g) - i
    <3>1. Len(bs) \in Nat /\ TimeOf(f, i + 1) \in Nat
      BY <2>2, BarTimes, LenOK DEF AreBars, TimeOf
    <3> QED BY <1>2, <2>1, <2>2, <3>1
  <2>4. \A t \in TimeOf(g, i) + 1 .. Len(bs) : IsSent(g, t)
    <3> SUFFICES ASSUME NEW t \in TimeOf(f, i + 1) + 1 .. Len(bs) PROVE IsSent(g, t)
      BY <2>1
    <3>1. IsSent(f, t)
      BY <2>2
    <3>2. ASSUME 1 \in KLines(f), TimeOf(f, 1) = t PROVE FALSE
      <4>1. 1 <= i + 1
        BY <2>1
      <4>2. TimeOf(f, 1) <= TimeOf(f, i + 1)
        BY <2>1, <3>2, <4>1 DEF Stream
      <4>3. TimeOf(f, i + 1) \in Nat /\ Len(bs) \in Nat
        BY <2>2, BarTimes, LenOK DEF AreBars, TimeOf
      <4> QED BY <3>2, <4>2, <4>3
    <3> QED BY <1>4, <3>1, <3>2
  <2>5. \/ g[i].candle = bs[TimeOf(g, i)]
        \/ \E j \in KLines(g) : i < j /\ TimeOf(g, j) = TimeOf(g, i)
    <3>1. CASE f[i + 1].candle = bs[TimeOf(f, i + 1)]
      BY <2>1, <3>1
    <3>2. CASE \E j \in KLines(f) : i + 1 < j /\ TimeOf(f, j) = TimeOf(f, i + 1)
      <4>1. PICK j \in KLines(f) : i + 1 < j /\ TimeOf(f, j) = TimeOf(f, i + 1)
        BY <3>2
      <4>2. j \in Nat /\ j # 1 /\ j - 1 \in KLines(g) /\ i < j - 1
        BY <1>2, <2>1, <4>1
      <4> QED BY <1>3, <2>1, <4>1, <4>2
    <3> QED BY <2>2, <3>1, <3>2
  <2> QED BY <2>1, <2>2, <2>3, <2>4, <2>5
<1>8. Stream(g, bs)
  BY <1>6, <1>7 DEF Stream
<1> QED BY <1>1, <1>4, <1>5, <1>8

(* The buffer *)

\* r is the last MaxLen of the candles cs.
Newest(r, cs) ==
    \E n \in Nat, d \in Nat :
        /\ n = Len(cs) /\ d <= n
        /\ (n <= MaxLen => d = 0) /\ (n > MaxLen => d = n - MaxLen)
        /\ r \in Seq(BarType) /\ Len(r) = n - d
        /\ \A i \in 1..n - d : r[i] = cs[i + d]

\* r has c in the place of the candle of its time.
Replaces(r, cs, c) ==
    \E n \in Nat : \E x \in 1..n :
        /\ n = Len(cs) /\ cs[x].time = c.time
        /\ r \in Seq(BarType) /\ Len(r) = n /\ r[x] = c
        /\ \A i \in 1..n : i # x => r[i] = cs[i] /\ cs[i].time # c.time

\* r has c at the end, where no candle had its time, and the oldest of a full buffer is gone.
Extends(r, cs, c) ==
    \E n \in Nat, m \in Nat, d \in {0, 1} :
        /\ n = Len(cs) /\ m = n + 1 - d /\ m >= 1 /\ m <= MaxLen
        /\ d = 1 <=> n = MaxLen
        /\ \A i \in 1..n : cs[i].time # c.time
        /\ r \in Seq(BarType) /\ Len(r) = m /\ r[m] = c
        /\ \A i \in 1..m - 1 : i + d \in 1..n /\ r[i] = cs[i + d]

\* Capped keeps the newest candles.
LEMMA CappedIsNewest == ASSUME NEW cs \in Seq(BarType) PROVE Newest(Capped(cs), cs)
<1>1. PICK n \in Nat : n = Len(cs)
  OBVIOUS
<1>2. MaxLen \in Nat \ {0}
  BY MaxLenOK
<1>3. PICK d : d = IF n > MaxLen THEN n - MaxLen ELSE 0
  OBVIOUS
<1>4. d \in Nat /\ d <= n /\ (n <= MaxLen => d = 0) /\ (n > MaxLen => d = n - MaxLen)
  <2>1. CASE n > MaxLen
    BY <1>2, <1>3, <2>1
  <2>2. CASE ~(n > MaxLen)
    BY <1>2, <1>3, <2>2
  <2> QED BY <2>1, <2>2
<1>5. Capped(cs) = SubSeq(cs, d + 1, n)
  <2>1. CASE n > MaxLen
    BY <1>1, <1>2, <1>3, <2>1 DEF Capped
  <2>2. CASE ~(n > MaxLen)
    BY <1>1, <1>2, <1>3, <2>2 DEF Capped
  <2> QED BY <2>1, <2>2
<1>6. PICK r : r = SubSeq(cs, d + 1, n)
  OBVIOUS
<1>7. r \in Seq(BarType) /\ Len(r) = n - d /\ \A i \in 1..n - d : r[i] = cs[i + d]
  <2>1. d + 1 \in Int /\ n \in Int /\ n - (d + 1) + 1 = n - d
    BY <1>4
  <2>2. \A i \in d + 1 .. n : cs[i] \in BarType
    BY <1>1, <1>4
  <2>3. /\ r \in Seq(BarType) /\ Len(r) = IF d + 1 <= n THEN n - (d + 1) + 1 ELSE 0
        /\ \A i \in 1..n - (d + 1) + 1 : r[i] = cs[(d + 1) + i - 1]
    BY <1>6, <2>1, <2>2, SubSeqProperties
  <2>4. Len(r) = n - d
    BY <1>4, <2>3
  <2>5. \A i \in 1..n - d : r[i] = cs[(d + 1) + i - 1]
    BY <2>1, <2>3
  <2>6. ASSUME NEW i \in 1..n - d PROVE r[i] = cs[i + d]
    <3>1. (d + 1) + i - 1 = i + d
      BY <1>4
    <3> QED BY <2>5, <3>1
  <2> QED BY <2>3, <2>4, <2>6
<1>8. Newest(r, cs)
  <2>1. /\ n = Len(cs) /\ d <= n
        /\ (n <= MaxLen => d = 0) /\ (n > MaxLen => d = n - MaxLen)
        /\ r \in Seq(BarType) /\ Len(r) = n - d
        /\ \A i \in 1..n - d : r[i] = cs[i + d]
    BY <1>1, <1>4, <1>7
  <2>2. d \in Nat
    BY <1>4
  <2>3. \E N \in Nat, D \in Nat :
          /\ N = Len(cs) /\ D <= N
          /\ (N <= MaxLen => D = 0) /\ (N > MaxLen => D = N - MaxLen)
          /\ r \in Seq(BarType) /\ Len(r) = N - D
          /\ \A i \in 1..N - D : r[i] = cs[i + D]
    <3> USE <2>2
    <3> WITNESS n \in Nat, d \in Nat
    <3> QED BY <2>1
  <2> QED BY <2>3 DEF Newest
<1> QED BY <1>5, <1>6, <1>8

\* A candle takes the place of the one of its time or goes to the end.
LEMMA UpsertIs ==
    ASSUME NEW cs \in Seq(BarType), NEW c \in BarType, Len(cs) <= MaxLen,
           \A i, j \in 1..Len(cs) : cs[i].time = cs[j].time => i = j
    PROVE  Replaces(Upsert(cs, c), cs, c) \/ Extends(Upsert(cs, c), cs, c)
<1>1. PICK n \in Nat : n = Len(cs) /\ DOMAIN cs = 1..n
  OBVIOUS
<1>2. MaxLen \in Nat \ {0} /\ n <= MaxLen
  BY <1>1, MaxLenOK
<1>3. CASE \E i \in 1..n : cs[i].time = c.time
  <2>1. PICK i \in 1..n : cs[i].time = c.time
    BY <1>3
  <2>2. \A j \in 1..n : j # i => cs[j].time # c.time
    BY <1>1, <2>1
  <2> DEFINE found == {j \in DOMAIN cs : cs[j].time = c.time}
  <2>3. found = {i}
    BY <1>1, <2>1, <2>2
  <2>4. Max({i}) = i
    <3>1. i \in Int
      OBVIOUS
    <3> QED BY <3>1 DEF Max
  <2>5. Upsert(cs, c) = [cs EXCEPT ![i] = c]
    BY <2>3, <2>4 DEF Upsert
  <2>6. PICK r : r = [cs EXCEPT ![i] = c]
    OBVIOUS
  <2>7. r \in Seq(BarType) /\ Len(r) = n /\ r[i] = c /\ \A j \in 1..n : j # i => r[j] = cs[j]
    BY <1>1, <2>6, ExceptSeq
  <2>8. Replaces(r, cs, c)
    BY <1>1, <2>1, <2>2, <2>7 DEF Replaces
  <2> QED BY <2>5, <2>6, <2>8
<1>4. CASE \A i \in 1..n : cs[i].time # c.time
  <2>1. {j \in DOMAIN cs : cs[j].time = c.time} = {}
    BY <1>1, <1>4
  <2>2. PICK a \in Seq(BarType) : a = Append(cs, c)
    BY AppendProperties
  <2>3. PICK r : r = Upsert(cs, c)
    OBVIOUS
  <2>4. r = Capped(a)
    BY <2>1, <2>2, <2>3 DEF Upsert
  <2>5. Len(a) = n + 1 /\ a[n + 1] = c /\ \A i \in 1..n : a[i] = cs[i]
    BY <1>1, <2>2
  <2>6. Newest(r, a)
    BY <2>2, <2>4, CappedIsNewest
  <2>7. PICK L \in Nat, d \in Nat :
           /\ L = Len(a) /\ d <= L
           /\ (L <= MaxLen => d = 0) /\ (L > MaxLen => d = L - MaxLen)
           /\ r \in Seq(BarType) /\ Len(r) = L - d
           /\ \A i \in 1..L - d : r[i] = a[i + d]
    BY <2>6 DEF Newest
  <2>8. PICK m \in Int : m = L - d
    OBVIOUS
  <2>9. d \in {0, 1} /\ (d = 1 <=> n = MaxLen) /\ m \in Nat /\ m >= 1 /\ m <= MaxLen /\ m = n + 1 - d
    <3>1. CASE n = MaxLen
      BY <1>2, <2>5, <2>7, <2>8, <3>1
    <3>2. CASE n # MaxLen
      BY <1>2, <2>5, <2>7, <2>8, <3>2
    <3> QED BY <3>1, <3>2
  <2>10. Len(r) = m /\ \A i \in 1..m : r[i] = a[i + d]
    BY <2>7, <2>8
  <2>11. r[m] = c
    <3>1. m \in 1..m /\ m + d = n + 1
      BY <2>9
    <3>2. r[m] = a[m + d]
      BY <2>10, <3>1
    <3> QED BY <2>5, <3>1, <3>2
  <2>12. ASSUME NEW i \in 1..m - 1 PROVE i + d \in 1..n /\ r[i] = cs[i + d]
    <3>1. i + d \in 1..n /\ i \in 1..m
      BY <2>9
    <3>2. r[i] = a[i + d]
      BY <2>10, <3>1
    <3> QED BY <2>5, <3>1, <3>2
  <2>13. Extends(r, cs, c)
    <3>1. n = Len(cs) /\ r \in Seq(BarType)
      BY <1>1, <2>7
    <3>2. /\ n = Len(cs) /\ m = n + 1 - d /\ m >= 1 /\ m <= MaxLen
          /\ d = 1 <=> n = MaxLen
          /\ \A i \in 1..n : cs[i].time # c.time
          /\ r \in Seq(BarType) /\ Len(r) = m /\ r[m] = c
          /\ \A i \in 1..m - 1 : i + d \in 1..n /\ r[i] = cs[i + d]
      BY <3>1, <1>4, <2>9, <2>10, <2>11, <2>12
    <3>3. d \in {0, 1} /\ m \in Nat
      BY <2>9
    <3> DEFINE P(N, M, D) ==
                  /\ N = Len(cs) /\ M = N + 1 - D /\ M >= 1 /\ M <= MaxLen
                  /\ D = 1 <=> N = MaxLen
                  /\ \A i \in 1..N : cs[i].time # c.time
                  /\ r \in Seq(BarType) /\ Len(r) = M /\ r[M] = c
                  /\ \A i \in 1..M - 1 : i + D \in 1..N /\ r[i] = cs[i + D]
    <3>4. P(n, m, d)
      BY <3>2
    <3>5. \E N \in Nat, M \in Nat, D \in {0, 1} : P(N, M, D)
      <4> HIDE DEF P
      <4> QED BY <3>3, <3>4
    <3> QED BY <3>5 DEF Extends
  <2> QED BY <2>3, <2>13
<1> QED BY <1>3, <1>4

-----------------------------------------------------------------------------
(* Candles and klines *)

\* The times of successive candles ...
LEMMA ContiguousTimes ==
    ASSUME NEW n \in Nat, NEW cs, Contiguous(cs, n), cs # <<>>
    PROVE  /\ Len(cs) \in Nat /\ Len(cs) >= 1 /\ DOMAIN cs = 1..Len(cs)
           /\ cs[1].time \in Nat /\ cs[1].time >= 1
           /\ cs[Len(cs)].time = cs[1].time + Len(cs) - 1 /\ cs[Len(cs)].time <= n
           /\ \A i \in 1..Len(cs) : /\ cs[i] \in BarType /\ cs[i].time = cs[1].time + i - 1
                                    /\ cs[i].time \in Nat /\ cs[i].time <= cs[Len(cs)].time
<1>1. cs \in Seq(BarType)
  BY DEF Contiguous
<1>2. PICK k \in Nat : k = Len(cs) /\ k >= 1 /\ DOMAIN cs = 1..k
  BY <1>1
<1>3. \A i \in 1..k : cs[i] \in BarType
  BY <1>1, <1>2
<1>4. PICK a : a = cs[1].time
  OBVIOUS
<1>5. a \in Nat /\ a >= 1
  BY <1>2, <1>3, <1>4, BarTimes
<1>6. \A i \in 1..k : cs[i].time = a + i - 1 /\ cs[i].time <= n
  BY <1>2, <1>4 DEF Contiguous
<1>7. cs[k].time = a + k - 1 /\ cs[k].time <= n
  BY <1>2, <1>6
<1> QED BY <1>2, <1>3, <1>4, <1>5, <1>6, <1>7

\* ... of which no two are the same.
LEMMA ContiguousDistinct ==
    ASSUME NEW n \in Nat, NEW cs, Contiguous(cs, n)
    PROVE  \A i, j \in 1..Len(cs) : cs[i].time = cs[j].time => i = j
<1>1. CASE cs = <<>>
  <2>1. Len(cs) = 0
    BY <1>1
  <2> QED BY <2>1
<1>2. CASE cs # <<>>
  <2>1. PICK a : a = cs[1].time
    OBVIOUS
  <2>2. a \in Nat /\ Len(cs) \in Nat /\ \A i \in 1..Len(cs) : cs[i].time = a + i - 1
    BY <1>2, <2>1, ContiguousTimes
  <2> QED BY <2>2
<1> QED BY <1>1, <1>2

\* Klines set right what they are of, and the next bar follows the newest candle.
LEMMA HandledFollows ==
    ASSUME NEW f \in Seq(Messages), f # <<>>, 1 \in KLines(f),
           NEW bs, AreBars(bs), Stream(f, bs),
           NEW cs, Contiguous(cs, Len(bs)), InReach(cs, f), Follows(cs, bs, f)
    PROVE  LET r == Upsert(cs, f[1].candle)
           IN  /\ Contiguous(r, Len(bs)) /\ r # <<>>
               /\ InReach(r, Tail(f)) /\ Follows(r, bs, Tail(f))
               /\ Full(cs) => Full(r)
<1>1. PICK n \in Nat : n = Len(bs)
  BY LenOK DEF AreBars
<1>2. PICK c : c = f[1].candle
  OBVIOUS
<1>3. PICK g : g = Tail(f)
  OBVIOUS
<1>4. c \in BarType /\ c.time \in Nat /\ c.time >= 1 /\ c.time <= n /\ TimeOf(f, 1) = c.time
  BY <1>1, <1>2, BarTimes DEF Stream, TimeOf
<1>5. Stream(g, bs) /\ (\A t : IsSent(f, t) => IsSent(g, t) \/ t = c.time)
      /\ (\A t : IsSent(g, t) => IsSent(f, t))
  BY <1>3, <1>4, StreamTail
<1>6. \A i \in KLines(f) : c.time <= TimeOf(f, i)
  <2> SUFFICES ASSUME NEW i \in KLines(f) PROVE c.time <= TimeOf(f, i)
    OBVIOUS
  <2>1. 1 <= i
    BY FirstHandled
  <2> QED BY <1>4, <2>1 DEF Stream
<1>7. \A i \in KLines(g) : c.time <= TimeOf(g, i) /\ \E j \in KLines(f) : TimeOf(f, j) = TimeOf(g, i)
  <2> SUFFICES ASSUME NEW i \in KLines(g)
               PROVE  \E j \in KLines(f) : TimeOf(f, j) = TimeOf(g, i)
    BY <1>6
  <2>1. i + 1 \in KLines(f) /\ g[i] = f[i + 1]
    BY <1>3, FirstHandled
  <2> QED BY <2>1 DEF TimeOf
<1>8. c = bs[c.time] \/ IsSent(g, c.time)
  <2>1. CASE f[1].candle = bs[TimeOf(f, 1)]
    BY <1>2, <1>4, <2>1
  <2>2. CASE \E j \in KLines(f) : 1 < j /\ TimeOf(f, j) = TimeOf(f, 1)
    <3>1. PICK j \in KLines(f) : 1 < j /\ TimeOf(f, j) = c.time
      BY <1>4, <2>2
    <3>2. j \in Nat \ {0} /\ (j # 1 => j - 1 \in KLines(g) /\ g[j - 1] = f[j])
      BY <1>3, FirstHandled
    <3>3. j # 1
      BY <3>1, <3>2
    <3> QED BY <3>1, <3>2, <3>3 DEF IsSent, TimeOf
  <2> QED BY <2>1, <2>2 DEF Stream
<1>9. \A t \in c.time + 1 .. n : IsSent(g, t)
  <2> SUFFICES ASSUME NEW t \in c.time + 1 .. n PROVE IsSent(g, t)
    OBVIOUS
  <2>1. IsSent(f, t)
    BY <1>1, <1>4 DEF Stream
  <2>2. t # c.time
    BY <1>4
  <2> QED BY <1>5, <2>1, <2>2
<1>10. PICK r : r = Upsert(cs, c)
  OBVIOUS
<1>11. cs \in Seq(BarType) /\ Len(cs) <= MaxLen /\ MaxLen \in Nat \ {0}
  BY MaxLenOK DEF Contiguous
<1>12. Replaces(r, cs, c) \/ Extends(r, cs, c)
  <2>1. \A i, j \in 1..Len(cs) : cs[i].time = cs[j].time => i = j
    BY <1>1, ContiguousDistinct
  <2> QED BY <1>4, <1>10, <1>11, <2>1, UpsertIs
<1>13. CASE cs = <<>>
  <2>1. Len(cs) = 0
    BY <1>13
  <2>2. PICK m \in Nat, d \in {0, 1} :
           /\ m = 0 + 1 - d /\ m >= 1 /\ m <= MaxLen
           /\ r \in Seq(BarType) /\ Len(r) = m /\ r[m] = c
    BY <1>12, <2>1 DEF Extends, Replaces
  <2>3. Len(r) = 1 /\ r[1] = c /\ DOMAIN r = 1..1
    <3>1. CASE d = 0
      <4>1. m = 1
        BY <2>2, <3>1
      <4>2. Len(r) = 1 /\ r[1] = c /\ r \in Seq(BarType)
        BY <2>2, <4>1
      <4> QED BY <4>2
    <3>2. CASE d = 1
      BY <2>2, <3>2
    <3> QED BY <3>1, <3>2
  <2>4. \A i \in DOMAIN r : i = 1
    BY <2>3
  <2>5. Contiguous(r, n) /\ r # <<>>
    BY <1>4, <2>2, <2>3, <2>4 DEF Contiguous
  <2>6. InReach(r, g)
    BY <1>7, <2>3 DEF InReach
  <2>7. Follows(r, bs, g)
    BY <1>1, <1>8, <1>9, <2>3, <2>4 DEF Follows
  <2>8. ~Full(cs)
    BY <1>13 DEF Full
  <2> QED BY <1>1, <1>2, <1>3, <1>10, <2>5, <2>6, <2>7, <2>8
<1>14. CASE cs # <<>>
  <2>1. PICK k \in Nat : k = Len(cs) /\ k >= 1
    BY <1>11, <1>14
  <2>2. PICK a \in Nat : a = cs[1].time /\ a >= 1
    BY <1>1, <1>14, ContiguousTimes
  <2>3. /\ \A i \in 1..k : cs[i] \in BarType /\ cs[i].time = a + i - 1
        /\ cs[k].time = a + k - 1 /\ a + k - 1 <= n /\ DOMAIN cs = 1..k
    BY <1>1, <1>14, <2>1, <2>2, ContiguousTimes
  <2>4. a <= c.time
    BY <1>4, <1>14, <2>2 DEF InReach
  <2>5. \A i \in 1..k : cs[i] = bs[cs[i].time] \/ IsSent(f, cs[i].time)
    BY <1>14, <2>3 DEF Follows
  <2>6. \A t \in a + k .. n : IsSent(f, t)
    <3>1. \A t \in cs[k].time + 1 .. n : IsSent(f, t)
      BY <1>1, <1>14, <2>1 DEF Follows
    <3>2. cs[k].time + 1 = a + k
      BY <2>1, <2>2, <2>3
    <3> QED BY <3>1, <3>2
  <2>7. CASE Replaces(r, cs, c)
    <3>1. PICK x \in 1..k :
             /\ cs[x].time = c.time
             /\ r \in Seq(BarType) /\ Len(r) = k /\ r[x] = c
             /\ \A i \in 1..k : i # x => r[i] = cs[i] /\ cs[i].time # c.time
      BY <2>1, <2>7 DEF Replaces
    <3>2. c.time <= a + k - 1
      BY <2>1, <2>2, <2>3, <3>1
    <3>3. DOMAIN r = 1..k /\ r # <<>>
      BY <2>1, <3>1
    <3>4. \A i \in 1..k : r[i].time = a + i - 1
      BY <2>3, <3>1
    <3>5. r[1].time = a /\ r[k].time = a + k - 1
      <4>1. 1 \in 1..k /\ k \in 1..k /\ a + 1 - 1 = a
        BY <2>1, <2>2
      <4> QED BY <3>4, <4>1
    <3>6. Contiguous(r, n)
      <4>1. \A i \in 1..k : r[i].time <= n
        BY <2>1, <2>2, <2>3, <3>4
      <4>2. k <= MaxLen
        BY <1>11, <2>1
      <4>3. \A i \in DOMAIN r : r[i].time <= n /\ r[i].time = r[1].time + i - 1
        BY <3>3, <3>4, <3>5, <4>1
      <4> QED BY <3>1, <4>2, <4>3 DEF Contiguous
    <3>7. InReach(r, g)
      <4> SUFFICES ASSUME NEW i \in KLines(g) PROVE a <= TimeOf(g, i)
        BY <3>5 DEF InReach
      <4>1. PICK j \in KLines(f) : TimeOf(f, j) = TimeOf(g, i)
        BY <1>7
      <4> QED BY <1>14, <2>2, <4>1 DEF InReach
    <3>8. \A i \in 1..k : r[i] = bs[r[i].time] \/ IsSent(g, r[i].time)
      <4> SUFFICES ASSUME NEW i \in 1..k PROVE r[i] = bs[r[i].time] \/ IsSent(g, r[i].time)
        OBVIOUS
      <4>1. CASE i = x
        <5>1. r[i] = c
          BY <3>1, <4>1
        <5> QED BY <1>8, <5>1
      <4>2. CASE i # x
        <5>1. r[i] = cs[i] /\ cs[i].time # c.time
          BY <3>1, <4>2
        <5> QED BY <1>5, <2>5, <5>1
      <4> QED BY <4>1, <4>2
    <3>9. \A t \in a + k .. n : IsSent(g, t)
      <4> SUFFICES ASSUME NEW t \in a + k .. n PROVE IsSent(g, t)
        OBVIOUS
      <4>1. t # c.time
        BY <1>4, <2>1, <2>2, <3>2
      <4> QED BY <1>5, <2>6, <4>1
    <3>10. Follows(r, bs, g)
      <4>1. r[Len(r)].time + 1 = a + k
        <5>1. Len(r) = k
          BY <3>1
        <5>2. (a + k - 1) + 1 = a + k
          OBVIOUS
        <5> QED BY <3>5, <5>1, <5>2
      <4> QED BY <1>1, <3>3, <3>8, <3>9, <4>1 DEF Follows
    <3>11. Full(cs) => Full(r)
      <4>1. Len(r) = Len(cs) /\ r[1].time = cs[1].time
        BY <2>1, <2>2, <3>1, <3>5
      <4> QED BY <3>3, <4>1 DEF Full
    <3> QED BY <1>1, <1>2, <1>3, <1>10, <3>3, <3>6, <3>7, <3>10, <3>11
  <2>8. CASE Extends(r, cs, c)
    <3>1. PICK m \in Nat, d \in {0, 1} :
             /\ m = k + 1 - d /\ m >= 1 /\ m <= MaxLen
             /\ d = 1 <=> k = MaxLen
             /\ \A i \in 1..k : cs[i].time # c.time
             /\ r \in Seq(BarType) /\ Len(r) = m /\ r[m] = c
             /\ \A i \in 1..m - 1 : i + d \in 1..k /\ r[i] = cs[i + d]
      BY <2>1, <2>8 DEF Extends
    <3>2. c.time = a + k
      <4>1. c.time >= a + k
        <5> SUFFICES ASSUME ~(c.time >= a + k) PROVE FALSE
          OBVIOUS
        <5>1. PICK t \in Int : t = c.time /\ a <= t /\ t < a + k
          <6>1. PICK t \in Int : t = c.time
            BY <1>4
          <6>2. a <= t /\ ~(t >= a + k)
            BY <2>4, <6>1
          <6> QED BY <2>1, <2>2, <6>1, <6>2
        <5>2. PICK x \in Int : x = t - a + 1
          BY <2>2
        <5>3. x \in 1..k /\ a + x - 1 = t
          BY ONLY <2>1, <2>2, <5>1, <5>2
        <5> QED BY <2>3, <3>1, <5>1, <5>3
      <4>2. a + k \in a + k .. n
        BY <1>1, <1>4, <2>1, <2>2, <4>1
      <4>3. PICK j \in KLines(f) : TimeOf(f, j) = a + k
        BY <2>6, <4>2 DEF IsSent
      <4>4. c.time <= a + k
        BY <1>6, <4>3
      <4> QED BY <1>4, <2>1, <2>2, <4>1, <4>4
    <3>3. DOMAIN r = 1..m /\ r # <<>>
      BY <3>1
    <3>4. PICK b \in Nat : b = a + d /\ d \in Nat
      BY <2>2
    <3>5. b + m = a + k + 1
      <4>1. m = k + 1 - d
        BY <3>1
      <4>2. b = a + d /\ d \in Nat
        BY <3>4
      <4> QED BY <4>1, <4>2
    <3>6. \A i \in 1..m : r[i].time = b + i - 1
      <4> SUFFICES ASSUME NEW i \in 1..m PROVE r[i].time = b + i - 1
        OBVIOUS
      <4>1. CASE i = m
        <5>1. b + m - 1 = a + k
          BY <3>5
        <5>2. r[i] = c
          BY <3>1, <4>1
        <5> QED BY <3>2, <4>1, <5>1, <5>2
      <4>2. CASE i # m
        <5>1. i \in 1..m - 1
          BY <4>2
        <5>2. i + d \in 1..k /\ r[i] = cs[i + d]
          BY <3>1, <5>1
        <5>3. cs[i + d].time = a + (i + d) - 1
          BY <2>3, <5>2
        <5>4. a + (i + d) - 1 = b + i - 1
          BY <2>2, <3>4
        <5> QED BY <5>2, <5>3, <5>4
      <4> QED BY <4>1, <4>2
    <3>7. r[1].time = b /\ r[m].time = a + k /\ b <= a + k
      <4>1. 1 \in 1..m /\ b + 1 - 1 = b
        BY <3>1
      <4>2. b <= a + k
        BY <3>1, <3>5
      <4> QED BY <3>1, <3>2, <3>6, <4>1, <4>2
    <3>8. Contiguous(r, n)
      <4>1. \A i \in 1..m : r[i].time <= a + k
        <5>1. ASSUME NEW i \in 1..m PROVE b + i - 1 <= a + k
          BY <3>5
        <5> QED BY <3>6, <5>1
      <4>2. a + k <= n
        BY <1>4, <3>2
      <4>3. \A i \in 1..m : r[i].time <= n
        <5>1. ASSUME NEW i \in 1..m, b + i - 1 <= a + k PROVE b + i - 1 <= n
          BY <4>2, <5>1
        <5> QED BY <3>6, <4>1, <5>1
      <4>4. \A i \in DOMAIN r : r[i].time <= n /\ r[i].time = r[1].time + i - 1
        BY <3>3, <3>6, <3>7, <4>3
      <4> QED BY <3>1, <4>4 DEF Contiguous
    <3>9. InReach(r, g)
      <4> SUFFICES ASSUME NEW i \in KLines(g) PROVE b <= TimeOf(g, i)
        BY <3>7 DEF InReach
      <4>1. a + k <= TimeOf(g, i)
        BY <1>7, <3>2
      <4>2. PICK j \in KLines(f) : TimeOf(f, j) = TimeOf(g, i)
        BY <1>7
      <4>3. TimeOf(g, i) \in Nat
        BY <4>2, BarTimes DEF Stream, TimeOf
      <4> QED BY <2>1, <2>2, <3>4, <3>7, <4>1, <4>3
    <3>10. \A i \in 1..m : r[i] = bs[r[i].time] \/ IsSent(g, r[i].time)
      <4> SUFFICES ASSUME NEW i \in 1..m PROVE r[i] = bs[r[i].time] \/ IsSent(g, r[i].time)
        OBVIOUS
      <4>1. CASE i = m
        <5>1. r[i] = c
          BY <3>1, <4>1
        <5> QED BY <1>8, <5>1
      <4>2. CASE i # m
        <5>1. i \in 1..m - 1
          BY <4>2
        <5>2. i + d \in 1..k /\ r[i] = cs[i + d]
          BY <3>1, <5>1
        <5>3. cs[i + d].time # c.time
          BY <3>1, <5>2
        <5> QED BY <1>5, <2>5, <5>2, <5>3
      <4> QED BY <4>1, <4>2
    <3>11. Follows(r, bs, g)
      <4>1. r[Len(r)].time = c.time
        BY <3>1
      <4> QED BY <1>1, <1>9, <3>1, <3>3, <3>10, <4>1 DEF Follows
    <3>12. Full(cs) => Full(r)
      <4>1. CASE d = 1
        <5>1. Len(r) = MaxLen
          BY <1>11, <2>1, <3>1, <4>1
        <5> QED BY <3>3, <5>1 DEF Full
      <4>2. CASE d = 0
        <5>1. k # MaxLen /\ r[1].time = cs[1].time
          BY <2>2, <3>1, <3>4, <3>7, <4>2
        <5> QED BY <2>1, <3>3, <5>1 DEF Full
      <4> QED BY <4>1, <4>2
    <3> QED BY <1>1, <1>2, <1>3, <1>10, <3>3, <3>8, <3>9, <3>11, <3>12
  <2> QED BY <1>12, <2>7, <2>8
<1> QED BY <1>13, <1>14

\* A buffer in order stays in order when the first kline is handled.
LEMMA HandledIncreasing ==
    ASSUME NEW f \in Seq(Messages), f # <<>>, 1 \in KLines(f),
           NEW bs, AreBars(bs), Stream(f, bs),
           NEW cs, Increasing(cs, Len(bs), f)
    PROVE  Increasing(Upsert(cs, f[1].candle), Len(bs), Tail(f))
<1>1. PICK n \in Nat : n = Len(bs)
  BY LenOK DEF AreBars
<1>2. PICK c : c = f[1].candle
  OBVIOUS
<1>3. PICK g : g = Tail(f)
  OBVIOUS
<1>4. c \in BarType /\ c.time \in Nat /\ c.time >= 1 /\ c.time <= n /\ TimeOf(f, 1) = c.time
  BY <1>1, <1>2, BarTimes DEF Stream, TimeOf
<1>5. \A i \in KLines(f) : c.time <= TimeOf(f, i) /\ TimeOf(f, i) \in Nat
  <2> SUFFICES ASSUME NEW i \in KLines(f) PROVE c.time <= TimeOf(f, i) /\ TimeOf(f, i) \in Nat
    OBVIOUS
  <2>1. 1 <= i
    BY FirstHandled
  <2>2. c.time <= TimeOf(f, i)
    BY <1>4, <2>1 DEF Stream
  <2>3. f[i].candle \in BarType
    BY DEF Stream
  <2> QED BY <2>2, <2>3, BarTimes DEF TimeOf
<1>6. \A i \in KLines(g) : \E j \in KLines(f) : TimeOf(f, j) = TimeOf(g, i)
  <2> SUFFICES ASSUME NEW i \in KLines(g)
               PROVE  \E j \in KLines(f) : TimeOf(f, j) = TimeOf(g, i)
    OBVIOUS
  <2>1. i + 1 \in KLines(f) /\ g[i] = f[i + 1]
    BY <1>3, FirstHandled
  <2> QED BY <2>1 DEF TimeOf
<1>7. PICK r : r = Upsert(cs, c)
  OBVIOUS
<1>8. cs \in Seq(BarType) /\ Len(cs) <= MaxLen
  BY DEF Increasing
<1>9. PICK k \in Nat : k = Len(cs) /\ DOMAIN cs = 1..k
  BY <1>8
<1>10. \A i \in 1..k : cs[i].time <= n /\ cs[i].time \in Nat
  BY <1>1, <1>8, <1>9, BarTimes DEF Increasing
<1>11. \A i, j \in 1..k : i < j => cs[i].time < cs[j].time
  BY <1>9 DEF Increasing
<1>12. \A x \in KLines(f) : \/ \E i \in 1..k : cs[i].time = TimeOf(f, x)
                            \/ k >= 1 => cs[k].time < TimeOf(f, x)
  <2>1. cs # <<>> <=> k >= 1
    BY <1>8, <1>9
  <2> QED BY <1>9, <2>1 DEF Increasing
<1>13. Replaces(r, cs, c) \/ Extends(r, cs, c)
  <2>1. \A i, j \in 1..k : cs[i].time = cs[j].time => i = j
    BY <1>10, <1>11
  <2> QED BY <1>4, <1>7, <1>8, <1>9, <2>1, UpsertIs
<1>14. CASE Replaces(r, cs, c)
  <2>1. PICK x \in 1..k :
           /\ cs[x].time = c.time
           /\ r \in Seq(BarType) /\ Len(r) = k /\ r[x] = c
           /\ \A i \in 1..k : i # x => r[i] = cs[i] /\ cs[i].time # c.time
    BY <1>9, <1>14 DEF Replaces
  <2>2. DOMAIN r = 1..k /\ (r # <<>> <=> k >= 1)
    BY <2>1
  <2>3. \A i \in 1..k : r[i].time = cs[i].time
    BY <2>1
  <2>4. \A i \in DOMAIN r : r[i].time <= n
    BY <1>10, <2>2, <2>3
  <2>5. \A i, j \in DOMAIN r : i < j => r[i].time < r[j].time
    BY <1>11, <2>2, <2>3
  <2>6. ASSUME NEW i \in KLines(g)
        PROVE  \/ \E j \in DOMAIN r : r[j].time = TimeOf(g, i)
               \/ r # <<>> => r[Len(r)].time < TimeOf(g, i)
    <3>1. PICK y \in KLines(f) : TimeOf(f, y) = TimeOf(g, i)
      BY <1>6
    <3>2. CASE \E j \in 1..k : cs[j].time = TimeOf(f, y)
      BY <2>2, <2>3, <3>1, <3>2
    <3>3. CASE k >= 1 => cs[k].time < TimeOf(f, y)
      <4>1. ASSUME k >= 1 PROVE r[k].time < TimeOf(g, i)
        <5>1. k \in 1..k
          BY <4>1
        <5> QED BY <2>3, <3>1, <3>3, <4>1, <5>1
      <4> QED BY <2>1, <2>2, <4>1
    <3> QED BY <1>12, <3>2, <3>3
  <2>7. Len(r) <= MaxLen
    BY <1>8, <1>9, <2>1
  <2>8. Increasing(r, n, g)
    BY <2>1, <2>4, <2>5, <2>6, <2>7 DEF Increasing
  <2> QED BY <1>1, <1>2, <1>3, <1>7, <2>8
<1>15. CASE Extends(r, cs, c)
  <2>1. PICK m \in Nat, d \in {0, 1} :
           /\ m = k + 1 - d /\ m >= 1 /\ m <= MaxLen
           /\ \A i \in 1..k : cs[i].time # c.time
           /\ r \in Seq(BarType) /\ Len(r) = m /\ r[m] = c
           /\ \A i \in 1..m - 1 : i + d \in 1..k /\ r[i] = cs[i + d]
    BY <1>9, <1>15 DEF Extends
  <2>2. DOMAIN r = 1..m /\ r # <<>> /\ d \in Nat
    BY <2>1
  <2>3. k >= 1 => cs[k].time < c.time
    BY <1>4, <1>12, <2>1
  <2>4. \A i \in 1..k : cs[i].time < c.time
    <3> SUFFICES ASSUME NEW i \in 1..k PROVE cs[i].time < c.time
      OBVIOUS
    <3>1. k \in 1..k
      OBVIOUS
    <3>2. CASE i = k
      BY <2>3, <3>2
    <3>3. CASE i # k
      <4>1. cs[i].time < cs[k].time /\ cs[i].time \in Nat /\ cs[k].time \in Nat
        BY <1>10, <1>11, <3>1, <3>3
      <4> QED BY <1>4, <2>3, <4>1
    <3> QED BY <3>2, <3>3
  <2>5. \A i \in 1..m - 1 : r[i].time < c.time /\ r[i].time \in Nat
    BY <1>10, <2>1, <2>4
  <2>6. \A i \in DOMAIN r : r[i].time <= n
    <3> SUFFICES ASSUME NEW i \in 1..m PROVE r[i].time <= n
      BY <2>2
    <3>1. CASE i = m
      BY <1>4, <2>1, <3>1
    <3>2. CASE i # m
      <4>1. i \in 1..m - 1
        BY <3>2
      <4> QED BY <1>10, <2>1, <4>1
    <3> QED BY <3>1, <3>2
  <2>7. \A i, j \in DOMAIN r : i < j => r[i].time < r[j].time
    <3> SUFFICES ASSUME NEW i \in 1..m, NEW j \in 1..m, i < j PROVE r[i].time < r[j].time
      BY <2>2
    <3>1. i \in 1..m - 1
      OBVIOUS
    <3>2. CASE j = m
      BY <2>1, <2>5, <3>1, <3>2
    <3>3. CASE j # m
      <4>1. j \in 1..m - 1
        BY <3>3
      <4>2. /\ i + d \in 1..k /\ j + d \in 1..k
            /\ r[i] = cs[i + d] /\ r[j] = cs[j + d]
        BY <2>1, <3>1, <4>1
      <4>3. i + d < j + d
        BY <2>2
      <4> QED BY <1>11, <4>2, <4>3
    <3> QED BY <3>2, <3>3
  <2>8. ASSUME NEW i \in KLines(g)
        PROVE  \/ \E j \in DOMAIN r : r[j].time = TimeOf(g, i)
               \/ r # <<>> => r[Len(r)].time < TimeOf(g, i)
    <3>1. PICK y \in KLines(f) : TimeOf(f, y) = TimeOf(g, i)
      BY <1>6
    <3>2. c.time <= TimeOf(g, i) /\ TimeOf(g, i) \in Nat
      BY <1>5, <3>1
    <3>3. r[Len(r)].time = c.time /\ m \in DOMAIN r
      BY <2>1, <2>2
    <3>4. CASE c.time = TimeOf(g, i)
      BY <2>1, <3>3, <3>4
    <3>5. CASE c.time # TimeOf(g, i)
      BY <1>4, <3>2, <3>3, <3>5
    <3> QED BY <3>4, <3>5
  <2>9. Increasing(r, n, g)
    BY <2>1, <2>6, <2>7, <2>8 DEF Increasing
  <2> QED BY <1>1, <1>2, <1>3, <1>7, <2>9
<1> QED BY <1>13, <1>14, <1>15

\* With fewer klines on the way a buffer stays in reach and in order.
LEMMA FewerSent ==
    ASSUME NEW cs, NEW n, NEW f, NEW g, \A t : IsSent(g, t) => IsSent(f, t)
    PROVE  /\ InReach(cs, f) => InReach(cs, g)
           /\ Increasing(cs, n, f) => Increasing(cs, n, g)
<1>1. ASSUME NEW i \in KLines(g) PROVE \E j \in KLines(f) : TimeOf(f, j) = TimeOf(g, i)
  BY DEF IsSent
<1>2. InReach(cs, f) => InReach(cs, g)
  BY <1>1 DEF InReach
<1>3. Increasing(cs, n, f) => Increasing(cs, n, g)
  <2> SUFFICES ASSUME Increasing(cs, n, f) PROVE Increasing(cs, n, g)
    OBVIOUS
  <2>1. ASSUME NEW k \in KLines(g)
        PROVE  \/ \E i \in DOMAIN cs : cs[i].time = TimeOf(g, k)
               \/ cs # <<>> => cs[Len(cs)].time < TimeOf(g, k)
    <3>1. PICK j \in KLines(f) : TimeOf(f, j) = TimeOf(g, k)
      BY <1>1
    <3> QED BY <3>1 DEF Increasing
  <2> QED BY <2>1 DEF Increasing
<1> QED BY <1>2, <1>3

\* With more of them it still follows the bars.
LEMMA MoreSent ==
    ASSUME NEW cs, NEW bs, NEW f, NEW g, \A t : IsSent(f, t) => IsSent(g, t),
           Follows(cs, bs, f)
    PROVE  Follows(cs, bs, g)
BY DEF Follows

\* A bar that moves on leaves the times of the candles in their limits.
LEMMA MovedContiguous ==
    ASSUME NEW bs, NEW bs2, Moved(bs, bs2), NEW cs, Contiguous(cs, Len(bs))
    PROVE  Contiguous(cs, Len(bs2))
<1>1. PICK n \in Nat, n2 \in Nat : n = Len(bs) /\ n2 = Len(bs2) /\ n <= n2
  <2>1. Len(bs) \in Nat /\ Len(bs2) \in Nat
    BY LenOK DEF Moved, AreBars
  <2> QED BY <2>1 DEF Moved
<1>2. \A i \in DOMAIN cs : cs[i].time \in Nat
  BY BarTimes DEF Contiguous
<1>3. \A i \in DOMAIN cs : cs[i].time <= n2
  BY <1>1, <1>2 DEF Contiguous
<1> QED BY <1>1, <1>3 DEF Contiguous

\* So does the kline that tells of it, and what it tells of will be set right.
LEMMA MovedKLine ==
    ASSUME NEW f \in Seq(Messages), NEW bs, NEW bs2, Moved(bs, bs2), Stream(f, bs), NEW cs
    PROVE  LET g == Append(f, KLine(bs2[Len(bs2)]))
           IN  /\ Contiguous(cs, Len(bs)) /\ InReach(cs, f) => InReach(cs, g)
               /\ Contiguous(cs, Len(bs)) /\ Follows(cs, bs, f) => Follows(cs, bs2, g)
               /\ Increasing(cs, Len(bs), f) => Increasing(cs, Len(bs2), g)
<1>1. PICK g : g = Append(f, KLine(bs2[Len(bs2)]))
  OBVIOUS
<1>2. PICK n \in Nat, n2 \in Nat : n = Len(bs) /\ n2 = Len(bs2) /\ n <= n2 /\ n2 \in {n, n + 1}
  <2>1. Len(bs) \in Nat /\ Len(bs2) \in Nat
    BY LenOK DEF Moved, AreBars
  <2> QED BY <2>1 DEF Moved
<1>3. \A t : IsSent(g, t) <=> IsSent(f, t) \/ t = n2
  BY <1>1, <1>2, StreamKLine
<1>4. \A i \in KLines(g) : TimeOf(g, i) = n2 \/ \E j \in KLines(f) : TimeOf(f, j) = TimeOf(g, i)
  BY <1>3 DEF IsSent
<1>5. \A i \in 1..n2 - 1 : bs2[i] = bs[i]
  BY <1>2 DEF Moved
<1>6. Contiguous(cs, n) => \A i \in DOMAIN cs : cs[i].time \in 1..n
  BY BarTimes DEF Contiguous
<1>7. ASSUME Contiguous(cs, n), InReach(cs, f) PROVE InReach(cs, g)
  <2> SUFFICES ASSUME cs # <<>>, NEW i \in KLines(g) PROVE cs[1].time <= TimeOf(g, i)
    BY DEF InReach
  <2>1. cs[1].time \in 1..n
    BY <1>2, <1>7, ContiguousTimes
  <2>2. CASE TimeOf(g, i) = n2
    BY <1>2, <2>1, <2>2
  <2>3. CASE \E j \in KLines(f) : TimeOf(f, j) = TimeOf(g, i)
    BY <1>7, <2>3 DEF InReach
  <2> QED BY <1>4, <2>2, <2>3
<1>8. ASSUME Contiguous(cs, n), Follows(cs, bs, f) PROVE Follows(cs, bs2, g)
  <2> SUFFICES ASSUME cs # <<>>
               PROVE  /\ \A i \in DOMAIN cs : cs[i] = bs2[cs[i].time] \/ IsSent(g, cs[i].time)
                      /\ \A t \in cs[Len(cs)].time + 1 .. n2 : IsSent(g, t)
    BY <1>2 DEF Follows
  <2>1. ASSUME NEW i \in DOMAIN cs PROVE cs[i] = bs2[cs[i].time] \/ IsSent(g, cs[i].time)
    <3>1. cs[i].time \in 1..n /\ (cs[i] = bs[cs[i].time] \/ IsSent(f, cs[i].time))
      BY <1>6, <1>8 DEF Follows
    <3>2. CASE cs[i].time = n2
      BY <1>3, <3>2
    <3>3. CASE cs[i].time # n2
      <4>1. cs[i].time \in 1..n2 - 1
        BY <1>2, <3>1, <3>3
      <4> QED BY <1>3, <1>5, <3>1, <4>1
    <3> QED BY <3>2, <3>3
  <2>2. PICK u \in Nat : u = cs[Len(cs)].time
    <3>1. Len(cs) \in Nat /\ Len(cs) >= 1 /\ cs \in Seq(BarType)
      BY <1>2, <1>8, ContiguousTimes DEF Contiguous
    <3> QED BY <3>1, LenOK, BarTimes
  <2>3. ASSUME NEW t \in u + 1 .. n2 PROVE IsSent(g, t)
    <3>1. CASE t = n2
      BY <1>3, <3>1
    <3>2. CASE t # n2
      <4>1. t \in u + 1 .. n
        BY <1>2, <3>2
      <4> QED BY <1>2, <1>3, <1>8, <2>2, <4>1 DEF Follows
    <3> QED BY <3>1, <3>2
  <2> QED BY <2>1, <2>2, <2>3
<1>9. ASSUME Increasing(cs, n, f) PROVE Increasing(cs, n2, g)
  <2>1. cs \in Seq(BarType)
    BY <1>9 DEF Increasing
  <2>2. \A i \in DOMAIN cs : cs[i].time <= n /\ cs[i].time \in Nat
    BY <1>9, <2>1, BarTimes DEF Increasing
  <2>3. \A i \in DOMAIN cs : cs[i].time <= n2
    BY <1>2, <2>2
  <2>4. ASSUME NEW i \in KLines(g)
        PROVE  \/ \E j \in DOMAIN cs : cs[j].time = TimeOf(g, i)
               \/ cs # <<>> => cs[Len(cs)].time < TimeOf(g, i)
    <3>1. CASE TimeOf(g, i) = n2
      <4>1. cs # <<>> => Len(cs) \in DOMAIN cs
        BY <2>1
      <4>2. ASSUME cs # <<>> PROVE cs[Len(cs)].time = n2 \/ cs[Len(cs)].time < n2
        BY <1>2, <2>2, <2>3, <4>1, <4>2
      <4> QED BY <3>1, <4>1, <4>2
    <3>2. CASE \E j \in KLines(f) : TimeOf(f, j) = TimeOf(g, i)
      <4>1. PICK j \in KLines(f) : TimeOf(f, j) = TimeOf(g, i)
        BY <3>2
      <4> QED BY <1>9, <4>1 DEF Increasing
    <3> QED BY <1>4, <3>1, <3>2
  <2> QED BY <1>9, <2>3, <2>4 DEF Increasing
<1> QED BY <1>1, <1>2, <1>7, <1>8, <1>9

\* The exchange's answer: its latest candles, as many as the buffer holds, and no kline
\* on the way is older.
LEMMA AnswerIsFull ==
    ASSUME NEW bs, AreBars(bs), NEW f \in Seq(Messages), Len(f) <= MaxInFlight, Stream(f, bs)
    PROVE  LET r == Capped(bs)
           IN  Contiguous(r, Len(bs)) /\ Full(r) /\ InReach(r, f) /\ Follows(r, bs, f)
<1>1. PICK r : r = Capped(bs)
  OBVIOUS
<1>2. bs \in Seq(BarType) /\ Len(bs) >= 1 /\ \A i \in 1..Len(bs) : bs[i].time = i
  BY LenOK DEF AreBars
<1>3. Newest(r, bs)
  BY <1>1, <1>2, CappedIsNewest
<1>4. PICK n \in Nat, d \in Nat :
         /\ n = Len(bs) /\ d <= n /\ (n <= MaxLen => d = 0) /\ (n > MaxLen => d = n - MaxLen)
         /\ r \in Seq(BarType) /\ Len(r) = n - d /\ \A i \in 1..n - d : r[i] = bs[i + d]
  BY <1>3 DEF Newest
<1>5. MaxLen \in Nat \ {0} /\ MaxInFlight \in 1..MaxLen /\ n >= 1
  BY <1>2, <1>4, MaxLenOK, FeedConstantsOK DEF FeedConstantsOK
<1>6. PICK m \in Int : m = n - d
  OBVIOUS
<1>7. m \in Nat /\ m >= 1 /\ m <= MaxLen /\ (d = 0 \/ m = MaxLen)
  <2>1. CASE n <= MaxLen
    BY <1>4, <1>5, <1>6, <2>1
  <2>2. CASE n > MaxLen
    BY <1>4, <1>5, <1>6, <2>2
  <2> QED BY <1>5, <2>1, <2>2
<1>8. DOMAIN r = 1..m /\ r # <<>> /\ Len(r) = m
  BY <1>4, <1>6, <1>7
<1>9. \A i \in 1..m : i + d \in 1..n /\ r[i] = bs[i + d] /\ r[i].time = i + d
  <2> SUFFICES ASSUME NEW i \in 1..m
               PROVE  i + d \in 1..n /\ r[i] = bs[i + d] /\ r[i].time = i + d
    OBVIOUS
  <2>1. i + d \in 1..n /\ i \in 1..n - d
    BY <1>6
  <2>2. r[i] = bs[i + d]
    BY <1>4, <2>1
  <2> QED BY <1>2, <1>4, <2>1, <2>2
<1>10. r[1].time = 1 + d /\ r[m].time = n
  <2>1. 1 \in 1..m /\ m \in 1..m /\ m + d = n
    BY <1>6, <1>7
  <2> QED BY <1>9, <2>1
<1>11. Contiguous(r, n)
  <2>1. ASSUME NEW i \in DOMAIN r PROVE r[i].time <= n /\ r[i].time = r[1].time + i - 1
    <3>1. i \in 1..m /\ (1 + d) + i - 1 = i + d
      BY <1>8
    <3>2. i + d <= n
      BY <1>9, <3>1
    <3> QED BY <1>9, <1>10, <3>1, <3>2
  <2> QED BY <1>4, <1>7, <1>8, <2>1 DEF Contiguous
<1>12. Full(r)
  BY <1>7, <1>8, <1>10 DEF Full
<1>13. InReach(r, f)
  <2> SUFFICES ASSUME NEW i \in KLines(f) PROVE 1 + d <= TimeOf(f, i)
    BY <1>10 DEF InReach
  <2>1. PICK t \in Nat : t = TimeOf(f, i) /\ t >= 1
    BY BarTimes DEF Stream, TimeOf
  <2>2. PICK l \in Nat : l = Len(f) /\ l <= MaxInFlight
    OBVIOUS
  <2>3. i \in Nat /\ i >= 1
    BY DEF KLines
  <2>4. n - t <= l - i
    BY <1>4, <2>1, <2>2 DEF Stream
  <2>5. CASE d = 0
    BY <2>1, <2>5
  <2>6. CASE m = MaxLen
    <3>1. n - t < MaxLen
      BY <1>5, <2>2, <2>3, <2>4
    <3> QED BY <1>6, <2>1, <2>6, <3>1
  <2> QED BY <1>7, <2>5, <2>6
<1>14. Follows(r, bs, f)
  <2>1. \A i \in DOMAIN r : r[i] = bs[r[i].time]
    BY <1>8, <1>9
  <2>2. r[Len(r)].time + 1 = n + 1 /\ Len(bs) = n
    BY <1>4, <1>8, <1>10
  <2>3. n + 1 .. n = {}
    OBVIOUS
  <2> QED BY <2>1, <2>2, <2>3 DEF Follows
<1> QED BY <1>1, <1>4, <1>11, <1>12, <1>13, <1>14

\* It fits the buffer whole.
LEMMA ContiguousFits == ASSUME NEW n, NEW cs, Contiguous(cs, n) PROVE Capped(cs) = cs
<1>1. cs \in Seq(BarType) /\ Len(cs) \in Nat /\ Len(cs) <= MaxLen /\ MaxLen \in Nat
  BY MaxLenOK DEF Contiguous
<1>2. Capped(cs) = SubSeq(cs, 1, Len(cs))
  <2>1. PICK k \in Nat : k = Len(cs)
    BY <1>1
  <2>2. ~(k > MaxLen)
    BY <1>1, <2>1
  <2> QED BY <2>1, <2>2 DEF Capped
<1> QED BY <1>1, <1>2

\* Successive candles in reach of the klines are in order.
LEMMA ContiguousIncreasing ==
    ASSUME NEW n \in Nat, NEW cs, Contiguous(cs, n), NEW f \in Seq(Messages),
           NEW bs, Stream(f, bs), InReach(cs, f)
    PROVE  Increasing(cs, n, f)
<1>1. cs \in Seq(BarType) /\ Len(cs) <= MaxLen /\ \A i \in DOMAIN cs : cs[i].time <= n
  BY DEF Contiguous
<1>2. CASE cs = <<>>
  <2>1. DOMAIN cs = {}
    BY <1>2
  <2> QED BY <1>1, <1>2, <2>1 DEF Increasing
<1>3. CASE cs # <<>>
  <2>1. PICK k \in Nat : k = Len(cs) /\ k >= 1 /\ DOMAIN cs = 1..k
    BY <1>1, <1>3
  <2>2. PICK a \in Nat : a = cs[1].time
    BY <1>3, ContiguousTimes
  <2>3. (\A i \in 1..k : cs[i].time = a + i - 1) /\ cs[k].time = a + k - 1
    BY <1>3, <2>1, <2>2, ContiguousTimes
  <2>4. \A i, j \in DOMAIN cs : i < j => cs[i].time < cs[j].time
    BY <2>1, <2>3
  <2>5. ASSUME NEW x \in KLines(f)
        PROVE  \/ \E i \in DOMAIN cs : cs[i].time = TimeOf(f, x)
               \/ cs # <<>> => cs[Len(cs)].time < TimeOf(f, x)
    <3>1. PICK t \in Nat : t = TimeOf(f, x)
      BY BarTimes DEF Stream, TimeOf
    <3>2. a <= t
      BY <1>3, <2>2, <3>1 DEF InReach
    <3>3. CASE t <= a + k - 1
      <4>1. PICK y \in Int : y = t - a + 1
        BY <3>1
      <4>2. y \in 1..k /\ a + y - 1 = t
        BY <2>1, <3>2, <3>3, <4>1
      <4> QED BY <2>1, <2>3, <3>1, <4>2
    <3>4. CASE a + k - 1 < t
      BY <2>1, <2>3, <3>1, <3>4
    <3> QED BY <3>3, <3>4
  <2> QED BY <1>1, <2>4, <2>5 DEF Increasing
<1> QED BY <1>2, <1>3

\* Candles that follow the bars with nothing on the way are the latest ones.
LEMMA FollowsIsSuffix ==
    ASSUME NEW bs, AreBars(bs), NEW cs, Contiguous(cs, Len(bs)), Follows(cs, bs, <<>>)
    PROVE  /\ IsSuffix(cs, bs)
           /\ Full(cs) => Len(cs) = Min({MaxLen, Len(bs)})
<1>1. PICK n \in Nat : n = Len(bs) /\ n >= 1 /\ bs \in Seq(BarType)
  BY LenOK DEF AreBars
<1>2. PICK k \in Nat : k = Len(cs) /\ DOMAIN cs = 1..k /\ cs \in Seq(BarType) /\ k <= MaxLen
  BY DEF Contiguous
<1>3. \A t : ~IsSent(<<>>, t)
  BY DEF IsSent, KLines
<1>4. MaxLen \in Nat \ {0}
  BY MaxLenOK
<1>5. CASE cs = <<>>
  <2>1. Len(cs) = 0 /\ Reverse(cs) = <<>>
    BY <1>5 DEF Reverse
  <2>2. Reverse(bs) \in Seq(BarType) /\ Len(Reverse(bs)) = n
    <3>1. Reverse(bs) = [i \in 1..n |-> bs[(n - i) + 1]]
      BY <1>1 DEF Reverse
    <3>2. \A i \in 1..n : bs[(n - i) + 1] \in BarType
      BY <1>1
    <3> QED BY <3>1, <3>2
  <2>3. SubSeq(Reverse(bs), 1, 0) = <<>> /\ SubSeq(<<>>, 1, 0) = <<>> /\ Len(<<>>) = 0
    BY <2>2
  <2>4. IsPrefix(<<>>, Reverse(bs))
    BY <2>2, <2>3 DEF IsPrefix
  <2> QED BY <1>5, <2>1, <2>4 DEF IsSuffix, Full
<1>6. CASE cs # <<>>
  <2>1. k >= 1
    BY <1>2, <1>6
  <2>2. PICK a \in Nat : a = cs[1].time /\ a >= 1
    BY <1>1, <1>6, ContiguousTimes
  <2>3. /\ \A i \in 1..k : cs[i].time = a + i - 1
        /\ cs[k].time = a + k - 1 /\ a + k - 1 <= n
    BY <1>1, <1>2, <1>6, <2>2, ContiguousTimes
  <2>4. a + k - 1 = n
    <3>1. ASSUME a + k - 1 # n PROVE FALSE
      <4>1. a + k \in (a + k - 1) + 1 .. n
        BY <2>1, <2>3, <3>1
      <4>2. \A t \in cs[k].time + 1 .. n : IsSent(<<>>, t)
        BY <1>1, <1>2, <1>6 DEF Follows
      <4> QED BY <1>3, <2>3, <4>1, <4>2
    <3> QED BY <3>1
  <2>5. \A i \in 1..k : cs[i] = bs[a + i - 1]
    BY <1>2, <1>3, <1>6, <2>3 DEF Follows
  <2>6. IsSuffix(cs, bs)
    <3>1. PICK u : u = Reverse(cs)
      OBVIOUS
    <3>2. PICK v : v = Reverse(bs)
      OBVIOUS
    <3>3. u = [i \in 1..k |-> cs[(k - i) + 1]] /\ v = [i \in 1..n |-> bs[(n - i) + 1]]
      BY <1>1, <1>2, <3>1, <3>2 DEF Reverse
    <3>4. u \in Seq(BarType) /\ Len(u) = k
      <4>1. \A i \in 1..k : cs[(k - i) + 1] \in BarType
        BY <1>2
      <4> QED BY <3>3, <4>1
    <3>5. v \in Seq(BarType) /\ Len(v) = n
      <4>1. \A i \in 1..n : bs[(n - i) + 1] \in BarType
        BY <1>1
      <4> QED BY <3>3, <4>1
    <3>6. k <= n
      BY <2>2, <2>4
    <3>7. \A i \in 1..k : u[i] = v[i]
      <4> SUFFICES ASSUME NEW i \in 1..k PROVE u[i] = v[i]
        OBVIOUS
      <4>1. (k - i) + 1 \in 1..k /\ i \in 1..n /\ a + ((k - i) + 1) - 1 = (n - i) + 1
        BY <2>4, <3>6
      <4>2. u[i] = cs[(k - i) + 1] /\ v[i] = bs[(n - i) + 1]
        BY <3>3, <4>1
      <4> QED BY <2>5, <4>1, <4>2
    <3>8. SubSeq(u, 1, k) = SubSeq(v, 1, k)
      <4>1. SubSeq(u, 1, k) = [i \in 1..k |-> u[i]]
        BY <3>4
      <4>2. SubSeq(v, 1, k) = [i \in 1..k |-> v[i]]
        BY <3>5, <3>6
      <4> QED BY <3>7, <4>1, <4>2
    <3>9. IsPrefix(u, v)
      BY <3>4, <3>5, <3>6, <3>8 DEF IsPrefix
    <3> QED BY <3>1, <3>2, <3>9 DEF IsSuffix
  <2>7. ASSUME Full(cs) PROVE Len(cs) = Min({MaxLen, Len(bs)})
    <3>1. k = MaxLen \/ a = 1
      BY <1>2, <2>2, <2>7 DEF Full
    <3>2. k \in {MaxLen, n} /\ \A x \in {MaxLen, n} : k <= x
      <4>1. CASE k = MaxLen
        BY <1>4, <2>2, <2>4, <4>1
      <4>2. CASE a = 1
        BY <1>2, <1>4, <2>4, <4>2
      <4> QED BY <3>1, <4>1, <4>2
    <3>3. \A z \in {MaxLen, n} : (\A x \in {MaxLen, n} : z <= x) => z = k
      BY <1>4, <3>2
    <3>4. Min({MaxLen, n}) = k
      BY <3>2, <3>3 DEF Min
    <3> QED BY <1>1, <1>2, <3>4
  <2> QED BY <2>6, <2>7
<1> QED BY <1>5, <1>6

\* The buffer cs of a bot whose request for candles is sd: after a gap it is in order, and
\* else it follows the bars if the bot is subscribed to klines (on).
Buffered(cs, sd, on, bs, f) ==
    /\ sd = "gap" => Increasing(cs, Len(bs), f)
    /\ sd # "gap" => Contiguous(cs, Len(bs)) /\ InReach(cs, f)
    /\ sd # "gap" /\ on => Follows(cs, bs, f)
    /\ sd = "clean" => Full(cs)

\* The answer on the way: it follows the bars until a kline overtakes it.
Answered(cs, sd, on, bs, f) ==
    /\ cs # <<>> <=> sd \in {"answered", "overtaken"}
    /\ cs # <<>> => Contiguous(cs, Len(bs)) /\ Full(cs) /\ InReach(cs, f)
    /\ sd = "answered" /\ on => Follows(cs, bs, f)

\* What is known of the buffer and of the answer depends on what is sent only ...
LEMMA SameSent ==
    ASSUME NEW cs, NEW sd, NEW on, NEW bs, NEW f, NEW g, \A t : IsSent(g, t) <=> IsSent(f, t)
    PROVE  /\ Buffered(cs, sd, on, bs, f) => Buffered(cs, sd, on, bs, g)
           /\ Answered(cs, sd, on, bs, f) => Answered(cs, sd, on, bs, g)
<1>1. InReach(cs, f) => InReach(cs, g)
  BY FewerSent
<1>2. \A n : Increasing(cs, n, f) => Increasing(cs, n, g)
  BY FewerSent
<1>3. Follows(cs, bs, f) => Follows(cs, bs, g)
  BY MoreSent
<1>4. Buffered(cs, sd, on, bs, f) => Buffered(cs, sd, on, bs, g)
  BY <1>1, <1>2, <1>3 DEF Buffered
<1>5. Answered(cs, sd, on, bs, f) => Answered(cs, sd, on, bs, g)
  BY <1>1, <1>3 DEF Answered
<1> QED BY <1>4, <1>5

\* ... is kept by a bar that moves on and the kline that tells of it ...
LEMMA BarSent ==
    ASSUME NEW cs, NEW sd, NEW on, NEW f \in Seq(Messages),
           NEW bs, NEW bs2, Moved(bs, bs2), Stream(f, bs)
    PROVE  LET g == Append(f, KLine(bs2[Len(bs2)]))
           IN  /\ Buffered(cs, sd, on, bs, f) => Buffered(cs, sd, on, bs2, g)
               /\ Answered(cs, sd, on, bs, f) => Answered(cs, sd, on, bs2, g)
<1>1. PICK g : g = Append(f, KLine(bs2[Len(bs2)]))
  OBVIOUS
<1>2. /\ Contiguous(cs, Len(bs)) /\ InReach(cs, f) => InReach(cs, g)
      /\ Contiguous(cs, Len(bs)) /\ Follows(cs, bs, f) => Follows(cs, bs2, g)
      /\ Increasing(cs, Len(bs), f) => Increasing(cs, Len(bs2), g)
  BY <1>1, MovedKLine
<1>3. Contiguous(cs, Len(bs)) => Contiguous(cs, Len(bs2))
  BY MovedContiguous
<1>4. Buffered(cs, sd, on, bs, f) => Buffered(cs, sd, on, bs2, g)
  BY <1>2, <1>3 DEF Buffered
<1>5. Answered(cs, sd, on, bs, f) => Answered(cs, sd, on, bs2, g)
  BY <1>2, <1>3 DEF Answered
<1> QED BY <1>1, <1>4, <1>5

\* Without a subscription to klines none is on the way.
LEMMA NothingSent ==
    ASSUME NEW f, KLines(f) = {}, NEW bs
    PROVE  Stream(f, bs) /\ \A g : \A t : IsSent(f, t) => IsSent(g, t)
BY DEF Stream, IsSent

LEMMA NoMessages == /\ <<>> \in Seq(Messages) /\ Len(<<>>) = 0
                    /\ DOMAIN <<>> = {} /\ KLines(<<>>) = {}
BY DEF KLines

\* ... and by one that a bot without a subscription does not see.
LEMMA BarUnseen ==
    ASSUME NEW cs, NEW sd, NEW on, ~on, NEW bs, NEW bs2, Moved(bs, bs2), NEW f
    PROVE  /\ Buffered(cs, sd, on, bs, f) => Buffered(cs, sd, on, bs2, f)
           /\ Answered(cs, sd, on, bs, f) => Answered(cs, sd, on, bs2, f)
<1>1. Contiguous(cs, Len(bs)) => Contiguous(cs, Len(bs2))
  BY MovedContiguous
<1>2. Increasing(cs, Len(bs), f) => Increasing(cs, Len(bs2), f)
  <2> SUFFICES ASSUME Increasing(cs, Len(bs), f) PROVE Increasing(cs, Len(bs2), f)
    OBVIOUS
  <2>1. Len(bs) \in Nat /\ Len(bs2) \in Nat
    BY LenOK DEF Moved, AreBars
  <2>2. PICK n \in Nat, n2 \in Nat : n = Len(bs) /\ n2 = Len(bs2) /\ n <= n2
    BY <2>1 DEF Moved
  <2>3. \A i \in DOMAIN cs : cs[i].time <= n /\ cs[i].time \in Nat
    BY <2>2, BarTimes DEF Increasing
  <2>4. \A i \in DOMAIN cs : cs[i].time <= n2
    BY <2>2, <2>3
  <2> QED BY <2>2, <2>4 DEF Increasing
<1> QED BY <1>1, <1>2 DEF Buffered, Answered

\* Without a subscription the buffer need not follow.
LEMMA ConnectionLost ==
    ASSUME NEW cs, NEW sd, NEW on, NEW on2, ~on2, NEW bs, NEW f,
           NEW g, KLines(g) = {}
    PROVE  /\ Buffered(cs, sd, on, bs, f) => Buffered(cs, sd, on2, bs, g)
           /\ Answered(cs, sd, on, bs, f) => Answered(cs, sd, on2, bs, g)
<1>1. \A t : IsSent(g, t) => IsSent(f, t)
  BY NothingSent
<1>2. InReach(cs, f) => InReach(cs, g)
  BY <1>1, FewerSent
<1>3. \A n : Increasing(cs, n, f) => Increasing(cs, n, g)
  BY <1>1, FewerSent
<1> QED BY <1>2, <1>3 DEF Buffered, Answered

\* The first kline of the stream: it sets the buffer right, and overtakes an answer.
LEMMA KLineHandled ==
    ASSUME NEW f \in Seq(Messages), f # <<>>, 1 \in KLines(f),
           NEW bs, AreBars(bs), Stream(f, bs), NEW cs, NEW an, NEW sd,
           Buffered(cs, sd, TRUE, bs, f), Answered(an, sd, TRUE, bs, f),
           NEW sd2, sd2 = IF sd = "answered" THEN "overtaken" ELSE sd
    PROVE  /\ Buffered(Upsert(cs, f[1].candle), sd2, TRUE, bs, Tail(f))
           /\ Answered(an, sd2, TRUE, bs, Tail(f))
<1>1. PICK r : r = Upsert(cs, f[1].candle)
  OBVIOUS
<1>2. PICK g : g = Tail(f)
  OBVIOUS
<1>3. Buffered(r, sd2, TRUE, bs, g)
  <2>1. CASE sd = "gap"
    <3>1. Increasing(r, Len(bs), g)
      BY <1>1, <1>2, <2>1, HandledIncreasing DEF Buffered
    <3> QED BY <2>1, <3>1 DEF Buffered
  <2>2. CASE sd # "gap"
    <3>1. Contiguous(cs, Len(bs)) /\ InReach(cs, f) /\ Follows(cs, bs, f)
      BY <2>2 DEF Buffered
    <3>2. Contiguous(r, Len(bs)) /\ InReach(r, g) /\ Follows(r, bs, g) /\ (Full(cs) => Full(r))
      BY <1>1, <1>2, <3>1, HandledFollows
    <3>3. sd2 # "gap" /\ (sd2 = "clean" => sd = "clean")
      BY <2>2
    <3> QED BY <2>2, <3>2, <3>3 DEF Buffered
  <2> QED BY <2>1, <2>2
<1>4. Answered(an, sd2, TRUE, bs, g)
  <2>1. \A t : IsSent(g, t) => IsSent(f, t)
    BY <1>2, StreamTail
  <2>2. InReach(an, f) => InReach(an, g)
    BY <2>1, FewerSent
  <2>3. sd2 # "answered" /\ (sd2 \in {"answered", "overtaken"} <=> sd \in {"answered", "overtaken"})
    OBVIOUS
  <2> QED BY <2>2, <2>3 DEF Answered
<1> QED BY <1>1, <1>2, <1>3, <1>4

-----------------------------------------------------------------------------
(* The invariant of the candles *)

\* The bot is subscribed to klines.
On == "kline.update" \in subs

\* The types, and how Start, the connection and the subscriptions go together.
LinkInv ==
    /\ market \in Markets /\ shown \in Markets
    /\ book \in [BookSides -> [Texts -> Quantities]]
    /\ quoted \in [BookSides -> [Prices -> Quantities]]
    /\ AreBars(bars) /\ Len(bars) <= MaxBars
    /\ inFlight \in Seq(Messages) /\ Len(inFlight) <= MaxInFlight
    /\ conn \in {"new", "refused", "up", "broken", "dead"}
    /\ subs \subseteq {"depth.update", "kline.update"} /\ (conn # "up" => subs = {})
    /\ \A i \in DOMAIN inFlight : inFlight[i].event \in subs
    /\ start \in {"depth", "kline", "candles"} /\ (start = "depth" => subs = {})
    /\ conn \in {"new", "refused"} => start = "depth"
    /\ seed \in {"none", "answered", "overtaken", "clean", "gap", "failed"}
    /\ start # "candles" => ~On /\ seed = "none" /\ candles = <<>>

CandleInv ==
    /\ LinkInv
    /\ Stream(inFlight, bars)
    /\ Buffered(candles, seed, On, bars, inFlight)
    /\ Answered(answer, seed, On, bars, inFlight)

\* Without the subscription there are no klines on the way, and without any nothing is.
LEMMA Unsubscribed ==
    ASSUME LinkInv
    PROVE  (~On => KLines(inFlight) = {}) /\ (subs = {} => inFlight = <<>>)
<1>1. ~On => KLines(inFlight) = {}
  BY DEF LinkInv, On, KLines
<1>2. subs = {} => inFlight = <<>>
  BY LenOK DEF LinkInv
<1> QED BY <1>1, <1>2

\* The buffer before any candle.
LEMMA EmptyBuffered ==
    ASSUME NEW on, NEW bs, NEW f
    PROVE  Buffered(<<>>, "none", on, bs, f)
<1>1. <<>> \in Seq(BarType) /\ Len(<<>>) = 0 /\ DOMAIN <<>> = {} /\ MaxLen \in Nat
  BY MaxLenOK
<1>2. Contiguous(<<>>, Len(bs))
  BY <1>1 DEF Contiguous
<1>3. InReach(<<>>, f) /\ Follows(<<>>, bs, f)
  BY DEF InReach, Follows
<1> QED BY <1>2, <1>3 DEF Buffered

\* The invariant holds when the feed starts ...
LEMMA CandleInit == Init => CandleInv
<1> SUFFICES ASSUME Init PROVE CandleInv
  OBVIOUS
<1>1. AreBars(bars) /\ Len(bars) <= MaxBars
  <2>1. PICK n \in History : bars = [i \in 1..n |-> Candle(i, 1)]
    BY DEF Init
  <2>2. PICK m \in Nat : m = MaxBars /\ n \in Nat /\ n >= 1 /\ n <= m
    BY FeedConstantsOK DEF FeedConstantsOK
  <2>3. \A t \in Nat \ {0} : Candle(t, 1) \in BarType /\ Candle(t, 1).time = t
    BY DEF Candle, BarType
  <2>4. \A i \in 1..n : i \in Nat \ {0}
    BY <2>2
  <2>5. bars \in Seq(BarType) /\ Len(bars) = n /\ DOMAIN bars = 1..n
    BY <2>1, <2>2, <2>3, <2>4
  <2>6. \A i \in 1..n : bars[i].time = i
    BY <2>1, <2>3, <2>4
  <2>7. bars # <<>>
    BY <2>2, <2>5
  <2> QED BY <2>2, <2>5, <2>6, <2>7 DEF AreBars
<1>2. /\ market \in Markets /\ inFlight = <<>> /\ conn = "new" /\ subs = {} /\ start = "depth"
      /\ candles = <<>> /\ seed = "none" /\ answer = <<>> /\ ~On
  BY DEF Init, On
<1>3. /\ book \in [BookSides -> [Texts -> Quantities]]
      /\ quoted \in [BookSides -> [Prices -> Quantities]] /\ shown \in Markets
  <2>1. 0 \in Quantities
    BY FeedConstantsOK DEF FeedConstantsOK, Quantities
  <2>2. shown \in [BookSides -> [Prices -> Quantities]] /\ quoted = shown
    BY <2>1 DEF Init
  <2>3. \A p \in Prices : shown.bid[p] = 0
    BY DEF Init, BookSides
  <2> QED BY <2>1, <2>2, <2>3 DEF Init, Markets
<1>4. Stream(inFlight, bars) /\ inFlight \in Seq(Messages) /\ Len(inFlight) <= MaxInFlight
      /\ DOMAIN inFlight = {}
  <2>1. MaxInFlight \in Nat
    BY MaxLenOK, FeedConstantsOK DEF FeedConstantsOK
  <2> QED BY <1>2, <2>1, NoMessages, NothingSent
<1>5. Buffered(candles, seed, On, bars, inFlight)
  BY <1>2, EmptyBuffered
<1>6. Answered(answer, seed, On, bars, inFlight)
  BY <1>2 DEF Answered
<1>7. LinkInv
  BY <1>1, <1>2, <1>3, <1>4 DEF LinkInv
<1> QED BY <1>4, <1>5, <1>6, <1>7 DEF CandleInv

\* A trade moves the last bar or opens the next one.
LEMMA BarsAreMoved == ASSUME CandleInv, BarMoves PROVE Moved(bars, bars') /\ Len(bars') <= MaxBars
<1>1. PICK n \in Nat : n = Len(bars) /\ n >= 1 /\ DOMAIN bars = 1..n /\ n <= MaxBars
  BY LenOK DEF CandleInv, LinkInv, AreBars
<1>2. bars \in Seq(BarType) /\ \A i \in 1..n : bars[i] \in BarType /\ bars[i].time = i
  BY <1>1, LenOK DEF CandleInv, LinkInv, AreBars
<1>3. CASE bars' = [bars EXCEPT ![Len(bars)].close = 3 - @]
  <2>1. PICK c : c = [bars[n] EXCEPT !.close = 3 - @]
    OBVIOUS
  <2>2. c \in BarType /\ c.time = n
    <3>1. bars[n] \in BarType /\ bars[n].time = n
      BY <1>1, <1>2
    <3>2. \A b \in BarType : /\ [b EXCEPT !.close = 3 - @] \in BarType
                             /\ [b EXCEPT !.close = 3 - @].time = b.time
      BY DEF BarType
    <3> QED BY <2>1, <3>1, <3>2
  <2>3. bars' = [bars EXCEPT ![n] = c]
    BY <1>1, <1>3, <2>1
  <2>4. /\ bars' \in Seq(BarType) /\ Len(bars') = n /\ bars'[n] = c
        /\ \A i \in 1..n : i # n => bars'[i] = bars[i]
    BY <1>1, <1>2, <2>2, <2>3, ExceptSeq
  <2>5. \A i \in 1..n : bars'[i].time = i
    BY <1>2, <2>2, <2>4
  <2>6. DOMAIN bars' = 1..n /\ bars' # <<>>
    BY <1>1, <2>4
  <2>7. AreBars(bars')
    BY <2>4, <2>5, <2>6 DEF AreBars
  <2>8. \A i \in 1..n - 1 : bars'[i] = bars[i]
    BY <2>4
  <2> QED BY <1>1, <2>4, <2>7, <2>8 DEF Moved, CandleInv, LinkInv
<1>4. CASE Len(bars) < MaxBars /\ bars' = Append(bars, Candle(Len(bars) + 1, 1))
  <2>1. PICK c \in BarType : c = Candle(n + 1, 1) /\ c.time = n + 1
    <3>1. \A t \in Nat \ {0} : Candle(t, 1) \in BarType /\ Candle(t, 1).time = t
      BY DEF Candle, BarType
    <3>2. n + 1 \in Nat \ {0}
      OBVIOUS
    <3> QED BY <3>1, <3>2
  <2>2. bars' = Append(bars, c)
    BY <1>1, <1>4, <2>1
  <2>3. /\ bars' \in Seq(BarType) /\ Len(bars') = n + 1 /\ bars'[n + 1] = c
        /\ \A i \in 1..n : bars'[i] = bars[i]
    BY <1>1, <1>2, <2>2
  <2>4. \A i \in 1..n + 1 : bars'[i].time = i
    <3> SUFFICES ASSUME NEW i \in 1..n + 1 PROVE bars'[i].time = i
      OBVIOUS
    <3>1. CASE i = n + 1
      BY <2>1, <2>3, <3>1
    <3>2. CASE i # n + 1
      <4>1. i \in 1..n
        BY <3>2
      <4> QED BY <1>2, <2>3, <4>1
    <3> QED BY <3>1, <3>2
  <2>5. DOMAIN bars' = 1..n + 1 /\ bars' # <<>>
    BY <2>3
  <2>6. AreBars(bars')
    BY <2>3, <2>4, <2>5 DEF AreBars
  <2>7. \A i \in 1..Len(bars') - 1 : bars'[i] = bars[i]
    <3>1. Len(bars') - 1 = n
      BY <2>3
    <3> QED BY <2>3, <3>1
  <2>8. Len(bars') <= MaxBars
    <3>1. MaxBars \in Nat
      BY FeedConstantsOK DEF FeedConstantsOK
    <3> QED BY <1>1, <1>4, <2>3, <3>1
  <2> QED BY <1>1, <2>3, <2>6, <2>7, <2>8 DEF Moved, CandleInv, LinkInv
<1> QED BY <1>3, <1>4 DEF BarMoves

\* A message that is pushed fits on the way.
LEMMA PushFits ==
    ASSUME NEW f \in Seq(Messages), NEW e \in Messages, Len(f) < MaxInFlight
    PROVE  Append(f, e) \in Seq(Messages) /\ Len(Append(f, e)) <= MaxInFlight
<1>1. MaxInFlight \in Nat
  BY MaxLenOK, FeedConstantsOK DEF FeedConstantsOK
<1> QED BY <1>1

\* What is pushed was subscribed to, and fits on the way.
LEMMA PushedIsRight ==
    ASSUME LinkInv, NEW e \in Messages, Push(e)
    PROVE  /\ inFlight' \in Seq(Messages) /\ Len(inFlight') <= MaxInFlight
           /\ \A i \in DOMAIN inFlight' : inFlight'[i].event \in subs
<1>1. CASE e.event \in subs
  <2>1. inFlight' = Append(inFlight, e) /\ Len(inFlight) < MaxInFlight
    BY <1>1 DEF Push
  <2>2. inFlight \in Seq(Messages) /\ \A i \in DOMAIN inFlight : inFlight[i].event \in subs
    BY DEF LinkInv
  <2>3. inFlight' \in Seq(Messages) /\ Len(inFlight') <= MaxInFlight
    BY <2>1, <2>2, PushFits
  <2>4. PICK n \in Nat : n = Len(inFlight)
    BY <2>2, LenOK
  <2>5. /\ DOMAIN inFlight = 1..n /\ DOMAIN inFlight' = 1..n + 1 /\ inFlight'[n + 1] = e
        /\ \A i \in 1..n : inFlight'[i] = inFlight[i]
    BY <2>1, <2>2, <2>4
  <2>6. \A i \in 1..n + 1 : i \in 1..n \/ i = n + 1
    BY <2>4
  <2> QED BY <1>1, <2>2, <2>3, <2>5, <2>6
<1>2. CASE e.event \notin subs
  BY <1>2 DEF Push, LinkInv
<1> QED BY <1>1, <1>2

\* The steps, one by one: a trade moves the bar in progress or opens the next ...
LEMMA BarKeepsCandles == ASSUME CandleInv, BarMoves PROVE CandleInv'
<1> USE DEF CandleInv
<1>1. Moved(bars, bars') /\ Len(bars') <= MaxBars /\ AreBars(bars')
  BY BarsAreMoved DEF Moved
<1>2. /\ UNCHANGED <<market, conn, subs, start, book, shown, quoted, candles, seed, answer>>
      /\ On' = On
  BY DEF BarMoves, feedVars, bookVars, candleVars, On
<1>3. Push(KLine(bars'[Len(bars')]))
  BY DEF BarMoves, KLine, Last
<1>4. KLine(bars'[Len(bars')]) \in Messages
  <2>1. bars'[Len(bars')] \in BarType
    BY <1>1, LenOK DEF AreBars
  <2>2. bars'[Len(bars')] \in Candles
    BY <2>1 DEF BarType, Candles
  <2> QED BY <2>2 DEF Messages
<1>5. LinkInv'
  <2>1. /\ inFlight' \in Seq(Messages) /\ Len(inFlight') <= MaxInFlight
        /\ \A i \in DOMAIN inFlight' : inFlight'[i].event \in subs
    BY <1>3, <1>4, PushedIsRight
  <2> QED BY <1>1, <1>2, <2>1 DEF LinkInv
<1>6. CASE On
  <2>1. inFlight' = Append(inFlight, KLine(bars'[Len(bars')])) /\ inFlight \in Seq(Messages)
    BY <1>3, <1>6 DEF Push, KLine, On, LinkInv
  <2>2. Stream(inFlight', bars')
    BY <1>1, <2>1, StreamKLine
  <2>3. Buffered(candles, seed, On, bars', inFlight')
    BY <1>1, <2>1, BarSent
  <2>4. Answered(answer, seed, On, bars', inFlight')
    BY <1>1, <2>1, BarSent
  <2> QED BY <1>2, <1>5, <2>2, <2>3, <2>4
<1>7. CASE ~On
  <2>1. inFlight' = inFlight /\ KLines(inFlight) = {}
    BY <1>3, <1>7, Unsubscribed DEF Push, KLine, On
  <2>2. Stream(inFlight', bars')
    BY <2>1, NothingSent
  <2>3. Buffered(candles, seed, On, bars', inFlight)
    BY <1>1, <1>7, BarUnseen
  <2>4. Answered(answer, seed, On, bars', inFlight)
    BY <1>1, <1>7, BarUnseen
  <2> QED BY <1>2, <1>5, <2>1, <2>2, <2>3, <2>4
<1> QED BY <1>6, <1>7

\* ... the depth moves ...
LEMMA MarketKeepsCandles == ASSUME CandleInv, MarketMoves PROVE CandleInv'
<1> USE DEF CandleInv
<1>1. /\ market' \in Markets
      /\ UNCHANGED <<bars, conn, subs, start, book, shown, quoted, candles, seed, answer>>
      /\ On' = On /\ Push(DepthMessage(market'))
  BY DEF MarketMoves, feedVars, bookVars, candleVars, On
<1>2. PICK e \in Messages : e = DepthMessage(market') /\ e.event # "kline.update"
  BY <1>1 DEF Messages, DepthMessage
<1>3. LinkInv'
  <2>1. /\ inFlight' \in Seq(Messages) /\ Len(inFlight') <= MaxInFlight
        /\ \A i \in DOMAIN inFlight' : inFlight'[i].event \in subs
    BY <1>1, <1>2, PushedIsRight
  <2> QED BY <1>1, <2>1 DEF LinkInv
<1>4. CASE inFlight' = Append(inFlight, e)
  <2>1. inFlight \in Seq(Messages) /\ AreBars(bars)
    BY DEF LinkInv
  <2>2. Stream(inFlight', bars) /\ \A t : IsSent(inFlight', t) <=> IsSent(inFlight, t)
    BY <1>2, <1>4, <2>1, StreamOther
  <2>3. Buffered(candles, seed, On, bars, inFlight')
    BY <2>2, SameSent
  <2>4. Answered(answer, seed, On, bars, inFlight')
    BY <2>2, SameSent
  <2> QED BY <1>1, <1>3, <2>2, <2>3, <2>4
<1>5. CASE inFlight' = inFlight
  BY <1>1, <1>3, <1>5
<1> QED BY <1>1, <1>2, <1>4, <1>5 DEF Push

\* ... the bot connects ...
LEMMA ConnectKeepsCandles == ASSUME CandleInv, Connect PROVE CandleInv'
<1>1. /\ conn' \in {"up", "refused"} /\ start = "depth" /\ subs = {}
      /\ UNCHANGED <<market, bars, inFlight, subs, start, book, shown, quoted, candles, seed,
                     answer>>
      /\ On' = On
  BY DEF Connect, CandleInv, LinkInv, bookVars, candleVars, On
<1> QED BY <1>1 DEF CandleInv, LinkInv

\* ... and subscribes to the depth, or fails to ...
LEMMA DepthAsked == ASSUME CandleInv, SubscribeDepth PROVE CandleInv'
<1> USE DEF CandleInv
<1>1. /\ start = "depth" /\ start' = "kline" /\ conn \notin {"new", "refused"}
      /\ UNCHANGED <<market, bars, conn, book, shown, quoted, candles, seed, answer>>
  BY DEF SubscribeDepth, bookVars, candleVars
<1>2. /\ subs = {} /\ inFlight = <<>> /\ ~On /\ seed = "none" /\ candles = <<>>
  BY <1>1, Unsubscribed DEF LinkInv
<1>3. CASE conn = "up" /\ subs' = {"depth.update"} /\ inFlight' = <<DepthMessage(market)>>
  <2>1. DepthMessage(market) \in Messages /\ DepthMessage(market).event = "depth.update"
    BY DEF LinkInv, Messages, DepthMessage
  <2>2. /\ inFlight' \in Seq(Messages) /\ Len(inFlight') = 1 /\ DOMAIN inFlight' = {1}
        /\ inFlight'[1] = DepthMessage(market)
    BY <1>3, <2>1
  <2>3. KLines(inFlight') = {}
    BY <2>1, <2>2 DEF KLines
  <2>4. Len(inFlight') <= MaxInFlight
    <3>1. MaxInFlight \in Nat /\ MaxInFlight >= 1
      BY MaxLenOK, FeedConstantsOK DEF FeedConstantsOK
    <3> QED BY <2>2, <3>1
  <2>5. ~On'
    BY <1>3 DEF On
  <2>6. LinkInv'
    BY <1>1, <1>2, <1>3, <2>1, <2>2, <2>4, <2>5 DEF LinkInv
  <2>7. /\ Stream(inFlight', bars) /\ Buffered(candles, seed, On', bars, inFlight')
        /\ Answered(answer, seed, On', bars, inFlight')
    BY <2>3, <2>5, NothingSent, ConnectionLost
  <2> QED BY <1>1, <2>6, <2>7
<1>4. CASE UNCHANGED <<subs, inFlight>>
  <2>1. On' = On
    BY <1>4 DEF On
  <2> QED BY <1>1, <1>2, <1>4, <2>1 DEF LinkInv
<1> QED BY <1>3, <1>4 DEF SubscribeDepth

\* ... and to the klines, before it has any candle ...
LEMMA KLinesAsked == ASSUME CandleInv, SubscribeKLine PROVE CandleInv'
<1> USE DEF CandleInv
<1>1. /\ start = "kline" /\ start' = "candles"
      /\ UNCHANGED <<market, bars, inFlight, conn, book, shown, quoted, candles, seed, answer>>
  BY DEF SubscribeKLine, bookVars, candleVars
<1>2. /\ KLines(inFlight) = {} /\ ~On /\ seed = "none" /\ candles = <<>> /\ answer = <<>>
      /\ conn \notin {"new", "refused"}
  BY <1>1, Unsubscribed DEF LinkInv, Answered
<1>3. (conn = "up" /\ subs' = subs \cup {"kline.update"}) \/ subs' = subs
  BY DEF SubscribeKLine
<1>4. LinkInv'
  BY <1>1, <1>2, <1>3 DEF LinkInv, On
<1>5. Buffered(candles, seed, On', bars, inFlight)
  BY <1>2, EmptyBuffered
<1>6. Answered(answer, seed, On', bars, inFlight)
  BY <1>2 DEF Answered
<1> QED BY <1>1, <1>4, <1>5, <1>6

\* ... the connection breaks, and comes back without a subscription or not at all ...
LEMMA LossKeepsCandles ==
    ASSUME CandleInv, ReadError \/ Reconnect
    PROVE  CandleInv'
<1> USE DEF CandleInv
<1>1. /\ conn \notin {"new", "refused"} /\ conn' \in {"up", "broken", "dead"} /\ subs' = {}
      /\ inFlight' = <<>>
      /\ UNCHANGED <<market, bars, start, book, shown, quoted, candles, seed, answer>>
  <2>1. CASE ReadError
    BY <2>1 DEF ReadError, bookVars, candleVars
  <2>2. CASE Reconnect
    <3>1. subs = {} /\ inFlight = <<>>
      BY <2>2, Unsubscribed DEF Reconnect, LinkInv
    <3> QED BY <2>2, <3>1 DEF Reconnect, bookVars, candleVars
  <2> QED BY <2>1, <2>2
<1>2. KLines(inFlight') = {} /\ ~On' /\ inFlight' \in Seq(Messages) /\ Len(inFlight') = 0
      /\ DOMAIN inFlight' = {}
  BY <1>1, NoMessages DEF On
<1>3. Stream(inFlight', bars)
  BY <1>2, NothingSent
<1>4. Buffered(candles, seed, On', bars, inFlight')
  BY <1>2, ConnectionLost
<1>5. Answered(answer, seed, On', bars, inFlight')
  BY <1>2, ConnectionLost
<1>6. Len(inFlight') <= MaxInFlight
  <2>1. MaxInFlight \in Nat
    BY MaxLenOK, FeedConstantsOK DEF FeedConstantsOK
  <2> QED BY <1>2, <2>1
<1>7. LinkInv'
  BY <1>1, <1>2, <1>6 DEF LinkInv
<1> QED BY <1>1, <1>3, <1>4, <1>5, <1>7

\* (the book a depth message leaves has quantities for every text)
LEMMA DepthKeepsType ==
    ASSUME LinkInv, HandleDepth
    PROVE  /\ book' \in [BookSides -> [Texts -> Quantities]]
           /\ \E m \in Markets : /\ Head(inFlight) = DepthMessage(m)
                                 /\ book' \in Merged(Depth(m)) /\ shown' = m
           /\ quoted' \in [BookSides -> [Prices -> Quantities]]
<1>1. inFlight # <<>> /\ Head(inFlight).event = "depth.update"
  BY DEF HandleDepth
<1>2. Head(inFlight) \in Messages
  BY <1>1 DEF LinkInv
<1>3. PICK m \in Markets : Head(inFlight) = DepthMessage(m)
  BY <1>1, <1>2 DEF Messages, KLine
<1>4. book' \in Merged(Depth(m)) /\ shown' = m
  BY <1>3 DEF HandleDepth, DepthMessage
<1>5. ASSUME NEW s \in BookSides, NEW b \in Relabelled(book[s])
      PROVE  Updated(b, Depth(m)[s]) \in [Texts -> Quantities]
  <2>1. b \in [Texts -> Quantities]
    BY DEF Relabelled
  <2>2. \A t \in DOMAIN Depth(m)[s] : Depth(m)[s][t] \in Quantities
    <3>1. Depth(m)[s] = [t \in {TextOf(p) : p \in {q \in Prices : m[s][q] # 0}} |-> m[s][t[1]]]
      BY DEF Depth
    <3>2. \A p \in Prices : TextOf(p)[1] = p /\ m[s][p] \in Quantities
      BY MarketValues DEF TextOf
    <3> QED BY <3>1, <3>2
  <2> QED BY <2>1, <2>2 DEF Updated
<1>6. PICK a \in Relabelled(book.ask), b \in Relabelled(book.bid) :
         book' = [ask |-> Updated(a, Depth(m).ask), bid |-> Updated(b, Depth(m).bid)]
  BY <1>4 DEF Merged
<1>7. /\ Updated(a, Depth(m).ask) \in [Texts -> Quantities]
      /\ Updated(b, Depth(m).bid) \in [Texts -> Quantities]
  BY <1>5 DEF BookSides
<1>8. book' \in [BookSides -> [Texts -> Quantities]]
  BY <1>6, <1>7 DEF BookSides
<1>9. quoted' \in [BookSides -> [Prices -> Quantities]]
  <2>1. quoted \in [BookSides -> [Prices -> Quantities]]
    BY DEF LinkInv
  <2>2. \A s \in BookSides, p \in Prices : shown'[s][p] \in Quantities
    BY <1>4, MarketValues
  <2> QED BY <2>1, <2>2 DEF HandleDepth
<1> QED BY <1>3, <1>4, <1>8, <1>9

\* What is handled leaves less on the way.
LEMMA HandledIsRight ==
    ASSUME LinkInv, inFlight # <<>>, inFlight' = Tail(inFlight)
    PROVE  /\ inFlight' \in Seq(Messages) /\ Len(inFlight') <= MaxInFlight
           /\ \A i \in DOMAIN inFlight' : inFlight'[i].event \in subs
<1>1. inFlight \in Seq(Messages) /\ \A i \in DOMAIN inFlight : inFlight[i].event \in subs
  BY DEF LinkInv
<1>2. PICK n \in Nat : n = Len(inFlight) /\ n >= 1 /\ DOMAIN inFlight = 1..n
  BY <1>1, LenOK
<1>3. /\ inFlight' \in Seq(Messages) /\ Len(inFlight') = n - 1 /\ DOMAIN inFlight' = 1..n - 1
      /\ \A i \in 1..n - 1 : inFlight'[i] = inFlight[i + 1]
  BY <1>1, <1>2
<1>4. MaxInFlight \in Nat /\ n <= MaxInFlight
  BY <1>2, MaxLenOK, FeedConstantsOK DEF FeedConstantsOK, LinkInv
<1>5. \A i \in 1..n - 1 : i + 1 \in 1..n
  BY <1>2
<1> QED BY <1>1, <1>2, <1>3, <1>4, <1>5

\* ... a depth message is handled ...
LEMMA DepthKeepsCandles == ASSUME CandleInv, HandleDepth PROVE CandleInv'
<1> USE DEF CandleInv
<1>1. /\ inFlight # <<>> /\ Head(inFlight).event = "depth.update" /\ inFlight' = Tail(inFlight)
      /\ UNCHANGED <<market, bars, conn, subs, start, candles, seed, answer>> /\ On' = On
  BY DEF HandleDepth, feedVars, candleVars, On
<1>2. 1 \notin KLines(inFlight)
  BY <1>1 DEF KLines
<1>3. Stream(inFlight', bars) /\ \A t : IsSent(inFlight', t) <=> IsSent(inFlight, t)
  BY <1>1, <1>2, StreamTail DEF LinkInv
<1>4. Buffered(candles, seed, On, bars, inFlight')
  BY <1>3, SameSent
<1>5. Answered(answer, seed, On, bars, inFlight')
  BY <1>3, SameSent
<1>6. LinkInv'
  <2>1. /\ inFlight' \in Seq(Messages) /\ Len(inFlight') <= MaxInFlight
        /\ \A i \in DOMAIN inFlight' : inFlight'[i].event \in subs
    BY <1>1, HandledIsRight
  <2>2. /\ book' \in [BookSides -> [Texts -> Quantities]] /\ shown' \in Markets
        /\ quoted' \in [BookSides -> [Prices -> Quantities]]
    BY DepthKeepsType
  <2> QED BY <1>1, <2>1, <2>2 DEF LinkInv
<1> QED BY <1>1, <1>3, <1>4, <1>5, <1>6

\* ... a kline is handled, before or after the answer ...
LEMMA KLineKeepsCandles == ASSUME CandleInv, HandleKLine PROVE CandleInv'
<1> USE DEF CandleInv
<1>1. /\ inFlight # <<>> /\ Head(inFlight).event = "kline.update" /\ inFlight' = Tail(inFlight)
      /\ UNCHANGED <<market, bars, conn, subs, start, book, shown, quoted, answer>> /\ On' = On
      /\ candles' = Upsert(candles, inFlight[1].candle)
      /\ seed' = IF seed = "answered" THEN "overtaken" ELSE seed
  BY DEF HandleKLine, feedVars, bookVars, On
<1>2. 1 \in KLines(inFlight) /\ inFlight \in Seq(Messages) /\ AreBars(bars)
  BY <1>1, LenOK DEF KLines, LinkInv
<1>3. Stream(inFlight', bars)
  BY <1>1, <1>2, StreamTail
<1>4. On
  BY <1>2, Unsubscribed
<1>5. Buffered(candles, seed, TRUE, bars, inFlight) /\ Answered(answer, seed, TRUE, bars, inFlight)
  BY <1>4 DEF Buffered, Answered
<1>6. /\ Buffered(candles', seed', TRUE, bars, inFlight')
      /\ Answered(answer, seed', TRUE, bars, inFlight')
  BY <1>1, <1>2, <1>5, KLineHandled
<1>7. /\ Buffered(candles', seed', On, bars, inFlight')
      /\ Answered(answer, seed', On, bars, inFlight')
  BY <1>4, <1>6 DEF Buffered, Answered
<1>8. LinkInv'
  <2>1. /\ inFlight' \in Seq(Messages) /\ Len(inFlight') <= MaxInFlight
        /\ \A i \in DOMAIN inFlight' : inFlight'[i].event \in subs
    BY <1>1, HandledIsRight
  <2>2. seed' \in {"none", "answered", "overtaken", "clean", "gap", "failed"}
    BY <1>1 DEF LinkInv
  <2>3. start = "candles"
    BY <1>4 DEF LinkInv
  <2> QED BY <1>1, <2>1, <2>2, <2>3 DEF LinkInv
<1> QED BY <1>1, <1>3, <1>7, <1>8

\* ... the worker asks for candles ...
LEMMA AskKeepsCandles == ASSUME CandleInv, AskCandles PROVE CandleInv'
<1> USE DEF CandleInv
<1>1. /\ start = "candles" /\ seed = "none" /\ answer = <<>> /\ On' = On
      /\ UNCHANGED <<market, bars, inFlight, conn, subs, start, book, shown, quoted, candles>>
      /\ seed' \in {"answered", "failed"}
  BY DEF AskCandles, Answered, feedVars, bookVars, On
<1>2. LinkInv'
  BY <1>1 DEF LinkInv
<1>3. CASE seed' = "answered" /\ answer' = Capped(bars)
  <2>1. /\ Contiguous(answer', Len(bars)) /\ Full(answer')
        /\ InReach(answer', inFlight) /\ Follows(answer', bars, inFlight)
    BY <1>3, AnswerIsFull DEF LinkInv
  <2>2. Answered(answer', seed', On, bars, inFlight)
    BY <1>3, <2>1 DEF Answered, Full
  <2>3. Buffered(candles, seed', On, bars, inFlight)
    BY <1>1, <1>3 DEF Buffered
  <2> QED BY <1>1, <1>2, <2>2, <2>3
<1>4. CASE seed' = "failed" /\ UNCHANGED answer
  <2>1. Answered(answer', seed', On, bars, inFlight)
    BY <1>1, <1>4 DEF Answered
  <2>2. Buffered(candles, seed', On, bars, inFlight)
    BY <1>1, <1>4 DEF Buffered
  <2> QED BY <1>1, <1>2, <2>1, <2>2
<1> QED BY <1>3, <1>4 DEF AskCandles

\* ... and the answer replaces what the buffer has.
LEMMA SeedKeepsCandles == ASSUME CandleInv, SeedCandles PROVE CandleInv'
<1> USE DEF CandleInv
<1>1. /\ seed \in {"answered", "overtaken"} /\ candles' = Capped(answer) /\ answer' = <<>>
      /\ seed' = IF seed = "overtaken" THEN "gap" ELSE "clean"
      /\ UNCHANGED <<market, bars, inFlight, conn, subs, start, book, shown, quoted>>
      /\ On' = On /\ AreBars(bars)
  BY DEF SeedCandles, feedVars, bookVars, On, LinkInv
<1>2. Contiguous(answer, Len(bars)) /\ Full(answer) /\ InReach(answer, inFlight)
  BY <1>1 DEF Answered
<1>3. candles' = answer
  BY <1>1, <1>2, ContiguousFits
<1>4. Answered(answer', seed', On, bars, inFlight)
  BY <1>1 DEF Answered
<1>5. LinkInv'
  BY <1>1 DEF LinkInv
<1>6. CASE seed = "overtaken"
  <2>1. Len(bars) \in Nat
    <3>1. AreBars(bars)
      BY <1>1
    <3> QED BY ONLY <3>1, LenOK DEF AreBars
  <2>2. Increasing(answer, Len(bars), inFlight)
    <3>1. inFlight \in Seq(Messages) /\ Stream(inFlight, bars)
      BY DEF LinkInv
    <3> QED BY ONLY <1>2, <2>1, <3>1, ContiguousIncreasing
  <2>3. Buffered(candles', seed', On, bars, inFlight)
    BY <1>1, <1>3, <1>6, <2>2 DEF Buffered
  <2> QED BY <1>1, <1>4, <1>5, <1>6, <2>3
<1>7. CASE seed = "answered"
  <2>1. On => Follows(answer, bars, inFlight)
    BY <1>7 DEF Answered
  <2>2. Buffered(candles', seed', On, bars, inFlight)
    BY <1>1, <1>2, <1>3, <1>7, <2>1 DEF Buffered
  <2> QED BY <1>1, <1>4, <1>5, <1>7, <2>2
<1> QED BY <1>1, <1>6, <1>7

\* ... and every step keeps it.
LEMMA CandleStep == CandleInv /\ [Next]_vars => CandleInv'
<1> SUFFICES ASSUME CandleInv, [Next]_vars PROVE CandleInv'
  OBVIOUS
<1>1. CASE UNCHANGED vars
  BY <1>1 DEF vars, feedVars, bookVars, candleVars, CandleInv, LinkInv, On
<1> QED BY <1>1, MarketKeepsCandles, BarKeepsCandles, ConnectKeepsCandles, DepthAsked, KLinesAsked,
           LossKeepsCandles, DepthKeepsCandles, KLineKeepsCandles, AskKeepsCandles, SeedKeepsCandles
        DEF Next

\* The types, and the limits of what is on the way and in the buffer.
LEMMA CandlesFit == CandleInv => TypeOK
<1> SUFFICES ASSUME CandleInv PROVE TypeOK
  OBVIOUS
<1>1. \A i \in DOMAIN bars : bars[i].time = i /\ bars[i].close \in {1, 2}
  <2>1. \A i \in DOMAIN bars : bars[i] \in BarType /\ bars[i].time = i
    BY DEF CandleInv, LinkInv, AreBars
  <2> QED BY <2>1 DEF BarType
<1>2. Len(candles) <= MaxLen
  BY DEF CandleInv, Buffered, Increasing, Contiguous
<1> QED BY <1>1, <1>2 DEF CandleInv, LinkInv, TypeOK, Answered

\* The connection, the request, the book and the bars are of their types, nothing is on the
\* way that the bot is not subscribed to, and the buffer never holds more than it is long
\* (ws_feed.go, candle_buffer.go:25-58), whatever the prices, the exchange's way of writing
\* them, and the number of bars and messages.
THEOREM TypeCorrect == Spec => []TypeOK
BY CandleInit, CandleStep, CandlesFit, PTL DEF Spec

\* The candles are in order, without a gap unless the answer was overtaken ...
LEMMA OrderedCandles == CandleInv => CandlesOrdered
<1> SUFFICES ASSUME CandleInv, NEW i \in 1..Len(candles) - 1
             PROVE  \/ candles[i + 1].time = candles[i].time + 1
                    \/ seed = "gap" /\ candles[i + 1].time > candles[i].time
  BY DEF CandlesOrdered
<1>1. PICK n \in Nat : n = Len(bars)
  BY LenOK DEF CandleInv, LinkInv, AreBars
<1>2. PICK cs : cs = candles
  OBVIOUS
<1>3. CASE seed = "gap"
  <2>1. Increasing(cs, n, inFlight)
    BY <1>1, <1>2, <1>3 DEF CandleInv, Buffered
  <2>2. PICK k \in Nat : k = Len(cs) /\ DOMAIN cs = 1..k /\ cs \in Seq(BarType)
    BY <2>1 DEF Increasing
  <2>3. i \in 1..k /\ i + 1 \in 1..k /\ i < i + 1
    BY <1>2, <2>2
  <2>4. cs[i].time < cs[i + 1].time /\ cs[i].time \in Nat /\ cs[i + 1].time \in Nat
    BY <2>1, <2>2, <2>3, BarTimes DEF Increasing
  <2> QED BY <1>2, <1>3, <2>4
<1>4. CASE seed # "gap"
  <2>1. Contiguous(cs, n)
    BY <1>1, <1>2, <1>4 DEF CandleInv, Buffered
  <2>2. PICK k \in Nat : k = Len(cs) /\ DOMAIN cs = 1..k /\ cs \in Seq(BarType)
    BY <2>1 DEF Contiguous
  <2>3. i \in 1..k /\ i + 1 \in 1..k /\ 1 \in 1..k
    BY <1>2, <2>2
  <2>4. PICK a \in Nat : a = cs[1].time
    BY <2>2, <2>3, BarTimes
  <2>5. cs[i].time = a + i - 1 /\ cs[i + 1].time = a + (i + 1) - 1
    BY <2>1, <2>2, <2>3, <2>4 DEF Contiguous
  <2> QED BY <1>2, <2>5
<1> QED BY <1>3, <1>4

\* ... and with nothing on the way they are the latest ones.
LEMMA CandlesAreLatest == CandleInv => CandlesFollow
<1> SUFFICES ASSUME CandleInv PROVE CandlesFollow
  OBVIOUS
<1>1. ASSUME UpToDate("kline.update"), seed \in {"clean", "failed"}
      PROVE  /\ IsSuffix(candles, bars)
             /\ seed = "clean" => Len(candles) = Min({MaxLen, Len(bars)})
  <2>1. On /\ inFlight = <<>> /\ AreBars(bars)
    BY <1>1 DEF UpToDate, CandleInv, LinkInv, On
  <2>2. Contiguous(candles, Len(bars)) /\ Follows(candles, bars, <<>>)
    BY <1>1, <2>1 DEF CandleInv, Buffered
  <2>3. IsSuffix(candles, bars) /\ (Full(candles) => Len(candles) = Min({MaxLen, Len(bars)}))
    BY <2>1, <2>2, FollowsIsSuffix
  <2>4. seed = "clean" => Full(candles)
    BY DEF CandleInv, Buffered
  <2> QED BY <2>3, <2>4
<1> QED BY <1>1, OrderedCandles DEF CandlesFollow

\* In whatever order the REST answer and the klines arrive (multimarket/engine.go,
\* candle_buffer.go:25-58), the candles are in order, and a subscribed bot that has handled
\* every message has the exchange's latest ones; it needs that no message is older than the
\* buffer is long (MaxInFlight <= MaxLen).
THEOREM CandlesSetRight == Spec => []CandlesFollow
BY CandleInit, CandleStep, CandlesAreLatest, PTL DEF Spec

-----------------------------------------------------------------------------
(* The book *)

\* The depth messages among f, and the market that the bot will have been told of once
\* it has handled them all, if it has been told of cur now.
Depths(f) == {i \in DOMAIN f : f[i].event = "depth.update"}
WillShow(f, cur, m) ==
    \/ Depths(f) = {} /\ cur = m
    \/ \E i \in Depths(f) : f[i].sent = m /\ \A j \in Depths(f) : j <= i

\* One price of one side of the book: what is under its two texts, if it was told of the
\* quantity now last, and of then as the last that there was.
PriceRight(p, short, padded, now, then) ==
    /\ now # 0 => then = now
    /\ p \in Padded => padded = now /\ (short # 0 => then # 0)
    /\ p \notin Padded => padded = 0 /\ short = then

BookInv ==
    /\ \A s \in BookSides, p \in Prices :
          PriceRight(p, book[s][<<p, "short">>], book[s][<<p, "padded">>],
                     shown[s][p], quoted[s][p])
    /\ "depth.update" \in subs => WillShow(inFlight, shown, market)

\* A depth message that is pushed is the last of them, a kline none at all ...
LEMMA ShownPushed ==
    ASSUME NEW f \in Seq(Messages), NEW e, NEW cur, NEW m
    PROVE  /\ e.event = "depth.update" /\ e.sent = m => WillShow(Append(f, e), cur, m)
           /\ e.event # "depth.update" /\ WillShow(f, cur, m) => WillShow(Append(f, e), cur, m)
<1>1. PICK n \in Nat : n = Len(f)
  BY LenOK
<1>2. PICK g : g = Append(f, e)
  OBVIOUS
<1>3. /\ DOMAIN f = 1..n /\ DOMAIN g = 1..n + 1 /\ g[n + 1] = e
      /\ \A i \in 1..n : g[i] = f[i]
  BY <1>1, <1>2
<1>4. \A i : i \in 1..n + 1 <=> i \in 1..n \/ i = n + 1
  BY <1>1
<1>5. CASE e.event = "depth.update" /\ e.sent = m
  <2>1. n + 1 \in Depths(g) /\ g[n + 1].sent = m
    BY <1>3, <1>4, <1>5 DEF Depths
  <2>2. \A j \in Depths(g) : j <= n + 1
    BY <1>1, <1>3 DEF Depths
  <2> QED BY <1>2, <1>5, <2>1, <2>2 DEF WillShow
<1>6. CASE e.event # "depth.update" /\ WillShow(f, cur, m)
  <2>1. \A i : i \in Depths(g) <=> i \in Depths(f)
    BY <1>3, <1>4, <1>6 DEF Depths
  <2>2. Depths(g) = Depths(f)
    BY <2>1
  <2>3. \A i \in Depths(f) : g[i] = f[i]
    BY <1>3 DEF Depths
  <2> QED BY <1>2, <1>6, <2>2, <2>3 DEF WillShow
<1> QED BY <1>5, <1>6

\* ... and the first message that is handled tells of a market if it is a depth message.
LEMMA ShownHandled ==
    ASSUME NEW f \in Seq(Messages), f # <<>>, NEW cur, NEW m, WillShow(f, cur, m)
    PROVE  /\ f[1].event = "depth.update" => WillShow(Tail(f), f[1].sent, m)
           /\ f[1].event # "depth.update" => WillShow(Tail(f), cur, m)
<1>1. PICK n \in Nat : n = Len(f) /\ n >= 1 /\ DOMAIN f = 1..n
  BY LenOK
<1>2. PICK g : g = Tail(f)
  OBVIOUS
<1>3. DOMAIN g = 1..n - 1 /\ \A i \in 1..n - 1 : g[i] = f[i + 1]
  BY <1>1, <1>2
<1>4. \A i \in Int : i \in Depths(g) <=> i >= 1 /\ i + 1 \in Depths(f)
  BY <1>1, <1>3 DEF Depths
<1>5. Depths(f) \subseteq 1..n /\ Depths(g) \subseteq 1..n - 1
  BY <1>1, <1>3 DEF Depths
<1>6. ASSUME NEW i \in Depths(f), f[i].sent = m, \A j \in Depths(f) : j <= i, i # 1
      PROVE  WillShow(g, f[1].sent, m) /\ WillShow(g, cur, m)
  <2>1. PICK k \in Nat : i = k + 1 /\ k >= 1
    <3>1. i \in Nat /\ i >= 1 /\ i - 1 \in Nat /\ i = (i - 1) + 1
      BY <1>1, <1>5, <1>6
    <3> QED BY <1>6, <3>1
  <2>2. k \in Depths(g) /\ g[k].sent = m
    <3>1. k \in Depths(g)
      BY <1>4, <2>1
    <3> QED BY <1>3, <1>5, <1>6, <2>1, <3>1
  <2>3. ASSUME NEW j \in Depths(g) PROVE j <= k
    <3>1. j \in Int /\ j + 1 \in Depths(f)
      BY <1>1, <1>4, <1>5
    <3>2. j + 1 <= k + 1
      BY <1>6, <2>1, <3>1
    <3> QED BY <2>1, <3>1, <3>2
  <2> QED BY <2>2, <2>3 DEF WillShow
<1>7. (\A j \in Depths(f) : j <= 1) => Depths(g) = {}
  <2> SUFFICES ASSUME \A j \in Depths(f) : j <= 1, NEW j \in Depths(g) PROVE FALSE
    OBVIOUS
  <2>1. j \in Nat /\ j >= 1 /\ j + 1 \in Depths(f)
    BY <1>1, <1>4, <1>5
  <2> QED BY <2>1
<1>8. CASE f[1].event = "depth.update"
  <2>1. 1 \in Depths(f)
    BY <1>1, <1>8 DEF Depths
  <2>2. PICK i \in Depths(f) : f[i].sent = m /\ \A j \in Depths(f) : j <= i
    BY <2>1 DEF WillShow
  <2> QED BY <1>2, <1>6, <1>7, <1>8, <2>2 DEF WillShow
<1>9. CASE f[1].event # "depth.update"
  <2>1. 1 \notin Depths(f)
    BY <1>9 DEF Depths
  <2>2. CASE Depths(f) = {} /\ cur = m
    BY <1>2, <1>7, <1>9, <2>2 DEF WillShow
  <2>3. CASE \E i \in Depths(f) : f[i].sent = m /\ \A j \in Depths(f) : j <= i
    BY <1>2, <1>6, <1>9, <2>1, <2>3
  <2> QED BY <2>2, <2>3 DEF WillShow
<1> QED BY <1>8, <1>9

\* A side after a depth message: what was there goes under the short text, what the
\* message has under the text it came with.
LEMMA SideMerged ==
    ASSUME NEW s \in BookSides, NEW m \in Markets, NEW b \in Relabelled(book[s]),
           NEW p \in Prices, book \in [BookSides -> [Texts -> Quantities]],
           NEW then, PriceRight(p, book[s][<<p, "short">>], book[s][<<p, "padded">>],
                                shown[s][p], then),
           NEW r, r = Updated(b, Depth(m)[s])
    PROVE  PriceRight(p, r[<<p, "short">>], r[<<p, "padded">>], m[s][p],
                      IF m[s][p] # 0 THEN m[s][p] ELSE then)
<1>1. <<p, "short">> \in Texts /\ <<p, "padded">> \in Texts
  BY DEF Texts
<1>2. PICK x, y : x = book[s][<<p, "short">>] /\ y = book[s][<<p, "padded">>]
  OBVIOUS
<1>3. PICK now : now = m[s][p]
  OBVIOUS
<1>4. /\ b[<<p, "padded">>] = 0
      /\ x = 0 /\ y = 0 => b[<<p, "short">>] = 0
      /\ x # 0 \/ y # 0 => b[<<p, "short">>] \in {x, y} \ {0}
  <2> DEFINE found == {book[s][<<p, f>>] : f \in {"short", "padded"}} \ {0}
  <2>1. found = {x, y} \ {0}
    BY <1>2
  <2>2. b[<<p, "padded">>] = 0 /\ b[<<p, "short">>] \in IF found = {} THEN {0} ELSE found
    BY DEF Relabelled
  <2> HIDE DEF found
  <2> QED BY <2>1, <2>2
<1>5. PICK new : new = {TextOf(q) : q \in {z \in Prices : m[s][z] # 0}}
  OBVIOUS
<1>6. DOMAIN Depth(m)[s] = new /\ \A t \in new : Depth(m)[s][t] = m[s][t[1]]
  BY <1>5 DEF Depth
<1>7. ASSUME NEW f \in {"short", "padded"}
      PROVE  <<p, f>> \in new <=> now # 0 /\ (f = "padded" <=> p \in Padded)
  BY <1>3, <1>5 DEF TextOf
<1>8. ASSUME NEW f \in {"short", "padded"}
      PROVE  r[<<p, f>>] = IF <<p, f>> \in new THEN now ELSE b[<<p, f>>]
  <2>1. <<p, f>> \in Texts
    BY DEF Texts
  <2> QED BY <1>3, <1>6, <2>1 DEF Updated
<1>9. CASE p \in Padded
  <2>1. /\ r[<<p, "short">>] = b[<<p, "short">>]
        /\ r[<<p, "padded">>] = IF now # 0 THEN now ELSE 0
    BY <1>4, <1>7, <1>8, <1>9
  <2>2. (x # 0 => then # 0) /\ y = shown[s][p] /\ (shown[s][p] # 0 => then = shown[s][p])
    BY <1>2, <1>9 DEF PriceRight
  <2>3. b[<<p, "short">>] # 0 => then # 0
    BY <1>4, <2>2
  <2> QED BY <1>3, <1>9, <2>1, <2>3 DEF PriceRight
<1>10. CASE p \notin Padded
  <2>1. /\ r[<<p, "short">>] = IF now # 0 THEN now ELSE b[<<p, "short">>]
        /\ r[<<p, "padded">>] = 0
    BY <1>4, <1>7, <1>8, <1>10
  <2>2. x = then /\ y = 0
    BY <1>2, <1>10 DEF PriceRight
  <2>3. b[<<p, "short">>] = then
    BY <1>4, <2>2
  <2> QED BY <1>3, <1>10, <2>1, <2>3 DEF PriceRight
<1> QED BY <1>9, <1>10

LEMMA BookInit == Init => BookInv
<1> SUFFICES ASSUME Init PROVE BookInv
  OBVIOUS
<1>1. "depth.update" \notin subs
  BY DEF Init
<1>2. ASSUME NEW s \in BookSides, NEW p \in Prices
      PROVE  /\ book[s][<<p, "short">>] = 0 /\ book[s][<<p, "padded">>] = 0
             /\ shown[s][p] = 0 /\ quoted[s][p] = 0
  <2>1. <<p, "short">> \in Texts /\ <<p, "padded">> \in Texts
    BY DEF Texts
  <2> QED BY <2>1 DEF Init
<1> QED BY <1>1, <1>2 DEF BookInv, PriceRight

\* Steps that handle no depth message leave the book.
LEMMA BookFrame ==
    ASSUME BookInv, UNCHANGED <<book, shown, quoted>>,
           "depth.update" \in subs' => WillShow(inFlight', shown, market')
    PROVE  BookInv'
BY DEF BookInv

\* One that does puts each level of the message into the book, and keeps the others.
LEMMA DepthStep == ASSUME LinkInv, BookInv, HandleDepth PROVE BookInv'
<1>1. PICK m \in Markets : /\ Head(inFlight) = DepthMessage(m)
                           /\ book' \in Merged(Depth(m)) /\ shown' = m
  BY DepthKeepsType
<1>2. PICK a \in Relabelled(book.ask), b \in Relabelled(book.bid) :
         book' = [ask |-> Updated(a, Depth(m).ask), bid |-> Updated(b, Depth(m).bid)]
  BY <1>1 DEF Merged
<1>3. ASSUME NEW s \in BookSides, NEW p \in Prices
      PROVE  PriceRight(p, book'[s][<<p, "short">>], book'[s][<<p, "padded">>],
                        shown'[s][p], quoted'[s][p])
  <2>1. quoted'[s][p] = IF m[s][p] # 0 THEN m[s][p] ELSE quoted[s][p]
    BY <1>1 DEF HandleDepth
  <2>2. \E c \in Relabelled(book[s]) : book'[s] = Updated(c, Depth(m)[s])
    BY <1>2 DEF BookSides
  <2>3. PICK c \in Relabelled(book[s]) : book'[s] = Updated(c, Depth(m)[s])
    BY <2>2
  <2>4. /\ book \in [BookSides -> [Texts -> Quantities]]
        /\ PriceRight(p, book[s][<<p, "short">>], book[s][<<p, "padded">>],
                      shown[s][p], quoted[s][p])
    BY DEF LinkInv, BookInv
  <2>5. PriceRight(p, book'[s][<<p, "short">>], book'[s][<<p, "padded">>], m[s][p],
                   IF m[s][p] # 0 THEN m[s][p] ELSE quoted[s][p])
    BY <2>3, <2>4, SideMerged
  <2> QED BY <1>1, <2>1, <2>5
<1>4. "depth.update" \in subs' => WillShow(inFlight', shown', market')
  <2>1. /\ inFlight \in Seq(Messages) /\ inFlight # <<>> /\ inFlight' = Tail(inFlight)
        /\ subs' = subs /\ market' = market
    BY DEF LinkInv, HandleDepth, feedVars
  <2>2. inFlight[1].event = "depth.update" /\ inFlight[1].sent = m
    BY <1>1, <2>1 DEF DepthMessage
  <2>3. "depth.update" \in subs => WillShow(inFlight, shown, market)
    BY DEF BookInv
  <2> QED BY <1>1, <2>1, <2>2, <2>3, ShownHandled
<1> QED BY <1>3, <1>4 DEF BookInv

\* A push tells the subscriber of the market as it is.
LEMMA PushStep ==
    ASSUME LinkInv, BookInv, MarketMoves \/ BarMoves
    PROVE  BookInv'
<1>1. inFlight \in Seq(Messages) /\ UNCHANGED <<book, shown, quoted, subs>>
  BY DEF LinkInv, MarketMoves, BarMoves, feedVars, bookVars
<1>2. CASE MarketMoves
  <2>1. market' \in Markets /\ Push(DepthMessage(market'))
    BY <1>2 DEF MarketMoves
  <2>2. PICK e \in Messages : /\ e = DepthMessage(market') /\ e.event = "depth.update"
                              /\ e.sent = market'
    BY <2>1 DEF Messages, DepthMessage
  <2>3. "depth.update" \in subs => inFlight' = Append(inFlight, e)
    BY <2>1, <2>2 DEF Push
  <2> QED BY <1>1, <2>2, <2>3, ShownPushed, BookFrame
<1>3. CASE BarMoves
  <2>1. market' = market /\ Push([event |-> "kline.update", candle |-> Last(bars')])
    BY <1>3 DEF BarMoves
  <2>2. PICK e : e = [event |-> "kline.update", candle |-> Last(bars')]
    OBVIOUS
  <2>3. e.event # "depth.update" /\ (inFlight' = inFlight \/ inFlight' = Append(inFlight, e))
    BY <2>1, <2>2 DEF Push
  <2>4. "depth.update" \in subs => WillShow(inFlight, shown, market)
    BY DEF BookInv
  <2>5. WillShow(inFlight, shown, market) => WillShow(Append(inFlight, e), shown, market)
    BY <1>1, <2>3, ShownPushed
  <2> QED BY <1>1, <2>1, <2>3, <2>4, <2>5, BookFrame
<1> QED BY <1>2, <1>3

\* The subscription begins with the market as it is, and nothing is promised without it.
LEMMA LinkStep ==
    ASSUME LinkInv, BookInv,
           \/ Connect \/ SubscribeDepth \/ SubscribeKLine \/ ReadError \/ Reconnect
           \/ HandleKLine \/ AskCandles \/ SeedCandles
    PROVE  BookInv'
<1>1. UNCHANGED <<book, shown, quoted, market>>
  BY DEF Connect, SubscribeDepth, SubscribeKLine, ReadError, Reconnect, HandleKLine, AskCandles,
         SeedCandles, bookVars
<1>2. "depth.update" \in subs => WillShow(inFlight, shown, market)
  BY DEF BookInv
<1>3. CASE SubscribeDepth
  <2>1. CASE subs' = {"depth.update"} /\ inFlight' = <<DepthMessage(market)>>
    <3>1. Depths(inFlight') = {1} /\ inFlight'[1].sent = market
      BY <2>1 DEF Depths, DepthMessage
    <3> QED BY <1>1, <3>1, BookFrame DEF WillShow
  <2>2. CASE UNCHANGED <<subs, inFlight>>
    BY <1>1, <1>2, <2>2, BookFrame
  <2> QED BY <1>3, <2>1, <2>2 DEF SubscribeDepth
<1>4. CASE ReadError
  BY <1>1, <1>4, BookFrame DEF ReadError
<1>5. CASE HandleKLine
  <2>1. /\ inFlight \in Seq(Messages) /\ inFlight # <<>> /\ inFlight' = Tail(inFlight)
        /\ subs' = subs /\ inFlight[1].event # "depth.update"
    BY <1>5 DEF LinkInv, HandleKLine, feedVars
  <2> QED BY <1>1, <1>2, <2>1, ShownHandled, BookFrame
<1>6. CASE Connect \/ SubscribeKLine \/ Reconnect \/ AskCandles \/ SeedCandles
  <2>1. inFlight' = inFlight /\ ("depth.update" \in subs' => "depth.update" \in subs)
    BY <1>6 DEF Connect, SubscribeKLine, Reconnect, AskCandles, SeedCandles, feedVars
  <2> QED BY <1>1, <1>2, <2>1, BookFrame
<1> QED BY <1>3, <1>4, <1>5, <1>6

LEMMA BookStep == LinkInv /\ BookInv /\ [Next]_vars => BookInv'
<1> SUFFICES ASSUME LinkInv, BookInv, [Next]_vars PROVE BookInv'
  OBVIOUS
<1>1. CASE UNCHANGED vars
  BY <1>1 DEF vars, feedVars, bookVars, BookInv
<1> QED BY <1>1, DepthStep, PushStep, LinkStep DEF Next

LEMMA BookShowsIt == LinkInv /\ BookInv => BookFollows
<1> SUFFICES ASSUME LinkInv, BookInv PROVE BookFollows
  OBVIOUS
<1>1. UpToDate("depth.update") => shown = market
  <2>1. Depths(<<>>) = {}
    BY DEF Depths
  <2> QED BY <2>1 DEF UpToDate, BookInv, WillShow
<1>2. ASSUME NEW s \in BookSides, NEW p \in Prices
      PROVE  /\ <<p, "short">> \in Texts /\ <<p, "padded">> \in Texts
             /\ PriceRight(p, book[s][<<p, "short">>], book[s][<<p, "padded">>],
                           shown[s][p], quoted[s][p])
  BY DEF BookInv, Texts
<1>3. ASSUME NEW s \in BookSides, NEW l \in Levels(shown, s) PROVE l \in BookLevels(s)
  <2>1. PICK p \in Prices : l = <<p, shown[s][p]>> /\ shown[s][p] # 0
    BY DEF Levels
  <2>2. PICK t \in Texts : t[1] = p /\ book[s][t] = shown[s][p]
    <3>1. CASE p \in Padded
      <4>1. book[s][<<p, "padded">>] = shown[s][p] /\ <<p, "padded">>[1] = p
        BY <1>2, <3>1 DEF PriceRight
      <4> QED BY <1>2, <4>1
    <3>2. CASE p \notin Padded
      <4>1. book[s][<<p, "short">>] = shown[s][p] /\ <<p, "short">>[1] = p
        BY <1>2, <2>1, <3>2 DEF PriceRight
      <4> QED BY <1>2, <4>1
    <3> QED BY <3>1, <3>2
  <2> QED BY <2>1, <2>2 DEF BookLevels
<1>4. ASSUME NEW s \in BookSides, NEW l \in BookLevels(s) \ Levels(shown, s)
      PROVE  /\ quoted[s][l[1]] # 0
             /\ l[1] \notin Padded => shown[s][l[1]] = 0 /\ l[2] = quoted[s][l[1]]
  <2>1. PICK t \in Texts : l = <<t[1], book[s][t]>> /\ book[s][t] # 0
    BY DEF BookLevels
  <2>2. PICK p \in Prices, f \in {"short", "padded"} : t = <<p, f>>
    BY DEF Texts
  <2>3. l[1] = p /\ l[2] = book[s][<<p, f>>] /\ book[s][<<p, f>>] # 0
    BY <2>1, <2>2
  <2>4. l = <<p, shown[s][p]>> /\ shown[s][p] # 0 => l \in Levels(shown, s)
    BY DEF Levels
  <2>5. PriceRight(p, book[s][<<p, "short">>], book[s][<<p, "padded">>],
                   shown[s][p], quoted[s][p])
    BY <1>2
  <2>6. CASE p \in Padded
    <3>1. f = "padded" => shown[s][p] # 0
      BY <2>3, <2>5, <2>6 DEF PriceRight
    <3>2. quoted[s][p] # 0
      BY <2>3, <2>5, <2>6, <3>1 DEF PriceRight
    <3> QED BY <2>3, <2>6, <3>2
  <2>7. CASE p \notin Padded
    <3>1. f = "short" /\ book[s][<<p, "short">>] = quoted[s][p]
      BY <2>3, <2>5, <2>7 DEF PriceRight
    <3>2. shown[s][p] = 0
      BY <2>1, <2>2, <2>4, <2>5, <2>7, <3>1 DEF PriceRight
    <3> QED BY <2>3, <3>1, <3>2
  <2> QED BY <2>6, <2>7
<1> QED BY <1>1, <1>3, <1>4 DEF BookFollows

\* However many depth messages are on the way or lost, and however the exchange spells its
\* prices (ws_feed.go:67-73, 150-228): a subscribed bot that has handled every message was
\* told of the present depth, and the book has each level it was last told of; whatever else
\* it has was quoted before, at a price that has gone, with its last quantity, or that has
\* two spellings.
THEOREM NothingIsMissing == Spec => []BookFollows
<1>1. CandleInv => LinkInv
  BY DEF CandleInv
<1>2. CandleInv /\ BookInv /\ [Next]_vars => (CandleInv /\ BookInv)'
  BY <1>1, CandleStep, BookStep
<1>3. CandleInv /\ BookInv => BookFollows
  BY <1>1, BookShowsIt
<1> QED BY <1>2, <1>3, CandleInit, BookInit, PTL DEF Spec
===============================================================================
