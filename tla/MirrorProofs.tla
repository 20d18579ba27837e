---------------------------- MODULE MirrorProofs ----------------------------
(***************************************************************************)
(* Proofs about Signals: in a market that is turned upside down about      *)
(* Centre every even strategy votes for the opposite side, but for the     *)
(* ties, for any number of candles, any periods and any prices.  What two  *)
(* indicators make of a market and of its image adds up, bar by bar, to a  *)
(* constant; then the comparisons of a vote change sides.                  *)
(***************************************************************************)
EXTENDS SignalsProofs

-----------------------------------------------------------------------------
(* The market turned upside down: sums of what is mirrored *)

\* Two numbers that add up to k.
AddUp(x, y, k) == x \in Int /\ y \in Int /\ x + y = k

\* Two series of which each is the other's mirror image: their values add up to k.
Opposed(v, w, k) ==
    /\ Sequence(v) /\ Sequence(w) /\ Len(w) = Len(v)
    /\ \A i \in 1..Len(v) : AddUp(v[i], w[i], k)

\* So do their sums, for each value once.
LEMMA OpposedTotals ==
    ASSUME NEW k \in Int, NEW v, NEW w, Opposed(v, w, k)
    PROVE  Total(v) \in Int /\ Total(w) \in Int /\ Total(v) + Total(w) = Len(v) * k
<1>1. PICK n \in Nat : n = Len(v) /\ n = Len(w)
  BY SequenceIs DEF Opposed
<1>2. PICK s : s[0] = 0 /\ Total(v) = s[n] /\ \A i \in Nat : i < n => s[i + 1] = s[i] + v[i + 1]
  BY <1>1, TotalFollows DEF Opposed
<1>3. PICK t : t[0] = 0 /\ Total(w) = t[n] /\ \A i \in Nat : i < n => t[i + 1] = t[i] + w[i + 1]
  BY <1>1, TotalFollows DEF Opposed
<1> DEFINE Good(i) == s[i] \in Int /\ t[i] \in Int /\ s[i] + t[i] = i * k
           T == {i \in 0..n : Good(i)}
<1>4. 0 \in T
  BY <1>2, <1>3
<1>5. ASSUME NEW i \in 0..(n - 1), i \in T PROVE i + 1 \in T
  <2>1. i \in Nat /\ i < n /\ i + 1 \in 0..n /\ i + 1 \in 1..n
    OBVIOUS
  <2>2. Good(i)
    BY <1>5
  <2>7. PICK a \in Int, b \in Int : a = s[i] /\ b = t[i]
    BY <2>2
  <2>3. PICK x \in Int, y \in Int : x = v[i + 1] /\ y = w[i + 1] /\ x + y = k
    BY <1>1, <2>1 DEF Opposed, AddUp
  <2>4. s[i + 1] = a + x /\ t[i + 1] = b + y
    BY <1>2, <1>3, <2>1, <2>3, <2>7
  <2>8. PICK r \in Int : r = i * k
    OBVIOUS
  <2>5. a + b = r /\ (i + 1) * k = r + k
    BY <2>2, <2>7, <2>8
  <2>6. Good(i + 1)
    <3>1. (a + x) + (b + y) = (i + 1) * k
      BY ONLY <2>3, <2>5, a \in Int, b \in Int, x \in Int, y \in Int, k \in Int, r \in Int
    <3>2. a + x \in Int /\ b + y \in Int
      OBVIOUS
    <3> QED BY <2>4, <3>1, <3>2, Zenon
  <2> HIDE DEF Good
  <2> QED BY <2>1, <2>6
<1>6. Good(n)
  <2>1. n \in 0..n
    OBVIOUS
  <2>2. n \in T
    <3> HIDE DEF T
    <3> QED BY <1>4, <1>5, <2>1, InductionUpTo
  <2> HIDE DEF Good
  <2> QED BY <2>2
<1> QED BY <1>1, <1>2, <1>3, <1>6

\* So do parts of them.
LEMMA OpposedParts ==
    ASSUME NEW k, NEW v, NEW w, Opposed(v, w, k), NEW i \in Nat \ {0}, NEW j \in Nat, j <= Len(v), i <= j + 1
    PROVE  Opposed(SubSeq(v, i, j), SubSeq(w, i, j), k)
<1>1. /\ Sequence(SubSeq(v, i, j)) /\ Len(SubSeq(v, i, j)) = j - i + 1
      /\ \A h \in 1..(j - i + 1) : SubSeq(v, i, j)[h] = v[i + h - 1]
  BY Part DEF Opposed
<1>2. /\ Sequence(SubSeq(w, i, j)) /\ Len(SubSeq(w, i, j)) = j - i + 1
      /\ \A h \in 1..(j - i + 1) : SubSeq(w, i, j)[h] = w[i + h - 1]
  BY Part DEF Opposed
<1>3. ASSUME NEW h \in 1..(j - i + 1)
      PROVE  AddUp(v[i + h - 1], w[i + h - 1], k)
  <2>1. Len(v) \in Nat
    BY SequenceIs DEF Opposed
  <2>2. i + h - 1 \in 1..Len(v)
    BY <2>1
  <2> QED BY <2>2 DEF Opposed
<1> QED BY <1>1, <1>2, <1>3 DEF Opposed

\* One step of the recursion of the EMA: from p to a with the value x.
Goes(n, p, x, a) == a * (n + 1) = 2 * x + (n - 1) * p
\* One step of two averages of opposite values.
LEMMA OpposedStep ==
    ASSUME NEW n \in Nat \ {0}, NEW k \in Int, NEW a \in Int, NEW b \in Int, NEW p, NEW q, NEW x, NEW y,
           AddUp(x, y, k), AddUp(p, q, k),
           Goes(n, p, x, a), Goes(n, q, y, b)
    PROVE  AddUp(a, b, k)
<1>0. p \in Int /\ q \in Int /\ x \in Int /\ y \in Int /\ x + y = k /\ p + q = k
  BY DEF AddUp
<1>1. (n + 1) * (a + b) = a * (n + 1) + b * (n + 1)
  OBVIOUS
<1>2. (n - 1) * p + (n - 1) * q = (n - 1) * (p + q)
  BY <1>0
<1>3. (n + 1) * (a + b) = 2 * k + (n - 1) * k
  BY <1>0, <1>1, <1>2 DEF Goes
<1>4. 2 * k + (n - 1) * k = (n + 1) * k
  OBVIOUS
<1>5. n + 1 \in Nat \ {0} /\ a + b \in Int
  OBVIOUS
<1>6. a + b = k
  BY <1>3, <1>4, <1>5, Cancelled
<1> QED BY <1>6 DEF AddUp

\* So do their averages.
LEMMA OpposedAverages ==
    ASSUME NEW k \in Int, NEW v, NEW w, Opposed(v, w, k), NEW n \in Nat \ {0}, n <= Len(v),
           NEW e, EMAOf(v, n, e), \A i \in 1..Len(e) : e[i] \in Int,
           NEW f, EMAOf(w, n, f), \A i \in 1..Len(f) : f[i] \in Int
    PROVE  Opposed(e, f, k)
<1>1. PICK m \in Nat : m = Len(v) - n
  <2>1. PICK l \in Nat : l = Len(v) /\ n <= l
    BY SequenceIs DEF Opposed
  <2>2. l - n \in Nat
    BY <2>1
  <2> QED BY <2>1, <2>2, Zenon
<1>2. /\ Sequence(e) /\ Len(e) = m + 1 /\ Sequence(f) /\ Len(f) = m + 1
      /\ Len(v) = n + m /\ Len(w) = Len(v)
  <2>1. Len(v) \in Nat /\ Len(w) = Len(v)
    BY SequenceIs DEF Opposed
  <2> QED BY <1>1, <2>1 DEF EMAOf
<1>3. \A i \in 0..m : e[i + 1] \in Int /\ f[i + 1] \in Int
  BY <1>2
<1> DEFINE Good(i) == AddUp(e[i + 1], f[i + 1], k)
           T == {i \in 0..m : Good(i)}
<1>4. 0 \in T
  <2>1. PICK a \in Int, b \in Int : a = e[0 + 1] /\ b = f[0 + 1]
    BY <1>3
  <2>2. PICK x \in Int, y \in Int : x = Total(SubSeq(v, 1, n)) /\ y = Total(SubSeq(w, 1, n)) /\ x + y = n * k
    <3>1. Opposed(SubSeq(v, 1, n), SubSeq(w, 1, n), k)
      BY OpposedParts
    <3>2. Len(SubSeq(v, 1, n)) = n
      <4>1. Sequence(v) /\ n - 1 + 1 = n /\ 1 \in Nat \ {0} /\ n \in Nat /\ 1 <= n + 1
        BY DEF Opposed
      <4>2. Len(SubSeq(v, 1, n)) = n - 1 + 1
        BY <4>1, Part
      <4> QED BY <4>1, <4>2, Zenon
    <3> QED BY <3>1, <3>2, OpposedTotals, ZenonT(60)
  <2>3. a * n = x /\ b * n = y
    BY <2>1, <2>2 DEF EMAOf
  <2>4. n * (a + b) = n * k
    BY ONLY <2>2, <2>3, a \in Int, b \in Int, n \in Nat \ {0}, k \in Int
  <2>5. AddUp(a, b, k)
    BY <2>4, Cancelled DEF AddUp
  <2> QED BY <2>1, <2>5
<1>5. ASSUME NEW i \in 0..(m - 1), i \in T PROVE i + 1 \in T
  <2>1. i \in 0..m /\ i + 1 \in 0..m /\ i + 1 \in 1..m /\ n + (i + 1) \in 1..Len(v)
    BY <1>2
  <2>2. PICK p, q : p = e[i + 1] /\ q = f[i + 1] /\ AddUp(p, q, k)
    BY <1>5, <2>1
  <2>3. PICK x, y : x = v[n + (i + 1)] /\ y = w[n + (i + 1)] /\ AddUp(x, y, k)
    BY <2>1 DEF Opposed
  <2>4. PICK a \in Int, b \in Int : a = e[i + 1 + 1] /\ b = f[i + 1 + 1]
    BY <1>3, <2>1
  <2>5. Goes(n, p, x, a) /\ Goes(n, q, y, b)
    <3>1. i + 1 \in 1..(Len(v) - n) /\ i + 1 \in 1..(Len(w) - n)
      BY <1>2, <2>1
    <3> QED BY <2>2, <2>3, <2>4, <3>1 DEF EMAOf, Goes
  <2>6. AddUp(a, b, k)
    BY <2>2, <2>3, <2>5, OpposedStep
  <2> QED BY <2>1, <2>4, <2>6
<1>6. \A i \in 0..m : i \in T
  <2> HIDE DEF T
  <2> QED BY <1>4, <1>5, InductionUpTo
<1>7. ASSUME NEW i \in 1..(m + 1) PROVE AddUp(e[i], f[i], k)
  <2>1. i - 1 \in 0..m /\ i - 1 + 1 = i
    OBVIOUS
  <2>2. Good(i - 1)
    BY <1>6, <2>1
  <2> QED BY <1>3, <2>1, <2>2
<1> QED BY <1>2, <1>7 DEF Opposed

\* A price and its mirror image add up to this.
Axis == 2 * Centre

\* Two candles, and two markets, of which each is the other's mirror image.
Facing(k, m) ==
    /\ AddUp(k.open, m.open, Axis) /\ AddUp(k.close, m.close, Axis)
    /\ AddUp(k.high, m.low, Axis)  /\ AddUp(k.low, m.high, Axis)
AllFacing(w, z) ==
    /\ Sequence(w) /\ Sequence(z) /\ Len(z) = Len(w)
    /\ \A i \in 1..Len(w) : Facing(w[i], z[i])
Mirrored(c, d) == Proper(c) /\ Proper(d) /\ AllFacing(c, d) /\ Len(c) # 0

\* The axis and its multiple are integers.
LEMMA AxisIs == Axis \in Nat /\ Scale \in Nat \ {0} /\ Scale * Axis \in Int
  BY SignalsConstantsOK, ScaleAssumption DEF Axis

\* Addends may be swapped.
LEMMA AddUpBack ==
    ASSUME NEW x, NEW y, NEW k, AddUp(x, y, k)
    PROVE  AddUp(y, x, k)
  BY DEF AddUp

\* A multiple of a price.
LEMMA AddUpTimes ==
    ASSUME NEW x, NEW y, NEW k \in Int, NEW n \in Int, AddUp(x, y, k)
    PROVE  AddUp(n * x, n * y, n * k)
<1>1. PICK a \in Int, b \in Int : a = x /\ b = y /\ a + b = k
  BY DEF AddUp
<1>2. n * a + n * b = n * (a + b) /\ n * a \in Int /\ n * b \in Int
  OBVIOUS
<1> QED BY <1>1, <1>2 DEF AddUp

\* Parts of markets that are.
LEMMA FacingParts ==
    ASSUME NEW c, NEW d, AllFacing(c, d), NEW i \in Nat \ {0}, NEW j \in Nat, j <= Len(c), i <= j + 1
    PROVE  /\ AllFacing(SubSeq(c, i, j), SubSeq(d, i, j)) /\ Len(SubSeq(c, i, j)) = j - i + 1
           /\ Len(SubSeq(d, i, j)) = j - i + 1
<1>1. /\ Sequence(SubSeq(c, i, j)) /\ Len(SubSeq(c, i, j)) = j - i + 1
      /\ \A h \in 1..(j - i + 1) : SubSeq(c, i, j)[h] = c[i + h - 1]
  BY Part DEF AllFacing
<1>2. /\ Sequence(SubSeq(d, i, j)) /\ Len(SubSeq(d, i, j)) = j - i + 1
      /\ \A h \in 1..(j - i + 1) : SubSeq(d, i, j)[h] = d[i + h - 1]
  BY Part DEF AllFacing
<1>3. ASSUME NEW h \in 1..(j - i + 1)
      PROVE  Facing(c[i + h - 1], d[i + h - 1])
  <2>1. Len(c) \in Nat
    BY SequenceIs DEF AllFacing
  <2>2. i + h - 1 \in 1..Len(c)
    BY <2>1
  <2> QED BY <2>2 DEF AllFacing
<1> QED BY <1>1, <1>2, <1>3 DEF AllFacing

\* The highest of one is the lowest of the other.
LEMMA OpposedExtremes ==
    ASSUME NEW w, NEW z, Len(z) = Len(w), NEW f, NEW g, NEW k \in Int,
           \A i \in 1..Len(w) : AddUp(w[i][f], z[i][g], k),
           NEW x, IsTop(w, f, x), NEW y, IsBottom(z, g, y)
    PROVE  AddUp(x, y, k)
<1>1. x \in Int /\ y \in Int
  BY DEF IsTop, IsBottom
<1>2. PICK i \in 1..Len(w) : x = w[i][f]
  BY DEF IsTop
<1>3. y <= z[i][g] /\ AddUp(w[i][f], z[i][g], k)
  BY <1>2 DEF IsBottom
<1>4. x + y <= k
  BY <1>1, <1>2, <1>3 DEF AddUp
<1>5. PICK j \in 1..Len(w) : y = z[j][g]
  BY DEF IsBottom
<1>6. w[j][f] <= x /\ AddUp(w[j][f], z[j][g], k)
  BY <1>5 DEF IsTop
<1>7. x + y >= k
  BY <1>1, <1>5, <1>6 DEF AddUp
<1> QED BY <1>1, <1>4, <1>7 DEF AddUp

\* So it is with the highs and the lows of a window, and with its closes.
HighestClose(w) == FoldLeft(LAMBDA a, b : Higher(a, b.close), w[1].close, w)
LowestClose(w)  == FoldLeft(LAMBDA a, b : Lower(a, b.close), w[1].close, w)
\* The highest price of a window is where the lowest one of its image is.
LEMMA FacingWindows ==
    ASSUME NEW w, NEW z, AllFacing(w, z), Len(w) # 0
    PROVE  /\ AddUp(HighestHigh(w), LowestLow(z), Axis) /\ AddUp(LowestLow(w), HighestHigh(z), Axis)
           /\ AddUp(HighestClose(w), LowestClose(z), Axis) /\ AddUp(LowestClose(w), HighestClose(z), Axis)
<1>1. /\ Sequence(w) /\ Sequence(z) /\ Len(z) = Len(w) /\ Len(z) # 0
      /\ \A i \in 1..Len(w) : /\ AddUp(w[i].high, z[i].low, Axis) /\ AddUp(z[i].high, w[i].low, Axis)
                              /\ AddUp(w[i].close, z[i].close, Axis) /\ AddUp(z[i].close, w[i].close, Axis)
  BY AddUpBack DEF AllFacing, Facing
<1>2. /\ \A i \in 1..Len(w) : w[i].high \in Int /\ w[i].low \in Int /\ w[i].close \in Int
      /\ \A i \in 1..Len(z) : z[i].high \in Int /\ z[i].low \in Int /\ z[i].close \in Int
  BY <1>1 DEF AddUp
<1>3. IsTop(w, "high", HighestHigh(w)) /\ IsBottom(w, "low", LowestLow(w))
  BY <1>1, <1>2, ChannelFound
<1>4. IsTop(z, "high", HighestHigh(z)) /\ IsBottom(z, "low", LowestLow(z))
  BY <1>1, <1>2, ChannelFound
<1>5. HighestClose(w) = FoldOf("highest", "close", w, w[1]["close"])
      /\ HighestClose(z) = FoldOf("highest", "close", z, z[1]["close"])
  BY TopsAre DEF HighestClose
<1>6. LowestClose(w) = FoldOf("lowest", "close", w, w[1]["close"])
      /\ LowestClose(z) = FoldOf("lowest", "close", z, z[1]["close"])
  BY TopsAre DEF LowestClose
<1>7. IsTop(w, "close", HighestClose(w)) /\ IsTop(z, "close", HighestClose(z))
  BY <1>1, <1>2, <1>5, TopFound
<1>8. IsBottom(w, "close", LowestClose(w)) /\ IsBottom(z, "close", LowestClose(z))
  BY <1>1, <1>2, <1>6, BottomFound
<1>9. Axis \in Int
  BY AxisIs
<1>10. AddUp(HighestHigh(w), LowestLow(z), Axis) /\ AddUp(HighestClose(w), LowestClose(z), Axis)
  BY <1>1, <1>3, <1>4, <1>7, <1>8, <1>9, OpposedExtremes
<1>11. AddUp(HighestHigh(z), LowestLow(w), Axis) /\ AddUp(HighestClose(z), LowestClose(w), Axis)
  BY <1>1, <1>3, <1>4, <1>7, <1>8, <1>9, OpposedExtremes
<1> QED BY <1>10, <1>11, AddUpBack

\* The closes, scaled or not.
LEMMA FacingCloses ==
    ASSUME NEW c, NEW d, AllFacing(c, d)
    PROVE  Opposed(Closes(c), Closes(d), Scale * Axis) /\ Opposed(Prices(c), Prices(d), Axis)
<1>1. Sequence(c) /\ Sequence(d) /\ Len(d) = Len(c) /\ \A i \in 1..Len(c) : AddUp(c[i].close, d[i].close, Axis)
  BY DEF AllFacing, Facing
<1>2. DOMAIN c = 1..Len(c) /\ DOMAIN d = 1..Len(c)
  BY <1>1, SequenceIs
<1>3. /\ Sequence(Prices(c)) /\ Len(Prices(c)) = Len(c) /\ \A i \in 1..Len(c) : Prices(c)[i] = c[i].close
      /\ Sequence(Prices(d)) /\ Len(Prices(d)) = Len(c) /\ \A i \in 1..Len(c) : Prices(d)[i] = d[i].close
  BY <1>1, <1>2, PricesAre DEF Prices
<1>4. /\ Sequence(Closes(c)) /\ Len(Closes(c)) = Len(c) /\ \A i \in 1..Len(c) : Closes(c)[i] = Scale * c[i].close
      /\ Sequence(Closes(d)) /\ Len(Closes(d)) = Len(c) /\ \A i \in 1..Len(c) : Closes(d)[i] = Scale * d[i].close
  BY <1>1, ClosesAre
<1>5. \A i \in 1..Len(c) : AddUp(Scale * c[i].close, Scale * d[i].close, Scale * Axis)
  BY <1>1, AxisIs, AddUpTimes
<1> QED BY <1>1, <1>3, <1>4, <1>5 DEF Opposed

-----------------------------------------------------------------------------
(* Votes about windows of candles *)

\* A comparison changes sides.
LEMMA AddUpFlips ==
    ASSUME NEW k, NEW x, NEW y, AddUp(x, y, k), NEW u, NEW v, AddUp(u, v, k)
    PROVE  (x > u <=> y < v) /\ (x < u <=> y > v) /\ (x = u <=> y = v)
  BY DEF AddUp

\* The lows are below the closes and these below the highs.
Upright(w) == \A i \in 1..Len(w) : w[i].low <= w[i].close /\ w[i].close <= w[i].high
\* The closes of a part are within their bars.
LEMMA UprightParts ==
    ASSUME NEW c, Proper(c), NEW i \in Nat \ {0}, NEW j \in Nat, j <= Len(c), i <= j + 1
    PROVE  Upright(SubSeq(c, i, j))
<1>1. Len(c) \in Nat /\ Sequence(c)
  BY ProperAre
<1>2. /\ Len(SubSeq(c, i, j)) = j - i + 1
      /\ \A h \in 1..(j - i + 1) : SubSeq(c, i, j)[h] = c[i + h - 1]
  BY <1>1, Part
<1>3. \A h \in 1..(j - i + 1) : i + h - 1 \in 1..Len(c)
  BY <1>1
<1> QED BY <1>2, <1>3 DEF Upright, Proper

\* No channel has its top under its bottom.
LEMMA ChannelIsOpen ==
    ASSUME NEW w, NEW z, AllFacing(w, z), Len(w) # 0, Upright(w)
    PROVE  LowestLow(w) <= HighestHigh(w) /\ LowestClose(w) <= HighestHigh(w)
<1>1. Sequence(w) /\ \A i \in 1..Len(w) : w[i].high \in Int /\ w[i].low \in Int /\ w[i].close \in Int
  BY DEF AllFacing, Facing, AddUp
<1>2. IsTop(w, "high", HighestHigh(w)) /\ IsBottom(w, "low", LowestLow(w))
  BY <1>1, ChannelFound
<1>3. LowestClose(w) = FoldOf("lowest", "close", w, w[1]["close"])
  BY TopsAre DEF LowestClose
<1>4. IsBottom(w, "close", LowestClose(w))
  BY <1>1, <1>3, BottomFound
<1>5. 1 \in 1..Len(w)
  BY <1>1, SequenceIs
<1>6. PICK h \in Int, l \in Int, p \in Int : h = w[1].high /\ l = w[1].low /\ p = w[1].close /\ l <= p /\ p <= h
  BY <1>1, <1>5 DEF Upright
<1>7. h <= HighestHigh(w) /\ LowestLow(w) <= l /\ LowestClose(w) <= p
  BY <1>2, <1>4, <1>5, <1>6 DEF IsTop, IsBottom
<1>8. HighestHigh(w) \in Int /\ LowestLow(w) \in Int /\ LowestClose(w) \in Int
  BY <1>2, <1>4 DEF IsTop, IsBottom
<1> QED BY ONLY <1>6, <1>7, <1>8, h \in Int, l \in Int, p \in Int

\* The latest candles, and the window before them.
LEMMA LatestFace ==
    ASSUME NEW c, NEW d, Mirrored(c, d)
    PROVE  /\ Len(c) \in Nat \ {0} /\ Len(d) = Len(c) /\ Facing(Latest(c), Latest(d))
           /\ AddUp(Price(c), Price(d), Axis) /\ AddUp(Scale * Price(c), Scale * Price(d), Scale * Axis)
<1>1. Len(c) \in Nat \ {0} /\ Len(d) = Len(c)
  BY SequenceIs DEF Mirrored, AllFacing
<1>2. Facing(Latest(c), Latest(d))
  BY <1>1 DEF Mirrored, AllFacing, Latest
<1>3. AddUp(Price(c), Price(d), Axis)
  BY <1>2 DEF Facing, Price
<1> QED BY <1>1, <1>2, <1>3, AxisIs, AddUpTimes

\* The windows of a market and of its image.
LEMMA WindowsFace ==
    ASSUME NEW c, NEW d, Mirrored(c, d), NEW n \in Nat \ {0}, Len(c) > n
    PROVE  /\ AllFacing(Window(c, n), Window(d, n)) /\ Len(Window(c, n)) # 0 /\ Upright(Window(c, n))
<1>1. PICK l \in Nat : l = Len(c) /\ Len(d) = l
  BY LatestFace
<1>2. l - n \in Nat \ {0} /\ l - 1 \in Nat /\ l - 1 <= l /\ l - n <= l - 1 + 1 /\ (l - 1) - (l - n) + 1 # 0
  BY <1>1
<1>3. Window(c, n) = SubSeq(c, l - n, l - 1) /\ Window(d, n) = SubSeq(d, l - n, l - 1)
  BY <1>1 DEF Window
<1>4. AllFacing(SubSeq(c, l - n, l - 1), SubSeq(d, l - n, l - 1))
      /\ Len(SubSeq(c, l - n, l - 1)) = (l - 1) - (l - n) + 1
  BY <1>1, <1>2, FacingParts DEF Mirrored
<1>5. Upright(SubSeq(c, l - n, l - 1))
  BY <1>1, <1>2, UprightParts DEF Mirrored
<1> QED BY <1>2, <1>3, <1>4, <1>5

\* A close beyond the highest or the lowest price of a window.
LEMMA BeyondTurned ==
    ASSUME NEW k, NEW p, NEW q, AddUp(p, q, k), NEW u, NEW l, l <= u,
           NEW v, NEW m, AddUp(u, m, k), AddUp(l, v, k)
    PROVE  (p > u <=> q < m) /\ (p < l <=> q > v) /\ ~(p > u /\ p < l)
<1>1. (p > u <=> q < m) /\ (p < l <=> q > v)
  BY AddUpFlips
<1>2. ~(p > u /\ p < l)
  BY DEF AddUp
<1> QED BY <1>1, <1>2

\* The parameters that have two sides favour none.
EvenParameters ==
    /\ P.ichimoku.tenkan <= P.ichimoku.senkou /\ P.rsi_mean_revert.period >= 2
    /\ P.rsi_mean_revert.oversold \in Nat /\ P.rsi_mean_revert.overbought \in Nat
    /\ P.rsi_mean_revert.oversold + P.rsi_mean_revert.overbought = 100
    /\ P.rsi_mean_revert.oversold < P.rsi_mean_revert.overbought
    /\ P.williams_r.oversold \in Nat /\ P.williams_r.overbought \in Nat
    /\ P.williams_r.oversold + P.williams_r.overbought = 100
    /\ P.williams_r.overbought < P.williams_r.oversold
    /\ {P.breakout.lookback, P.dual_thrust.lookback, P.mean_revert_z.period} \subseteq Nat \ {0}
    /\ P.dual_thrust.k1 \in Nat /\ P.dual_thrust.k2 = P.dual_thrust.k1
    /\ {P.trend_follow.mult, P.scalp_ob.depth, P.keltner_channel.halves} \subseteq Nat

\* Breakout of the window before the latest candle.
LEMMA BreakoutTurned ==
    ASSUME EvenParameters, NEW c, NEW d, Mirrored(c, d)
    PROVE  BreakoutVote(d) = Opposite(BreakoutVote(c))
<1>1. PICK n \in Nat \ {0} : n = P.breakout.lookback
  BY DEF EvenParameters
<1>2. PICK w, z : w = Window(c, n) /\ z = Window(d, n)
  OBVIOUS
<1>3. /\ BreakoutVote(c) = Vote(Len(c) > n, Price(c) > HighestHigh(w), Price(c) < LowestLow(w))
      /\ BreakoutVote(d) = Vote(Len(d) > n, Price(d) > HighestHigh(z), Price(d) < LowestLow(z))
  BY <1>1, <1>2 DEF BreakoutVote
<1>4. Len(d) = Len(c) /\ AddUp(Price(c), Price(d), Axis)
  BY LatestFace
<1>5. CASE Len(c) > n
  <2>1. AllFacing(w, z) /\ Len(w) # 0 /\ Upright(w)
    BY <1>2, <1>5, WindowsFace
  <2>2. /\ AddUp(HighestHigh(w), LowestLow(z), Axis) /\ AddUp(LowestLow(w), HighestHigh(z), Axis)
        /\ LowestLow(w) <= HighestHigh(w)
    BY <2>1, FacingWindows, ChannelIsOpen
  <2>3. /\ Price(c) > HighestHigh(w) <=> Price(d) < LowestLow(z)
        /\ Price(c) < LowestLow(w) <=> Price(d) > HighestHigh(z)
        /\ ~(Price(c) > HighestHigh(w) /\ Price(c) < LowestLow(w))
    BY <1>4, <2>2, BeyondTurned
  <2> QED BY ONLY <1>3, <1>4, <1>5, <2>3 DEF Vote, Opposite, Flat, Long, Short
<1>6. CASE ~(Len(c) > n)
  BY ONLY <1>3, <1>4, <1>6 DEF Vote, Opposite, Flat, Long, Short
<1> QED BY <1>5, <1>6

\* The donchian channel of the bar before.
LEMMA ViewsFace ==
    ASSUME NEW c, NEW d, Mirrored(c, d), NEW k, NEW n \in Nat \ {0},
           NEW x, x = Viewed(k, c, n), NEW y, y = Viewed(k, d, n)
    PROVE  /\ Sequence(x) /\ Sequence(y) /\ Len(y) = Len(x)
           /\ \A i \in 1..Len(x) : \E w, z : /\ AllFacing(w, z) /\ Len(w) = n /\ Upright(w)
                                             /\ x[i] = View(k, n, w) /\ y[i] = View(k, n, z)
<1>1. PICK l \in Nat : l = Len(c) /\ Len(d) = l
  BY LatestFace
<1>2. Sequence(c) /\ Sequence(d) /\ AllFacing(c, d) /\ Proper(c)
  BY DEF Mirrored, AllFacing
<1>3. /\ Sequence(x) /\ Len(x) = IF l < n THEN 0 ELSE l - n + 1
      /\ Sequence(y) /\ Len(y) = IF l < n THEN 0 ELSE l - n + 1
  BY <1>1, <1>2, ViewedLong
<1>4. ASSUME NEW i \in 1..Len(x)
      PROVE  \E w, z : /\ AllFacing(w, z) /\ Len(w) = n /\ Upright(w)
                       /\ x[i] = View(k, n, w) /\ y[i] = View(k, n, z)
  <2>1. ~(l < n) /\ i \in 1..(l - n + 1)
    BY <1>3
  <2>2. i \in Nat \ {0} /\ i + n - 1 \in Nat /\ i + n - 1 <= l /\ i <= i + n - 1 + 1 /\ i + n - 1 - i + 1 = n
    BY <2>1
  <2>3. AllFacing(SubSeq(c, i, i + n - 1), SubSeq(d, i, i + n - 1)) /\ Len(SubSeq(c, i, i + n - 1)) = n
    BY <1>1, <1>2, <2>2, FacingParts
  <2>4. Upright(SubSeq(c, i, i + n - 1))
    BY <1>1, <1>2, <2>2, UprightParts
  <2>5. x[i] = View(k, n, SubSeq(c, i, i + n - 1)) /\ y[i] = View(k, n, SubSeq(d, i, i + n - 1))
    BY <1>1, <1>2, <2>1, ViewedLong
  <2> QED BY <2>3, <2>4, <2>5
<1> QED BY <1>3, <1>4

\* The Donchian channel and its image.
LEMMA DonchianTurned ==
    ASSUME NEW c, NEW d, Mirrored(c, d),
           NEW x, x = DonchianChannel(c, P.donchian.period), NEW y, y = DonchianChannel(d, P.donchian.period)
    PROVE  DonchianVote(d, y) = Opposite(DonchianVote(c, x))
<1>1. PICK n \in Nat \ {0} : n = P.donchian.period
  BY PeriodsOK
<1>2. x = Viewed("channel", c, n) /\ y = Viewed("channel", d, n)
  BY <1>1, ChannelsAre
<1>3. /\ Sequence(x) /\ Sequence(y) /\ Len(y) = Len(x)
      /\ \A i \in 1..Len(x) : \E w, z : /\ AllFacing(w, z) /\ Len(w) = n /\ Upright(w)
                                        /\ x[i] = View("channel", n, w) /\ y[i] = View("channel", n, z)
  BY <1>2, ViewsFace
<1>4. Len(x) \in Nat
  BY <1>3, SequenceIs
<1>5. /\ DonchianVote(c, x) = Vote(Len(x) >= 2, Price(c) > Before(x).upper, Price(c) < Before(x).lower)
      /\ DonchianVote(d, y) = Vote(Len(y) >= 2, Price(d) > Before(y).upper, Price(d) < Before(y).lower)
  BY DEF DonchianVote
<1>6. CASE Len(x) >= 2
  <2>1. Len(x) - 1 \in 1..Len(x)
    BY <1>4, <1>6
  <2>2. PICK w, z : /\ AllFacing(w, z) /\ Len(w) = n /\ Upright(w)
                    /\ Before(x) = View("channel", n, w) /\ Before(y) = View("channel", n, z)
    BY <1>3, <2>1 DEF Before
  <2>3. /\ Before(x).upper = HighestHigh(w) /\ Before(x).lower = LowestLow(w)
        /\ Before(y).upper = HighestHigh(z) /\ Before(y).lower = LowestLow(z)
    BY <2>2 DEF View, Channel
  <2>4. Len(w) # 0
    BY <2>2
  <2>5. /\ AddUp(HighestHigh(w), LowestLow(z), Axis) /\ AddUp(LowestLow(w), HighestHigh(z), Axis)
        /\ LowestLow(w) <= HighestHigh(w)
    BY <2>2, <2>4, FacingWindows, ChannelIsOpen
  <2>6. AddUp(Price(c), Price(d), Axis)
    BY LatestFace
  <2>7. /\ Price(c) > HighestHigh(w) <=> Price(d) < LowestLow(z)
        /\ Price(c) < LowestLow(w) <=> Price(d) > HighestHigh(z)
        /\ ~(Price(c) > HighestHigh(w) /\ Price(c) < LowestLow(w))
    BY <2>5, <2>6, BeyondTurned
  <2> QED BY ONLY <1>3, <1>5, <1>6, <2>3, <2>7 DEF Vote, Opposite, Flat, Long, Short
<1>7. CASE ~(Len(x) >= 2)
  BY ONLY <1>3, <1>5, <1>7 DEF Vote, Opposite, Flat, Long, Short
<1> QED BY <1>6, <1>7

\* A move from the open beyond a multiple of the range, which is the same both ways.
LEMMA DualThrustTurned ==
    ASSUME EvenParameters, NEW c, NEW d, Mirrored(c, d)
    PROVE  DualThrustVote(d) = Opposite(DualThrustVote(c))
<1>1. PICK n \in Nat \ {0} : n = P.dual_thrust.lookback
  BY DEF EvenParameters
<1>2. PICK k \in Nat : k = P.dual_thrust.k1 /\ k = P.dual_thrust.k2
  BY DEF EvenParameters
<1>3. PICK w, z : w = Window(c, n) /\ z = Window(d, n)
  OBVIOUS
<1> DEFINE R(v) == Higher(HighestHigh(v) - LowestClose(v), HighestClose(v) - LowestLow(v))
           M(e) == 10 * (Price(e) - Latest(e).open)
<1>4. /\ DualThrustVote(c) = Vote(Len(c) > n, M(c) > k * R(w), -M(c) > k * R(w))
      /\ DualThrustVote(d) = Vote(Len(d) > n, M(d) > k * R(z), -M(d) > k * R(z))
  BY <1>1, <1>2, <1>3, Zenon DEF DualThrustVote, LowestClose, HighestClose
<1>5. /\ Len(d) = Len(c) /\ AddUp(Price(c), Price(d), Axis)
      /\ AddUp(Latest(c).open, Latest(d).open, Axis)
  BY LatestFace DEF Facing
<1>6. CASE Len(c) > n
  <2>1. AllFacing(w, z) /\ Len(w) # 0 /\ Upright(w)
    BY <1>3, <1>6, WindowsFace
  <2>2. /\ AddUp(HighestHigh(w), LowestLow(z), Axis) /\ AddUp(LowestLow(w), HighestHigh(z), Axis)
        /\ AddUp(HighestClose(w), LowestClose(z), Axis) /\ AddUp(LowestClose(w), HighestClose(z), Axis)
        /\ LowestClose(w) <= HighestHigh(w)
    BY <2>1, FacingWindows, ChannelIsOpen
  <2>3. R(z) = R(w) /\ R(w) \in Nat
    BY ONLY <2>2 DEF AddUp, Higher
  <2>4. PICK r \in Nat : r = R(w) /\ r = R(z)
    BY <2>3
  <2>9. k * r \in Nat
    BY ONLY k \in Nat, r \in Nat
  <2>5. PICK b \in Nat : b = k * r
    BY ONLY <2>9
  <2>6. M(c) \in Int /\ M(d) \in Int /\ M(d) = -M(c)
    <3>1. PICK p \in Int, q \in Int : p = Price(c) /\ q = Price(d) /\ p + q = Axis
      BY <1>5 DEF AddUp
    <3>2. PICK o \in Int, u \in Int : o = Latest(c).open /\ u = Latest(d).open /\ o + u = Axis
      BY <1>5 DEF AddUp
    <3>3. 10 * (p - o) \in Int /\ 10 * (q - u) \in Int /\ 10 * (q - u) = -(10 * (p - o))
      BY ONLY <3>1, <3>2, p \in Int, q \in Int, o \in Int, u \in Int
    <3> QED BY <3>1, <3>2, <3>3, Zenon
  <2> HIDE DEF M, R
  <2>7. PICK x \in Int, y \in Int : x = M(c) /\ y = M(d) /\ y = -x
    BY <2>6
  <2>8. (x > b <=> -y > b) /\ (-x > b <=> y > b) /\ ~(x > b /\ -x > b)
    BY ONLY <2>7, x \in Int, y \in Int, b \in Nat
  <2> QED BY ONLY <1>4, <1>5, <1>6, <2>4, <2>5, <2>7, <2>8 DEF Vote, Opposite, Flat, Long, Short
<1>7. CASE ~(Len(c) > n)
  BY ONLY <1>4, <1>5, <1>7 DEF Vote, Opposite, Flat, Long, Short
<1> QED BY <1>6, <1>7

-----------------------------------------------------------------------------
(* Bands about the mean *)

\* Two bands of n closes of which each is the other's mirror image.
BandsFace(a, b, n, k) == b.squares = a.squares /\ AddUp(a.middle, b.middle, n * k)

\* The deviations from the mean change their signs only, and their squares not even that.
LEMMA BandTurned ==
    ASSUME NEW k \in Int, NEW w, NEW z, Opposed(w, z, k), NEW n \in Nat, n = Len(w)
    PROVE  BandsFace(Band(w, n), Band(z, n), n, k)
<1>1. PICK t \in Int, u \in Int : t = Total(w) /\ u = Total(z) /\ t + u = n * k
  BY OpposedTotals
<1>2. DOMAIN w = 1..n /\ DOMAIN z = 1..n
  BY SequenceIs DEF Opposed
<1>3. ASSUME NEW i \in 1..n
      PROVE  (n * z[i] - u) * (n * z[i] - u) = (n * w[i] - t) * (n * w[i] - t)
  <2>1. PICK x \in Int, y \in Int : x = w[i] /\ y = z[i] /\ x + y = k
    BY ONLY i \in 1..n, n = Len(w), Opposed(w, z, k) DEF Opposed, AddUp
  <2>2. n * x + n * y = n * k
    <3>1. n * x + n * y = n * (x + y)
      OBVIOUS
    <3> QED BY <2>1, <3>1
  <2>3. PICK a \in Int, b \in Int : a = n * x - t /\ b = n * y - u
    <3>1. n * x - t \in Int /\ n * y - u \in Int
      OBVIOUS
    <3> QED BY <3>1, Zenon
  <2>6. PICK f \in Int, g \in Int, h \in Int : f = n * x /\ g = n * y /\ h = n * k
    <3>1. n * x \in Int /\ n * y \in Int /\ n * k \in Int
      OBVIOUS
    <3> QED BY <3>1, Zenon
  <2>7. f + g = h /\ t + u = h /\ a = f - t /\ b = g - u
    BY <1>1, <2>2, <2>3, <2>6, Zenon
  <2>4. b = -a
    BY ONLY <2>7, f \in Int, g \in Int, h \in Int, t \in Int, u \in Int, a \in Int, b \in Int
  <2>5. b * b = a * a
    BY <2>4
  <2> QED BY <2>1, <2>3, <2>5, Zenon
<1>4. [i \in 1..n |-> (n * z[i] - u) * (n * z[i] - u)] = [i \in 1..n |-> (n * w[i] - t) * (n * w[i] - t)]
  BY <1>3, Zenon
<1>5. /\ Band(w, n).squares = Total([i \in 1..n |-> (n * w[i] - t) * (n * w[i] - t)])
      /\ Band(z, n).squares = Total([i \in 1..n |-> (n * z[i] - u) * (n * z[i] - u)])
  BY <1>1, <1>2, Zenon DEF Band
<1>6. Band(w, n).middle = t /\ Band(z, n).middle = u
  BY <1>1 DEF Band
<1> QED BY <1>1, <1>4, <1>5, <1>6 DEF AddUp, BandsFace

\* A close is as far from the mean as its mirror image, on the other side.
LEMMA FarTurned ==
    ASSUME NEW k \in Int, NEW n \in Nat, NEW p, NEW q, AddUp(p, q, k), NEW a, NEW b,
           BandsFace(a, b, n, k), NEW m
    PROVE  /\ Far(q, b, n, m) <=> Far(p, a, n, m)
           /\ n * p < a.middle <=> n * q > b.middle
           /\ n * p > a.middle <=> n * q < b.middle
           /\ ~(n * p < a.middle /\ n * p > a.middle)
<1>1. PICK t \in Int, u \in Int : t = a.middle /\ u = b.middle /\ t + u = n * k /\ b.squares = a.squares
  BY DEF AddUp, BandsFace
<1>2. PICK x \in Int, y \in Int : x = n * p /\ y = n * q /\ x + y = n * k
  BY AddUpTimes DEF AddUp
<1>3. PICK e \in Int, f \in Int : e = x - t /\ f = y - u /\ f = -e
  <2>1. x - t \in Int /\ y - u \in Int /\ n * k \in Int
    OBVIOUS
  <2> QED BY <1>1, <1>2, <2>1
<1>4. n * f * f = n * e * e
  BY <1>3
<1>5. Far(p, a, n, m) <=> n * e * e > m * m * a.squares
  BY <1>1, <1>2, <1>3, Zenon DEF Far
<1>6. Far(q, b, n, m) <=> n * f * f > m * m * a.squares
  BY <1>1, <1>2, <1>3, Zenon DEF Far
<1>7. (x < t <=> y > u) /\ (x > t <=> y < u) /\ ~(x < t /\ x > t)
  BY ONLY <1>1, <1>2, t \in Int, u \in Int, x \in Int, y \in Int
<1> QED BY <1>1, <1>2, <1>4, <1>5, <1>6, <1>7, Zenon

\* The bands of a market and of its mirror image.
LEMMA BandsTurned ==
    ASSUME NEW c, NEW d, Mirrored(c, d), NEW n \in Nat \ {0},
           NEW x, x = BollingerBands(c, n), NEW y, y = BollingerBands(d, n)
    PROVE  /\ Sequence(x) /\ Len(x) = (IF Len(c) < n THEN 0 ELSE Len(c) - n + 1) /\ Len(y) = Len(x)
           /\ \A i \in 1..Len(x) : BandsFace(x[i], y[i], n, Axis)
<1>1. PICK l \in Nat : l = Len(c) /\ Len(d) = l
  BY LatestFace
<1>2. PICK v, u : v = Prices(c) /\ u = Prices(d) /\ Opposed(v, u, Axis) /\ Len(v) = l /\ Len(u) = l
  <2>1. Sequence(c) /\ Sequence(d) /\ AllFacing(c, d)
    BY DEF Mirrored, AllFacing
  <2> QED BY <1>1, <2>1, FacingCloses, PricesAre
<1>3. x = Viewed("band", v, n) /\ y = Viewed("band", u, n)
  BY <1>2, BandsAre DEF Prices
<1>4. Sequence(v) /\ Sequence(u)
  BY <1>2 DEF Opposed
<1>5. /\ Sequence(x) /\ Len(x) = (IF l < n THEN 0 ELSE l - n + 1) /\ Len(y) = Len(x)
      /\ ~(l < n) => \A i \in 1..(l - n + 1) : /\ x[i] = View("band", n, SubSeq(v, i, i + n - 1))
                                               /\ y[i] = View("band", n, SubSeq(u, i, i + n - 1))
  BY <1>2, <1>3, <1>4, ViewedLong, SMTT(60)
<1>6. ASSUME NEW i \in 1..Len(x)
      PROVE  BandsFace(x[i], y[i], n, Axis)
  <2>1. ~(l < n) /\ i \in 1..(l - n + 1)
    BY <1>5
  <2>2. i \in Nat \ {0} /\ i + n - 1 \in Nat /\ i + n - 1 <= l /\ i <= i + n - 1 + 1 /\ i + n - 1 - i + 1 = n
    BY <2>1
  <2>3. PICK w, z : w = SubSeq(v, i, i + n - 1) /\ z = SubSeq(u, i, i + n - 1)
    OBVIOUS
  <2>4. Opposed(w, z, Axis) /\ Len(w) = n
    BY <1>2, <1>4, <2>2, <2>3, OpposedParts, Part
  <2>5. BandsFace(Band(w, n), Band(z, n), n, Axis)
    BY <2>4, AxisIs, BandTurned
  <2>6. x[i] = Band(w, n) /\ y[i] = Band(z, n)
    BY <1>5, <2>1, <2>3 DEF View
  <2> QED BY <2>5, <2>6
<1> QED BY <1>1, <1>5, <1>6

\* The Bollinger bands and their image.
LEMMA BollingerTurned ==
    ASSUME NEW c, NEW d, Mirrored(c, d), NEW x, x = BollingerBands(c, P.bollinger_bands.period),
           NEW y, y = BollingerBands(d, P.bollinger_bands.period)
    PROVE  BollingerVote(d, y) = Opposite(BollingerVote(c, x))
<1>1. PICK n \in Nat \ {0} : n = P.bollinger_bands.period
  BY PeriodsOK
<1>2. PICK m : m = P.bollinger_bands.mult
  OBVIOUS
<1>3. PICK p, q : p = Price(c) /\ q = Price(d) /\ AddUp(p, q, Axis)
  BY LatestFace
<1>4. PICK a, b : a = Latest(x) /\ b = Latest(y)
  OBVIOUS
<1>5. /\ BollingerVote(c, x) = Vote(Len(x) >= 2, n * p < a.middle /\ Far(p, a, n, m), n * p > a.middle /\ Far(p, a, n, m))
      /\ BollingerVote(d, y) = Vote(Len(y) >= 2, n * q < b.middle /\ Far(q, b, n, m), n * q > b.middle /\ Far(q, b, n, m))
  BY <1>1, <1>2, <1>3, <1>4, Zenon DEF BollingerVote
<1>6. /\ Len(y) = Len(x) /\ Len(x) \in Nat
      /\ \A i \in 1..Len(x) : BandsFace(x[i], y[i], n, Axis)
  BY <1>1, BandsTurned, SequenceIs
<1>7. CASE Len(x) >= 2
  <2>1. Len(x) \in 1..Len(x)
    BY <1>6, <1>7
  <2>2. BandsFace(a, b, n, Axis)
    BY <1>4, <1>6, <2>1 DEF Latest
  <2>3. /\ Far(q, b, n, m) <=> Far(p, a, n, m)
        /\ n * p < a.middle <=> n * q > b.middle
        /\ n * p > a.middle <=> n * q < b.middle
        /\ ~(n * p < a.middle /\ n * p > a.middle)
    BY <1>3, <2>2, AxisIs, FarTurned
  <2> QED BY ONLY <1>5, <1>6, <1>7, <2>3 DEF Vote, Opposite, Flat, Long, Short
<1>8. CASE ~(Len(x) >= 2)
  BY ONLY <1>5, <1>6, <1>8 DEF Vote, Opposite, Flat, Long, Short
<1> QED BY <1>7, <1>8

\* The z-score and its image.
LEMMA MeanRevertTurned ==
    ASSUME EvenParameters, NEW c, NEW d, Mirrored(c, d)
    PROVE  MeanRevertZVote(d) = Opposite(MeanRevertZVote(c))
<1>1. PICK n \in Nat \ {0} : n = P.mean_revert_z.period
  BY DEF EvenParameters
<1>2. PICK m : m = P.mean_revert_z.threshold
  OBVIOUS
<1>3. PICK p, q : p = Price(c) /\ q = Price(d) /\ AddUp(p, q, Axis)
  BY LatestFace
<1>9. PICK x, y : x = BollingerBands(c, n) /\ y = BollingerBands(d, n)
  OBVIOUS
<1>4. PICK a, b : a = Latest(x) /\ b = Latest(y)
  OBVIOUS
<1>5. /\ MeanRevertZVote(c) = Vote(Len(c) >= n /\ a.squares # 0,
                                   n * p < a.middle /\ Far(p, a, n, m), n * p > a.middle /\ Far(p, a, n, m))
      /\ MeanRevertZVote(d) = Vote(Len(d) >= n /\ b.squares # 0,
                                   n * q < b.middle /\ Far(q, b, n, m), n * q > b.middle /\ Far(q, b, n, m))
  BY <1>1, <1>2, <1>3, <1>4, <1>9, Zenon DEF MeanRevertZVote
<1>6. /\ Len(y) = Len(x) /\ Len(x) = (IF Len(c) < n THEN 0 ELSE Len(c) - n + 1)
      /\ \A i \in 1..Len(x) : BandsFace(x[i], y[i], n, Axis)
  BY ONLY <1>9, Mirrored(c, d), n \in Nat \ {0}, BandsTurned
<1>10. Len(c) \in Nat /\ Len(d) = Len(c)
  BY LatestFace
<1>7. CASE Len(c) >= n
  <2>1. Len(x) \in 1..Len(x)
    BY <1>6, <1>7, <1>10
  <2>2. BandsFace(a, b, n, Axis)
    BY <1>4, <1>6, <2>1 DEF Latest
  <2>3. /\ Far(q, b, n, m) <=> Far(p, a, n, m)
        /\ n * p < a.middle <=> n * q > b.middle
        /\ n * p > a.middle <=> n * q < b.middle
        /\ ~(n * p < a.middle /\ n * p > a.middle)
    BY <1>3, <2>2, AxisIs, FarTurned
  <2> QED BY ONLY <1>5, <1>10, <1>7, <2>2, <2>3 DEF BandsFace, Vote, Opposite, Flat, Long, Short
<1>8. CASE ~(Len(c) >= n)
  BY ONLY <1>5, <1>10, <1>8 DEF Vote, Opposite, Flat, Long, Short
<1> QED BY <1>7, <1>8

-----------------------------------------------------------------------------
(* Ichimoku *)

\* Half of what adds up to 2 * k.
LEMMA HalvesTurned ==
    ASSUME ExactScale, NEW j \in 1..Depth, NEW x \in Grid(j), NEW y \in Grid(j), NEW k \in Int, AddUp(x, y, 2 * k)
    PROVE  AddUp(Over(x, 2), Over(y, 2), k) /\ Over(x, 2) \in Grid(j - 1) /\ Over(y, 2) \in Grid(j - 1)
<1>1. 2 \in Divisors
  BY DEF Divisors
<1>2. Over(x, 2) \in Grid(j - 1) /\ Over(x, 2) \in Int /\ Over(x, 2) * 2 = x
  BY <1>1, ComesOut
<1>3. Over(y, 2) \in Grid(j - 1) /\ Over(y, 2) \in Int /\ Over(y, 2) * 2 = y
  BY <1>1, ComesOut
<1>4. PICK a \in Int, b \in Int : a = Over(x, 2) /\ b = Over(y, 2) /\ a * 2 = x /\ b * 2 = y
  BY <1>2, <1>3
<1>5. a + b = k
  BY ONLY <1>4, AddUp(x, y, 2 * k), a \in Int, b \in Int, k \in Int DEF AddUp
<1> QED BY <1>2, <1>3, <1>4, <1>5 DEF AddUp

\* The middle of the latest n candles.
MidOf(c, n) == Midpoint(c, Len(c) - n + 1, Len(c))
\* The middle of a window, which is exact at this scale.
LEMMA MidpointsTurned ==
    ASSUME ExactScale, NEW c, NEW d, Mirrored(c, d), NEW n \in Nat \ {0}, n <= Len(c)
    PROVE  AddUp(MidOf(c, n), MidOf(d, n), Scale * Axis) /\ MidOf(c, n) \in Grid(Depth - 1) /\ MidOf(d, n) \in Grid(Depth - 1)
<1>1. PICK l \in Nat : l = Len(c) /\ Len(d) = l
  BY LatestFace
<1>2. l - n + 1 \in Nat \ {0} /\ l - n + 1 <= l + 1 /\ l <= l /\ l - (l - n + 1) + 1 # 0
  BY <1>1
<1>3. PICK w, z : w = SubSeq(c, l - n + 1, l) /\ z = SubSeq(d, l - n + 1, l)
  OBVIOUS
<1>4. AllFacing(w, z) /\ Len(w) # 0
  BY <1>1, <1>2, <1>3, FacingParts DEF Mirrored
<1>5. PICK h \in Int, g \in Int, e \in Int, f \in Int :
           h = HighestHigh(w) /\ g = LowestLow(w) /\ e = HighestHigh(z) /\ f = LowestLow(z)
           /\ h + f = Axis /\ g + e = Axis
  BY <1>4, FacingWindows DEF AddUp
<1>6. MidOf(c, n) = Over(Scale * (h + g), 2) /\ MidOf(d, n) = Over(Scale * (e + f), 2)
  BY <1>1, <1>3, <1>5 DEF MidOf, Midpoint
<1>7. AddUp(Scale * (h + g), Scale * (e + f), 2 * (Scale * Axis))
  <2>1. PICK a \in Int : a = Axis
    BY AxisIs
  <2>2. AddUp(h + g, e + f, 2 * a)
    BY ONLY <1>5, <2>1, h \in Int, g \in Int, e \in Int, f \in Int, a \in Int DEF AddUp
  <2>3. Scale \in Int /\ 2 * a \in Int
    BY AxisIs
  <2>4. AddUp(Scale * (h + g), Scale * (e + f), Scale * (2 * a))
    BY <2>2, <2>3, AddUpTimes
  <2>5. Scale * (2 * a) = 2 * (Scale * a)
    BY <2>3
  <2> QED BY <2>1, <2>4, <2>5, Zenon
<1>8. Scale * (h + g) \in Grid(Depth) /\ Scale * (e + f) \in Grid(Depth) /\ Depth \in 1..Depth
  <2>1. h + g \in Int /\ e + f \in Int
    OBVIOUS
  <2>2. Depth \in 1..Depth
    BY SignalsConstantsOK DEF Depth
  <2> QED BY <2>1, <2>2, PricesOnGrid
<1> QED BY <1>6, <1>7, <1>8, AxisIs, HalvesTurned

\* What the vote is about, of the latest candle.
LatestOf(c, t, k, s, a) ==
    /\ s <= Len(c) /\ a.tenkan = MidOf(c, t) /\ a.kijun = MidOf(c, k)
    /\ a.senkouA = Over(MidOf(c, t) + MidOf(c, k), 2) /\ a.senkouB = MidOf(c, s)
IchimokuOf(c, t, k, s, x) ==
    /\ Len(x) = IF Len(c) <= s - 1 THEN 0 ELSE Len(c) - (k - 1)
    /\ Len(x) >= 2 => LatestOf(c, t, k, s, Latest(x))
\* The series and its latest value are these.
LEMMA IchimokuLatest ==
    ASSUME NEW c, Sequence(c), NEW t \in Nat \ {0}, NEW k \in Nat \ {0}, NEW s \in Nat \ {0}, k <= s, t <= s,
           NEW x, x = Ichimoku(c, t, k, s)
    PROVE  IchimokuOf(c, t, k, s, x)
<1>1. PICK l \in Nat : l = Len(c)
  BY SequenceIs
<1>2. /\ Len(x) = IF l <= s - 1 THEN 0 ELSE l - (k - 1)
      /\ ~(l < s) => \A j \in 1..(l - k + 1) : x[j] = IchimokuAt(c, t, k, s, j + k - 1)
  BY <1>1, IchimokuLong, ZenonT(60)
<1>3. ASSUME Len(x) >= 2 PROVE LatestOf(c, t, k, s, Latest(x))
  <2>1. ~(l <= s - 1) /\ ~(l < s) /\ s <= l /\ l >= t
    BY <1>2, <1>3
  <2>2. Len(x) = l - k + 1 /\ l - k + 1 \in 1..(l - k + 1) /\ (l - k + 1) + k - 1 = l
    BY <1>2, <2>1
  <2>3. Latest(x) = IchimokuAt(c, t, k, s, l)
    BY <1>2, <2>1, <2>2 DEF Latest
  <2> QED BY <1>1, <2>1, <2>3 DEF IchimokuAt, MidOf, LatestOf
<1> QED BY <1>1, <1>2, <1>3 DEF IchimokuOf

\* The cloud and its image.
LEMMA IchimokuTurned ==
    ASSUME ExactScale, EvenParameters, NEW c, NEW d, Mirrored(c, d),
           NEW x, x = Ichimoku(c, P.ichimoku.tenkan, P.ichimoku.kijun, P.ichimoku.senkou),
           NEW y, y = Ichimoku(d, P.ichimoku.tenkan, P.ichimoku.kijun, P.ichimoku.senkou)
    PROVE  IchimokuVote(d, y) = Opposite(IchimokuVote(c, x))
<1>1. PICK t \in Nat \ {0}, k \in Nat \ {0}, s \in Nat \ {0} :
           t = P.ichimoku.tenkan /\ k = P.ichimoku.kijun /\ s = P.ichimoku.senkou /\ k <= s /\ t <= s
  BY PeriodsOK, ZenonT(60) DEF EvenParameters
<1>2. PICK l \in Nat \ {0} : l = Len(c) /\ Len(d) = l
  BY LatestFace
<1>3. Sequence(c) /\ Sequence(d) /\ c # <<>> /\ d # <<>>
  BY <1>2, SequenceIs DEF Mirrored, AllFacing
<1>4. PICK p, q : p = Scale * Price(c) /\ q = Scale * Price(d) /\ AddUp(p, q, Scale * Axis)
  BY LatestFace
<1> DEFINE Above(v, a) == v > Higher(a.senkouA, a.senkouB) /\ a.tenkan > a.kijun
           Below(v, a) == v < Lower(a.senkouA, a.senkouB) /\ a.tenkan < a.kijun
<1>5. /\ IchimokuVote(c, x) = Vote(Len(x) >= 2, Above(p, Latest(x)), Below(p, Latest(x)))
      /\ IchimokuVote(d, y) = Vote(Len(y) >= 2, Above(q, Latest(y)), Below(q, Latest(y)))
  BY ONLY <1>3, <1>4 DEF IchimokuVote
<1>6. IchimokuOf(c, t, k, s, x)
  <2>1. x = Ichimoku(c, t, k, s)
    BY <1>1
  <2> QED BY ONLY <1>1, <1>3, <2>1, t \in Nat \ {0}, k \in Nat \ {0}, s \in Nat \ {0}, IchimokuLatest
<1>7. IchimokuOf(d, t, k, s, y)
  <2>1. y = Ichimoku(d, t, k, s)
    BY <1>1
  <2> QED BY ONLY <1>1, <1>3, <2>1, t \in Nat \ {0}, k \in Nat \ {0}, s \in Nat \ {0}, IchimokuLatest
<1>8. Len(y) = Len(x)
  BY <1>2, <1>6, <1>7 DEF IchimokuOf
<1>9. CASE Len(x) >= 2
  <2>1. k <= Len(c) /\ t <= Len(c) /\ s <= Len(c)
    <3>1. s <= l
      BY ONLY <1>2, <1>6, <1>9 DEF IchimokuOf, LatestOf
    <3> QED BY ONLY <1>1, <1>2, <3>1, l \in Nat \ {0}, t \in Nat \ {0}, k \in Nat \ {0}, s \in Nat \ {0}
  <2>2. /\ AddUp(MidOf(c, t), MidOf(d, t), Scale * Axis)
        /\ MidOf(c, t) \in Grid(Depth - 1) /\ MidOf(d, t) \in Grid(Depth - 1)
        /\ AddUp(MidOf(c, k), MidOf(d, k), Scale * Axis)
        /\ MidOf(c, k) \in Grid(Depth - 1) /\ MidOf(d, k) \in Grid(Depth - 1)
        /\ AddUp(MidOf(c, s), MidOf(d, s), Scale * Axis)
    BY <1>1, <2>1, MidpointsTurned
  <2>3. AddUp(Over(MidOf(c, t) + MidOf(c, k), 2), Over(MidOf(d, t) + MidOf(d, k), 2), Scale * Axis)
    <3>1. PICK a \in Int : a = Scale * Axis
      BY AxisIs
    <3>2. Depth - 1 \in 1..Depth /\ Depth - 1 \in 0..Depth
      BY SignalsConstantsOK DEF Depth
    <3>3. MidOf(c, t) + MidOf(c, k) \in Grid(Depth - 1) /\ MidOf(d, t) + MidOf(d, k) \in Grid(Depth - 1)
      BY <2>2, <3>2, GridIs
    <3>4. AddUp(MidOf(c, t) + MidOf(c, k), MidOf(d, t) + MidOf(d, k), 2 * a)
      BY ONLY <2>2, <3>1, a \in Int DEF AddUp
    <3> QED BY <3>1, <3>2, <3>3, <3>4, HalvesTurned
  <2>4. PICK e, f : e = Latest(x) /\ f = Latest(y)
    OBVIOUS
  <2>5. /\ AddUp(e.tenkan, f.tenkan, Scale * Axis) /\ AddUp(e.kijun, f.kijun, Scale * Axis)
        /\ AddUp(e.senkouA, f.senkouA, Scale * Axis) /\ AddUp(e.senkouB, f.senkouB, Scale * Axis)
    BY ONLY <1>6, <1>7, <1>8, <1>9, <2>2, <2>3, <2>4 DEF IchimokuOf, LatestOf
  <2>6. (Above(p, e) <=> Below(q, f)) /\ (Below(p, e) <=> Above(q, f)) /\ ~(Above(p, e) /\ Below(p, e))
    BY ONLY <1>4, <2>5 DEF AddUp, Higher, Lower
  <2> HIDE DEF Above, Below
  <2> QED BY ONLY <1>5, <1>8, <1>9, <2>4, <2>6 DEF Vote, Opposite, Flat, Long, Short
<1>10. CASE ~(Len(x) >= 2)
  <2> HIDE DEF Above, Below
  <2> QED BY ONLY <1>5, <1>8, <1>10 DEF Vote, Opposite, Flat, Long, Short
<1> QED BY <1>9, <1>10

-----------------------------------------------------------------------------
(* Thresholds of shares *)

\* Fractions compare as what they stand for.
LEMMA LessIs ==
    ASSUME NEW f, NEW g, NEW p \in Nat, NEW q \in Nat \ {0}, NEW r \in Nat, NEW s \in Nat \ {0},
           Equals(f, p, q), Equals(g, r, s)
    PROVE  Less(f, g) <=> p * s < r * q
<1>1. PICK x \in Nat, y \in Nat \ {0} : x = f.n /\ y = f.d /\ x * q = p * y
  BY DEF Equals, IsFrac
<1>2. PICK i \in Nat, j \in Nat \ {0} : i = g.n /\ j = g.d /\ i * s = r * j
  BY DEF Equals, IsFrac
<1>3. PICK a \in Int, b \in Int, c \in Int, d \in Int : a = x * j /\ b = i * y /\ c = p * s /\ d = r * q
  <2>1. x * j \in Int /\ i * y \in Int /\ p * s \in Int /\ r * q \in Int
    OBVIOUS
  <2> QED BY <2>1, Zenon
<1>4. (q * s) * a = (j * y) * c
  <2>1. (q * s) * (x * j) = (s * j) * (x * q)
    OBVIOUS
  <2>2. (s * j) * (p * y) = (j * y) * (p * s)
    OBVIOUS
  <2> QED BY <1>1, <1>3, <2>1, <2>2, Zenon
<1>5. (q * s) * b = (j * y) * d
  <2>1. (q * s) * (i * y) = (q * y) * (i * s)
    OBVIOUS
  <2>2. (q * y) * (r * j) = (j * y) * (r * q)
    OBVIOUS
  <2> QED BY <1>2, <1>3, <2>1, <2>2, Zenon
<1>6. PICK m \in Nat \ {0}, n \in Nat \ {0} : m = q * s /\ n = j * y
  <2>1. q * s \in Nat \ {0} /\ j * y \in Nat \ {0}
    OBVIOUS
  <2> QED BY <2>1, Zenon
<1>7. m * a = n * c /\ m * b = n * d
  BY <1>4, <1>5, <1>6, Zenon
<1>8. b <= a => m * b <= m * a
  BY Monotone
<1>9. d <= c => n * d <= n * c
  BY Monotone
<1>10. (m * b <= m * a => b <= a) /\ (n * d <= n * c => d <= c)
  BY Cancelled
<1>11. b <= a <=> d <= c
  BY <1>7, <1>8, <1>9, <1>10, Zenon
<1>12. Less(f, g) <=> a < b
  BY <1>1, <1>2, <1>3 DEF Less
<1> QED BY ONLY <1>3, <1>11, <1>12, a \in Int, b \in Int, c \in Int, d \in Int

\* Two shares that make up the whole.
MakeUp(f, g, p, q) == Equals(f, p, q) /\ Equals(g, q - p, q)
Complementary(f, g) == \E q \in Nat \ {0} : \E p \in 0..q : MakeUp(f, g, p, q)

\* One is above the one threshold where the other one is below the other.
LEMMA ThresholdTurned ==
    ASSUME NEW f, NEW g, Complementary(f, g), NEW a \in Nat, NEW b \in Nat, a + b = 100, b < a
    PROVE  /\ ~Less(f, Frac(a, 100)) <=> ~Less(Frac(b, 100), g)
           /\ ~Less(g, Frac(a, 100)) <=> ~Less(Frac(b, 100), f)
           /\ ~(~Less(f, Frac(a, 100)) /\ ~Less(Frac(b, 100), f))
<1>1. PICK q \in Nat \ {0} : \E p \in 0..q : MakeUp(f, g, p, q)
  BY DEF Complementary
<1>2. PICK p \in 0..q : MakeUp(f, g, p, q)
  BY <1>1
<1>3. PICK r \in Nat : r = q - p
  OBVIOUS
<1>4. p \in Nat /\ Equals(f, p, q) /\ Equals(g, r, q)
  BY <1>2, <1>3 DEF MakeUp
<1>5. PICK A, B : A = Frac(a, 100) /\ B = Frac(b, 100) /\ Equals(A, a, 100) /\ Equals(B, b, 100)
  BY FracEquals
<1>6. /\ Less(f, A) <=> p * 100 < a * q
      /\ Less(B, f) <=> b * q < p * 100
      /\ Less(g, A) <=> r * 100 < a * q
      /\ Less(B, g) <=> b * q < r * 100
  <2>1. 100 \in Nat \ {0}
    OBVIOUS
  <2> QED BY <1>4, <1>5, <2>1, LessIs
<1>7. PICK t \in Int, u \in Int : t = a * q /\ u = b * q
  <2>1. a * q \in Int /\ b * q \in Int
    OBVIOUS
  <2> QED BY <2>1, Zenon
<1>8. t + u = 100 * q /\ u < t
  <2>1. t + u = (a + b) * q
    BY <1>7
  <2>2. PICK e \in Nat \ {0} : e = a - b
    OBVIOUS
  <2>3. t - u = e * q /\ e * q > 0
    <3>1. t - u = (a - b) * q
      BY <1>7
    <3>2. e * q > 0
      OBVIOUS
    <3> QED BY <2>2, <3>1, <3>2, Zenon
  <2>4. t + u = 100 * q
    BY <2>1
  <2>5. PICK h \in Int : h = e * q /\ t - u = h /\ h > 0
    BY <2>3
  <2> QED BY ONLY <2>4, <2>5, t \in Int, u \in Int, h \in Int
<1>9. /\ ~(p * 100 < t) <=> ~(u < r * 100)
      /\ ~(r * 100 < t) <=> ~(u < p * 100)
      /\ ~(~(p * 100 < t) /\ ~(u < p * 100))
  BY ONLY <1>3, <1>4, <1>8, q \in Nat \ {0}, r \in Nat, t \in Int, u \in Int
<1> QED BY <1>5, <1>6, <1>7, <1>9, ZenonT(60)

-----------------------------------------------------------------------------
(* Williams %R *)

\* The share above the close is the image's share below it.
LEMMA AboveCloseTurned ==
    ASSUME NEW w, NEW z, AllFacing(w, z), Len(w) # 0, Upright(w)
    PROVE  Complementary(AboveClose(w), AboveClose(z))
<1>1. PICK n \in 1..Len(w) : n = Len(w) /\ n = Len(z)
  BY SequenceIs DEF AllFacing
<1>2. PICK h \in Int, l \in Int, k \in Int, e \in Int, f \in Int, g \in Int :
           /\ h = HighestHigh(w) /\ l = LowestLow(w) /\ k = w[n].close
           /\ e = HighestHigh(z) /\ f = LowestLow(z) /\ g = z[n].close
           /\ h + f = Axis /\ l + e = Axis /\ k + g = Axis
  <2>1. AddUp(w[n].close, z[n].close, Axis)
    BY <1>1 DEF AllFacing, Facing
  <2>2. AddUp(HighestHigh(w), LowestLow(z), Axis) /\ AddUp(LowestLow(w), HighestHigh(z), Axis)
    BY FacingWindows
  <2> QED BY <2>1, <2>2 DEF AddUp
<1>3. l <= k /\ k <= h
  <2>1. \A i \in 1..Len(w) : w[i].high \in Int /\ w[i].low \in Int
    BY DEF AllFacing, Facing, AddUp
  <2>2. IsTop(w, "high", h) /\ IsBottom(w, "low", l)
    BY <1>2, <2>1, ChannelFound DEF AllFacing
  <2>3. w[n].high <= h /\ l <= w[n].low /\ w[n].high \in Int /\ w[n].low \in Int
    BY <1>1, <2>1, <2>2 DEF IsTop, IsBottom
  <2>4. w[n].low <= k /\ k <= w[n].high
    BY <1>1, <1>2 DEF Upright
  <2> QED BY ONLY <2>3, <2>4, h \in Int, l \in Int, k \in Int
<1>4. e - g = k - l /\ e - f = h - l /\ (e = f <=> h = l)
  <2>1. PICK a \in Int : a = Axis
    BY AxisIs
  <2>2. h + f = a /\ l + e = a /\ k + g = a
    BY <1>2, <2>1, Zenon
  <2> QED BY ONLY <2>2, a \in Int, h \in Int, l \in Int, k \in Int, e \in Int, f \in Int, g \in Int
<1>5. /\ AboveClose(w) = IF h = l THEN Frac(1, 2) ELSE Frac(h - k, h - l)
      /\ AboveClose(z) = IF h = l THEN Frac(1, 2) ELSE Frac(k - l, h - l)
  <2>1. AboveClose(w) = IF h = l THEN Frac(1, 2) ELSE Frac(h - k, h - l)
    BY <1>1, <1>2 DEF AboveClose, Latest
  <2>2. AboveClose(z) = IF e = f THEN Frac(1, 2) ELSE Frac(e - g, e - f)
    BY <1>1, <1>2 DEF AboveClose, Latest
  <2> QED BY <1>4, <2>1, <2>2, Zenon
<1>6. CASE h = l
  <2>1. Equals(Frac(1, 2), 1, 2) /\ 2 - 1 = 1 /\ 2 \in Nat \ {0} /\ 1 \in 0..2
    BY FracEquals
  <2> QED BY <1>5, <1>6, <2>1 DEF Complementary, MakeUp
<1>7. CASE h # l
  <2>1. PICK q \in Nat \ {0}, p \in Nat : q = h - l /\ p = h - k /\ p <= q /\ q - p = k - l /\ q - p \in Nat
    <3>1. h - l \in Nat \ {0} /\ h - k \in Nat /\ h - k <= h - l /\ (h - l) - (h - k) = k - l /\ k - l \in Nat
      BY ONLY <1>3, <1>7, h \in Int, l \in Int, k \in Int
    <3> QED BY <3>1
  <2>2. AboveClose(w) = Frac(p, q) /\ AboveClose(z) = Frac(q - p, q)
    BY <1>5, <1>7, <2>1, Zenon
  <2>3. Equals(Frac(p, q), p, q) /\ Equals(Frac(q - p, q), q - p, q)
    BY <2>1, FracEquals
  <2>4. p \in 0..q
    BY ONLY <2>1, p \in Nat, q \in Nat \ {0}
  <2> QED BY <2>2, <2>3, <2>4 DEF Complementary, MakeUp
<1> QED BY <1>6, <1>7

\* The two thresholds are each other's image.
LEMMA WilliamsTurned ==
    ASSUME EvenParameters, NEW c, NEW d, Mirrored(c, d),
           NEW x, x = WilliamsR(c, P.williams_r.period), NEW y, y = WilliamsR(d, P.williams_r.period)
    PROVE  WilliamsVote(y) = Opposite(WilliamsVote(x))
<1>1. PICK n \in Nat \ {0} : n = P.williams_r.period
  BY PeriodsOK
<1>2. x = Viewed("range", c, n) /\ y = Viewed("range", d, n)
  BY <1>1, ChannelsAre
<1>3. /\ Sequence(x) /\ Sequence(y) /\ Len(y) = Len(x)
      /\ \A i \in 1..Len(x) : \E w, z : /\ AllFacing(w, z) /\ Len(w) = n /\ Upright(w)
                                        /\ x[i] = View("range", n, w) /\ y[i] = View("range", n, z)
  BY <1>2, ViewsFace
<1>4. Len(x) \in Nat /\ (x = <<>> <=> Len(x) = 0) /\ (y = <<>> <=> Len(x) = 0)
  BY <1>3, SequenceIs
<1>5. PICK a \in Nat, b \in Nat : a = P.williams_r.oversold /\ b = P.williams_r.overbought /\ a + b = 100 /\ b < a
  BY DEF EvenParameters
<1>6. PICK f, g : f = Latest(x) /\ g = Latest(y)
  OBVIOUS
<1>7. /\ WilliamsVote(x) = Vote(x # <<>>, ~Less(f, Frac(a, 100)), ~Less(Frac(b, 100), f))
      /\ WilliamsVote(y) = Vote(y # <<>>, ~Less(g, Frac(a, 100)), ~Less(Frac(b, 100), g))
  BY ONLY <1>5, <1>6 DEF WilliamsVote
<1>8. CASE Len(x) # 0
  <2>1. Len(x) \in 1..Len(x)
    BY <1>4, <1>8
  <2>2. PICK w, z : AllFacing(w, z) /\ Len(w) = n /\ Upright(w) /\ f = View("range", n, w) /\ g = View("range", n, z)
    BY <1>3, <1>6, <2>1 DEF Latest
  <2>3. f = AboveClose(w) /\ g = AboveClose(z) /\ Len(w) # 0
    BY <2>2 DEF View
  <2>4. Complementary(f, g)
    BY <2>2, <2>3, AboveCloseTurned
  <2>5. /\ ~Less(f, Frac(a, 100)) <=> ~Less(Frac(b, 100), g)
        /\ ~Less(g, Frac(a, 100)) <=> ~Less(Frac(b, 100), f)
        /\ ~(~Less(f, Frac(a, 100)) /\ ~Less(Frac(b, 100), f))
    BY <1>5, <2>4, ThresholdTurned
  <2> QED BY ONLY <1>4, <1>7, <1>8, <2>5 DEF Vote, Opposite, Flat, Long, Short
<1>9. CASE Len(x) = 0
  BY ONLY <1>4, <1>7, <1>9 DEF Vote, Opposite, Flat, Long, Short
<1> QED BY <1>8, <1>9

-----------------------------------------------------------------------------
(* The book with its sides swapped *)

\* The sides of a book are lists of levels with quantities.
IsSide(v) == Sequence(v) /\ \A i \in 1..Len(v) : v[i][2] \in Nat
IsBook(b) == IsSide(b.bids) /\ IsSide(b.asks)

\* The volume of a side is a number.
LEMMA VolumeIs ==
    ASSUME NEW v, IsSide(v), NEW n \in Nat
    PROVE  Volume(v, n) \in Nat
<1>1. PICK m \in Nat : m = Lower(n, Len(v)) /\ m <= Len(v)
  <2>1. Len(v) \in Nat
    BY SequenceIs DEF IsSide
  <2> QED BY <2>1 DEF Lower
<1>2. PICK f : f = [i \in 1..m |-> v[i][2]]
  OBVIOUS
<1>3. Sequence(f) /\ Len(f) = m
  BY <1>2, Listed
<1>4. \A i \in 1..m : f[i] \in Nat
  <2>1. \A i \in 1..m : i \in 1..Len(v)
    <3>1. Len(v) \in Nat
      BY SequenceIs DEF IsSide
    <3> QED BY <1>1, <3>1
  <2> QED BY <1>2, <2>1 DEF IsSide
<1>5. 0 \in Nat /\ \A x \in Nat, y \in Nat : x + y \in Nat
  OBVIOUS
<1>6. Total(f) \in Nat
  BY <1>3, <1>4, <1>5, TotalIn
<1> QED BY <1>1, <1>2, <1>6 DEF Volume

\* The sides of a book, swapped.
LEMMA ScalpTurned ==
    ASSUME EvenParameters, NEW b, IsBook(b), NEW e, e.bids = b.asks, e.asks = b.bids
    PROVE  ScalpVote(e) = Opposite(ScalpVote(b))
<1>1. PICK x \in Nat, y \in Nat : /\ x = Volume(b.bids, P.scalp_ob.depth) /\ y = Volume(b.asks, P.scalp_ob.depth)
  <2>1. P.scalp_ob.depth \in Nat
    BY DEF EvenParameters
  <2> QED BY <2>1, VolumeIs DEF IsBook
<1>2. /\ ScalpVote(b) = Vote(x + y # 0, 10 * (x - y) > 4 * (x + y), 10 * (y - x) > 4 * (x + y))
      /\ ScalpVote(e) = Vote(y + x # 0, 10 * (y - x) > 4 * (y + x), 10 * (x - y) > 4 * (y + x))
  BY ONLY <1>1, e.bids = b.asks, e.asks = b.bids DEF ScalpVote
<1>3. y + x = x + y /\ ~(10 * (x - y) > 4 * (x + y) /\ 10 * (y - x) > 4 * (x + y))
  BY ONLY x \in Nat, y \in Nat
<1> QED BY ONLY <1>2, <1>3 DEF Vote, Opposite, Flat, Long, Short

-----------------------------------------------------------------------------
(* RSI *)

\* The gains of one market are the losses of the other.
LEMMA GainsTurned ==
    ASSUME NEW c, NEW d, Mirrored(c, d)
    PROVE  Gains(d) = Losses(c) /\ Losses(d) = Gains(c)
<1>1. PICK l \in Nat : l = Len(c) /\ Len(d) = l
  BY LatestFace
<1>2. ASSUME NEW i \in 1..(l - 1)
      PROVE  /\ d[i + 1].close - d[i].close = c[i].close - c[i + 1].close
             /\ d[i].close - d[i + 1].close = c[i + 1].close - c[i].close
  <2>1. i \in 1..l /\ i + 1 \in 1..l
    BY <1>1
  <2>2. AddUp(c[i].close, d[i].close, Axis) /\ AddUp(c[i + 1].close, d[i + 1].close, Axis)
    BY <1>1, <2>1 DEF Mirrored, AllFacing, Facing
  <2> QED BY ONLY <2>2 DEF AddUp
<1>3. /\ [i \in 1..(l - 1) |-> Scale * Higher(d[i + 1].close - d[i].close, 0)]
           = [i \in 1..(l - 1) |-> Scale * Higher(c[i].close - c[i + 1].close, 0)]
      /\ [i \in 1..(l - 1) |-> Scale * Higher(d[i].close - d[i + 1].close, 0)]
           = [i \in 1..(l - 1) |-> Scale * Higher(c[i + 1].close - c[i].close, 0)]
  BY <1>2, Zenon
<1> QED BY <1>1, <1>3, Zenon DEF Gains, Losses

\* Wilder's average of natural numbers is zero only if all of them are.
LEMMA NothingAveraged ==
    ASSUME NEW n \in Nat \ {0}, n >= 2, NEW v, Sequence(v), n <= Len(v), \A i \in 1..Len(v) : v[i] \in Nat,
           NEW w, WilderOf(v, n, w), \A i \in 1..Len(w) : w[i] \in Nat, w[Len(w)] = 0
    PROVE  \A i \in 1..Len(v) : v[i] = 0
<1>1. PICK m \in Nat : m = Len(v) - n /\ Len(v) = n + m /\ Len(w) = m + 1
  <2>1. PICK l \in Nat : l = Len(v) /\ n <= l
    BY SequenceIs
  <2>2. l - n \in Nat /\ l = n + (l - n) /\ Len(w) = l - n + 1
    BY <2>1 DEF WilderOf
  <2> QED BY <2>1, <2>2, Zenon
<1> DEFINE T == {j \in 0..m : w[m - j + 1] = 0}
<1>2. 0 \in T
  BY <1>1
<1>3. ASSUME NEW i \in 1..m, w[i + 1] = 0 PROVE w[i] = 0 /\ v[n + i] = 0
  <2>1. i \in 1..Len(w) /\ n + i \in 1..Len(v) /\ i \in 1..(Len(v) - n)
    BY <1>1
  <2>2. PICK a \in Nat, b \in Nat : a = w[i] /\ b = v[n + i]
    BY <2>1
  <2>3. w[i + 1] * n = (n - 1) * a + b
    BY <2>1, <2>2 DEF WilderOf
  <2>4. PICK e \in Nat \ {0} : e = n - 1
    OBVIOUS
  <2>5. e * a + b = 0
    BY <1>3, <2>3, <2>4
  <2>6. e * a >= a
    OBVIOUS
  <2>7. PICK h \in Int : h = e * a /\ h >= a /\ h + b = 0
    BY <2>5, <2>6
  <2>8. a = 0 /\ b = 0
    BY ONLY <2>7, a \in Nat, b \in Nat, h \in Int
  <2> QED BY <2>2, <2>8
<1>4. ASSUME NEW j \in 0..(m - 1), j \in T PROVE j + 1 \in T
  <2>1. m - j \in 1..m /\ m - (j + 1) + 1 = m - j /\ j + 1 \in 0..m
    OBVIOUS
  <2>2. w[m - j + 1] = 0
    BY <1>4
  <2>3. w[m - j] = 0
    BY <1>3, <2>1, <2>2
  <2> QED BY <2>1, <2>3
<1>5. \A j \in 0..m : j \in T
  <2> HIDE DEF T
  <2> QED BY <1>2, <1>4, InductionUpTo
<1>6. ASSUME NEW i \in 1..(m + 1) PROVE w[i] = 0
  <2>1. m + 1 - i \in 0..m /\ m - (m + 1 - i) + 1 = i
    OBVIOUS
  <2>2. m + 1 - i \in T
    BY <1>5, <2>1
  <2> QED BY <2>1, <2>2
<1>7. ASSUME NEW i \in 1..m PROVE v[n + i] = 0
  <2>1. i + 1 \in 1..(m + 1)
    OBVIOUS
  <2>2. w[i + 1] = 0
    BY <1>6, <2>1
  <2> QED BY <1>3, <2>2
<1>8. \A i \in 1..n : v[i] = 0
  <2>1. PICK u : u = SubSeq(v, 1, n) /\ Sequence(u) /\ Len(u) = n /\ \A i \in 1..n : u[i] = v[i]
    <3>1. 1 \in Nat \ {0} /\ n \in Nat /\ n <= Len(v) /\ 1 <= n + 1 /\ n - 1 + 1 = n /\ \A i \in 1..n : 1 + i - 1 = i
      OBVIOUS
    <3>2. PICK u : u = SubSeq(v, 1, n)
      OBVIOUS
    <3>3. Sequence(u) /\ Len(u) = n - 1 + 1 /\ \A k \in 1..(n - 1 + 1) : u[k] = v[1 + k - 1]
      BY <3>1, <3>2, Part
    <3>4. ASSUME NEW k \in 1..n PROVE u[k] = v[k]
      BY <3>1, <3>3
    <3>5. u = SubSeq(v, 1, n) /\ Sequence(u) /\ Len(u) = n
      BY <3>1, <3>2, <3>3
    <3> QED BY ONLY <3>5, <3>4
  <2>2. \A i \in 1..n : i \in 1..Len(v)
    BY <1>1
  <2>3. u \in Seq(Nat)
    <3>1. \A i \in 1..n : u[i] \in Nat
      BY <2>1, <2>2
    <3> QED BY <2>1, <3>1 DEF Sequence
  <2>4. Total(u) = 0
    <3>1. w[1] = 0
      BY <1>6
    <3> QED BY <2>1, <3>1 DEF WilderOf
  <2> QED BY <2>1, <2>3, <2>4, NothingInTotal
<1>9. ASSUME NEW i \in 1..Len(v) PROVE v[i] = 0
  <2>1. CASE i <= n
    <3>1. i \in 1..n
      BY <2>1
    <3> QED BY <1>8, <3>1
  <2>2. CASE ~(i <= n)
    <3>1. i - n \in 1..m /\ n + (i - n) = i
      BY <1>1, <2>2
    <3> QED BY <1>7, <3>1
  <2> QED BY <2>1, <2>2
<1> QED BY <1>9

\* Without a gain or a loss all closes are equal.
Still(c) == \A i \in 1..Len(c) : c[i].close = c[1].close
\* Without gains and losses no close has moved.
LEMMA StandsStill ==
    ASSUME NEW c, Proper(c), NEW l \in Nat \ {0}, l = Len(c),
           \A i \in 1..(l - 1) : Gains(c)[i] = 0 /\ Losses(c)[i] = 0
    PROVE  Still(c)
<1>1. ASSUME NEW i \in 1..(l - 1) PROVE c[i + 1].close = c[i].close
  <2>1. i \in 1..l /\ i + 1 \in 1..l
    OBVIOUS
  <2>2. PICK a \in Nat, b \in Nat : a = c[i].close /\ b = c[i + 1].close
    BY <2>1, ProperAre
  <2>3. Scale * Higher(b - a, 0) = 0 /\ Scale * Higher(a - b, 0) = 0
    BY <2>2 DEF Gains, Losses
  <2>4. \A k \in Int : Scale * k = 0 => k = 0
    BY ScaleAssumption
  <2>7. Higher(b - a, 0) \in Int /\ Higher(a - b, 0) \in Int
    BY DEF Higher
  <2>5. Higher(b - a, 0) = 0 /\ Higher(a - b, 0) = 0
    BY <2>3, <2>4, <2>7
  <2>6. a = b
    BY ONLY <2>5, a \in Nat, b \in Nat DEF Higher
  <2> QED BY <2>2, <2>6
<1> DEFINE T == {i \in 0..(l - 1) : c[i + 1].close = c[1].close}
<1>2. 0 \in T
  OBVIOUS
<1>3. ASSUME NEW i \in 0..(l - 1 - 1), i \in T PROVE i + 1 \in T
  <2>1. i + 1 \in 1..(l - 1) /\ i + 1 \in 0..(l - 1)
    OBVIOUS
  <2> QED BY <1>1, <1>3, <2>1
<1>4. \A i \in 0..(l - 1) : i \in T
  <2>1. l - 1 \in Nat
    OBVIOUS
  <2> HIDE DEF T
  <2> QED BY <1>2, <1>3, <2>1, InductionUpTo
<1>5. ASSUME NEW i \in 1..l PROVE c[i].close = c[1].close
  <2>1. i - 1 \in 0..(l - 1) /\ i - 1 + 1 = i
    OBVIOUS
  <2>2. i - 1 \in T
    BY <1>4, <2>1
  <2> QED BY <2>1, <2>2
<1> QED BY <1>5 DEF Still

\* The share of the gains is the image's share of the losses.
LEMMA SharesTurned ==
    ASSUME NEW g \in Nat, NEW l \in Nat, g + l # 0
    PROVE  Complementary(Share(g, l), Share(l, g))
<1>1. PICK q \in Nat \ {0} : q = g + l /\ g \in 0..q /\ q - g = l /\ l + g = q
  OBVIOUS
<1>2. ASSUME NEW k \in Nat \ {0} PROVE Equals(One, k, k)
  BY ZeroAndOne DEF Equals
<1>3. Equals(Share(g, l), g, q)
  <2>1. CASE l = 0
    BY <1>1, <1>2, <2>1 DEF Share
  <2>2. CASE l # 0
    BY <1>1, <2>2, FracEquals DEF Share
  <2> QED BY <2>1, <2>2
<1>4. Equals(Share(l, g), l, q)
  <2>1. CASE g = 0
    BY <1>1, <1>2, <2>1 DEF Share
  <2>2. CASE g # 0
    BY <1>1, <2>2, FracEquals DEF Share
  <2> QED BY <2>1, <2>2
<1> QED BY <1>1, <1>3, <1>4 DEF Complementary, MakeUp

\* Gains and losses change places; the two thresholds add up to 100.
LEMMA RSITurned ==
    ASSUME ExactScale, EvenParameters, NEW c, NEW d, Mirrored(c, d),
           NEW x, x = RSI(c, P.rsi_mean_revert.period), NEW y, y = RSI(d, P.rsi_mean_revert.period)
    PROVE  RSIVote(y) = Opposite(RSIVote(x)) \/ Still(c)
<1>1. PICK n \in Nat \ {0} : n = P.rsi_mean_revert.period /\ n \in Periods /\ n >= 2
  BY PeriodsOK, PeriodsAre DEF EvenParameters
<1>2. PICK l \in Nat \ {0} : l = Len(c) /\ Len(d) = l
  BY LatestFace
<1>3. Proper(c) /\ Proper(d) /\ Sequence(c) /\ Sequence(d)
  BY DEF Mirrored, AllFacing
<1>4. /\ Sequence(x) /\ Len(x) = (IF l <= n THEN 0 ELSE l - n)
      /\ Sequence(y) /\ Len(y) = (IF l <= n THEN 0 ELSE l - n)
  BY <1>1, <1>2, <1>3, RSILong
<1>5. (x = <<>> <=> Len(x) = 0) /\ (y = <<>> <=> Len(x) = 0)
  BY <1>4, SequenceIs
<1>6. PICK a \in Nat, b \in Nat : a = P.rsi_mean_revert.overbought /\ b = P.rsi_mean_revert.oversold /\ a + b = 100 /\ b < a
  BY DEF EvenParameters
<1>7. PICK f, g : f = Latest(x) /\ g = Latest(y)
  OBVIOUS
<1>8. /\ RSIVote(x) = Vote(x # <<>>, ~Less(Frac(b, 100), f), ~Less(f, Frac(a, 100)))
      /\ RSIVote(y) = Vote(y # <<>>, ~Less(Frac(b, 100), g), ~Less(g, Frac(a, 100)))
  BY ONLY <1>6, <1>7 DEF RSIVote
<1>9. CASE l > n
  <2>1. PICK m \in Nat \ {0} : m = l - n /\ Len(x) = m /\ Len(y) = m
    <3>1. l - n \in Nat \ {0} /\ ~(l <= n)
      BY <1>9
    <3> QED BY <1>4, <3>1
  <2>2. PICK u, v : u = Wilder(Gains(c), n) /\ v = Wilder(Losses(c), n)
    OBVIOUS
  <2>3. f = Share(u[m], v[m]) /\ g = Share(v[m], u[m])
    <3>1. m \in 1..m
      OBVIOUS
    <3>2. x[m] = Share(u[m], v[m])
      BY <1>1, <1>3, <2>1, <2>2, <3>1, RSIShares
    <3>3. y[m] = Share(Wilder(Gains(d), n)[m], Wilder(Losses(d), n)[m])
      BY <1>1, <1>3, <2>1, <3>1, RSIShares, SMTT(60)
    <3> QED BY <1>7, <2>1, <2>2, <3>2, <3>3, GainsTurned DEF Latest
  <2>4. /\ OnNaturals(Gains(c), Depth) /\ Len(Gains(c)) = l - 1 /\ OnNaturals(Losses(c), Depth) /\ Len(Losses(c)) = l - 1
        /\ l - 1 <= Depth /\ n <= l - 1 /\ Depth \in 0..Depth /\ (l - 1) - n + 1 = m
    <3>1. 1 <= Len(c)
      BY <1>2
    <3>2. Depth \in 0..Depth
      BY RungsAre
    <3>3. OnNaturals(Gains(c), Depth) /\ Len(Gains(c)) = l - 1 /\ OnNaturals(Losses(c), Depth) /\ Len(Losses(c)) = l - 1
      BY <1>2, <1>3, <3>1, MovesOnGrid
    <3>5. l - 1 <= Depth
      BY <1>2, <1>3, <3>1, MovesOnGrid
    <3>6. n <= l - 1 /\ (l - 1) - n + 1 = m
      BY ONLY <1>9, <2>1, l \in Nat \ {0}, n \in Nat \ {0}
    <3> QED BY <3>2, <3>3, <3>5, <3>6
  <2>5. WilderOf(Gains(c), n, u) /\ \A i \in 1..m : u[i] \in Nat
    BY <1>1, <2>2, <2>4, WilderOnGrid
  <2>6. WilderOf(Losses(c), n, v) /\ \A i \in 1..m : v[i] \in Nat
    BY <1>1, <2>2, <2>4, WilderOnGrid
  <2>7. PICK r \in Nat, s \in Nat : r = u[m] /\ s = v[m]
    <3>1. m \in 1..m
      OBVIOUS
    <3> QED BY <2>5, <2>6, <3>1
  <2>8. CASE r + s # 0
    <3>1. Complementary(f, g)
      BY <2>3, <2>7, <2>8, SharesTurned
    <3>2. /\ ~Less(f, Frac(a, 100)) <=> ~Less(Frac(b, 100), g)
          /\ ~Less(g, Frac(a, 100)) <=> ~Less(Frac(b, 100), f)
          /\ ~(~Less(f, Frac(a, 100)) /\ ~Less(Frac(b, 100), f))
      BY <1>6, <3>1, ThresholdTurned
    <3>3. RSIVote(y) = Opposite(RSIVote(x))
      BY ONLY <1>5, <1>8, <3>2 DEF Vote, Opposite, Flat, Long, Short
    <3> QED BY <3>3
  <2>9. CASE r + s = 0
    <3>1. r = 0 /\ s = 0
      BY <2>9
    <3>2. Len(u) = m /\ Len(v) = m
      BY <2>4, <2>5, <2>6 DEF WilderOf
    <3>3. \A i \in 1..(l - 1) : Gains(c)[i] \in Nat /\ Losses(c)[i] \in Nat
      BY <2>4 DEF OnNaturals
    <3>4. Sequence(Gains(c)) /\ Sequence(Losses(c))
      BY <2>4 DEF OnNaturals, OnGrid
    <3>5. \A i \in 1..(l - 1) : Gains(c)[i] = 0
      BY ONLY <1>1, <2>4, <2>5, <2>7, <3>1, <3>2, <3>3, <3>4, n \in Nat \ {0}, NothingAveraged
    <3>6. \A i \in 1..(l - 1) : Losses(c)[i] = 0
      BY ONLY <1>1, <2>4, <2>6, <2>7, <3>1, <3>2, <3>3, <3>4, n \in Nat \ {0}, NothingAveraged
    <3> QED BY <1>2, <1>3, <3>5, <3>6, StandsStill
  <2> QED BY <2>8, <2>9
<1>10. CASE ~(l > n)
  <2>1. Len(x) = 0
    BY <1>4, <1>10
  <2> QED BY ONLY <1>5, <1>8, <2>1 DEF Vote, Opposite, Flat, Long, Short
<1> QED BY <1>9, <1>10

-----------------------------------------------------------------------------
(* Averages of the closes, and lines that are differences of them *)

\* The scaled axis, about which the averages are mirrored.
Level == Scale * Axis

\* Nothing is the mirror image of nothing.
LEMMA NothingOpposed ==
    ASSUME NEW k
    PROVE  Opposed(<<>>, <<>>, k)
<1>1. Sequence(<<>>)
  BY DEF Sequence
<1>2. Len(<<>>) = 0
  OBVIOUS
<1> QED BY <1>1, <1>2 DEF Opposed

\* The averages of the closes, value by value.
LEMMA AveragesTurned ==
    ASSUME ExactScale, NEW c, NEW d, Mirrored(c, d), NEW n \in Periods, n \in Nat \ {0},
           NEW e, e = EMA(Closes(c), n), NEW f, f = EMA(Closes(d), n)
    PROVE  Opposed(e, f, Level) /\ Len(e) = IF Len(c) < n THEN 0 ELSE Len(c) - n + 1
<1>1. PICK l \in Nat : l = Len(c) /\ Len(d) = l
  BY LatestFace
<1>2. Proper(c) /\ Proper(d) /\ Sequence(c) /\ Sequence(d) /\ AllFacing(c, d)
  BY DEF Mirrored, AllFacing
<1>3. Len(Closes(c)) = l /\ Len(Closes(d)) = l /\ Sequence(Closes(c))
  BY <1>1, <1>2, ClosesAre
<1>4. Len(e) = IF l < n THEN 0 ELSE l - n + 1
  BY <1>3, EMALong
<1>5. CASE l < n
  <2>1. e = <<>> /\ f = <<>>
    BY <1>3, <1>5 DEF EMA
  <2> QED BY <1>1, <1>4, <2>1, NothingOpposed
<1>6. CASE ~(l < n)
  <2>1. n <= Len(c) /\ n <= Len(d)
    BY <1>1, <1>6
  <2>2. /\ Opposed(Closes(c), Closes(d), Level) /\ Level \in Int
    BY <1>2, FacingCloses, AxisIs DEF Level
  <2>3. EMAOf(Closes(c), n, e) /\ \A i \in 1..Len(e) : e[i] \in Int
    BY ONLY ExactScale, <1>2, <2>1, n \in Periods, e = EMA(Closes(c), n), ClosesAverage
  <2>4. EMAOf(Closes(d), n, f) /\ \A i \in 1..Len(f) : f[i] \in Int
    BY ONLY ExactScale, <1>2, <2>1, n \in Periods, f = EMA(Closes(d), n), ClosesAverage
  <2>5. n <= Len(Closes(c))
    BY <1>1, <1>3, <2>1
  <2>6. Opposed(e, f, Level)
    BY ONLY n \in Nat \ {0}, <2>2, <2>3, <2>4, <2>5, OpposedAverages
  <2> QED BY <1>1, <1>4, <2>6
<1> QED BY <1>5, <1>6

\* The latest values, and those before.
LEMMA LatestOpposed ==
    ASSUME NEW v, NEW w, NEW k, Opposed(v, w, k)
    PROVE  /\ Len(v) \in Nat /\ Len(w) = Len(v)
           /\ Len(v) # 0 => AddUp(Latest(v), Latest(w), k)
           /\ Len(v) >= 2 => AddUp(Before(v), Before(w), k)
<1>1. PICK n \in Nat : n = Len(v) /\ Len(w) = n
  BY SequenceIs DEF Opposed
<1>2. (n # 0 => n \in 1..n) /\ (n >= 2 => n - 1 \in 1..n)
  OBVIOUS
<1> QED BY <1>1, <1>2 DEF Opposed, Latest, Before

\* The cross of two averages.
LEMMA EMACrossTurned ==
    ASSUME ExactScale, NEW c, NEW d, Mirrored(c, d),
           NEW f, f = EMA(Closes(c), P.ema_cross.fast), NEW g, g = EMA(Closes(d), P.ema_cross.fast),
           NEW s, s = EMA(Closes(c), P.ema_cross.slow), NEW t, t = EMA(Closes(d), P.ema_cross.slow)
    PROVE  EMACrossVote(g, t) = Opposite(EMACrossVote(f, s))
<1>1. /\ P.ema_cross.fast \in Periods /\ P.ema_cross.fast \in Nat \ {0}
      /\ P.ema_cross.slow \in Periods /\ P.ema_cross.slow \in Nat \ {0}
  BY PeriodsOK DEF Periods
<1>2. Opposed(f, g, Level) /\ Opposed(s, t, Level)
  BY <1>1, AveragesTurned
<1>3. Len(g) = Len(f) /\ Len(t) = Len(s) /\ Len(f) \in Nat /\ Len(s) \in Nat
  BY <1>2, LatestOpposed
<1>4. CASE Len(f) >= 2 /\ Len(s) >= 2
  <2>1. /\ AddUp(Latest(f), Latest(g), Level) /\ AddUp(Before(f), Before(g), Level)
        /\ AddUp(Latest(s), Latest(t), Level) /\ AddUp(Before(s), Before(t), Level)
    <3>1. Len(f) # 0 /\ Len(s) # 0
      BY <1>4
    <3> QED BY <1>2, <1>4, <3>1, LatestOpposed
  <2>2. (Latest(f) > Latest(s) <=> Latest(g) < Latest(t)) /\ (Latest(f) < Latest(s) <=> Latest(g) > Latest(t))
    BY <2>1, AddUpFlips
  <2>3. (Before(f) <= Before(s) <=> Before(g) >= Before(t)) /\ (Before(f) >= Before(s) <=> Before(g) <= Before(t))
    BY <2>1 DEF AddUp
  <2>4. ~(Latest(f) > Latest(s) /\ Latest(f) < Latest(s))
    BY <2>1 DEF AddUp
  <2> QED BY ONLY <1>3, <1>4, <2>2, <2>3, <2>4 DEF EMACrossVote, Vote, Opposite, Flat, Long, Short
<1>5. CASE ~(Len(f) >= 2 /\ Len(s) >= 2)
  BY ONLY <1>3, <1>5 DEF EMACrossVote, Vote, Opposite, Flat, Long, Short
<1> QED BY <1>4, <1>5

\* A line minus another one.
LEMMA DifferenceTurned ==
    ASSUME NEW k \in Int, NEW a, NEW e, Opposed(a, e, k), NEW b, NEW f, Opposed(b, f, k),
           Len(b) <= Len(a), NEW w \in Int
    PROVE  Opposed(Difference(a, b, w), Difference(e, f, w), w * k - k)
<1>1. PICK m \in Nat, n \in Nat : m = Len(a) /\ Len(e) = m /\ n = Len(b) /\ Len(f) = n /\ n <= m
  BY LatestOpposed
<1>2. Sequence(b) /\ Sequence(f) /\ DOMAIN b = 1..n /\ DOMAIN f = 1..n
  BY <1>1, SequenceIs DEF Opposed
<1>3. /\ Sequence(Difference(a, b, w)) /\ Len(Difference(a, b, w)) = n
      /\ Sequence(Difference(e, f, w)) /\ Len(Difference(e, f, w)) = n
  BY <1>1, <1>2, DifferenceLong
<1>4. ASSUME NEW i \in 1..n PROVE AddUp(Difference(a, b, w)[i], Difference(e, f, w)[i], w * k - k)
  <2>1. i + m - n \in 1..m
    BY <1>1
  <2>2. PICK p, q : p = a[i + m - n] /\ q = e[i + m - n] /\ AddUp(p, q, k)
    BY <1>1, <2>1 DEF Opposed
  <2>3. PICK x, y : x = b[i] /\ y = f[i] /\ AddUp(x, y, k)
    BY <1>1 DEF Opposed
  <2>4. AddUp(w * p, w * q, w * k)
    BY <2>2, AddUpTimes
  <2>5. Difference(a, b, w)[i] = w * p - x /\ Difference(e, f, w)[i] = w * q - y
    BY <1>1, <1>2, <2>2, <2>3 DEF Difference
  <2>6. PICK g, h, z : g = w * p /\ h = w * q /\ z = w * k /\ AddUp(g, h, z)
    BY <2>4
  <2>7. AddUp(g - x, h - y, z - k)
    BY ONLY <2>3, <2>6, k \in Int DEF AddUp
  <2> QED BY <2>5, <2>6, <2>7
<1> QED BY <1>3, <1>4 DEF Opposed

\* The differences of two averages, value by value.
LEMMA LinesTurned ==
    ASSUME ExactScale, NEW c, NEW d, Mirrored(c, d), NEW m \in Periods, NEW n \in Periods,
           m \in Nat \ {0}, n \in Nat \ {0}, m <= n, ~(Len(c) < n), NEW w \in Int
    PROVE  /\ Opposed(Line(c, m, n, w), Line(d, m, n, w), w * Level - Level)
           /\ Len(Line(c, m, n, w)) = Len(c) - n + 1
<1>1. PICK a, b, e, f : /\ a = EMA(Closes(c), m) /\ b = EMA(Closes(c), n)
                        /\ e = EMA(Closes(d), m) /\ f = EMA(Closes(d), n)
  OBVIOUS
<1>2. /\ Opposed(a, e, Level) /\ Len(a) = IF Len(c) < m THEN 0 ELSE Len(c) - m + 1
  BY <1>1, AveragesTurned
<1>3. /\ Opposed(b, f, Level) /\ Len(b) = IF Len(c) < n THEN 0 ELSE Len(c) - n + 1
  BY <1>1, AveragesTurned
<1>4. Len(c) \in Nat
  BY LatestFace
<1>5. Len(b) <= Len(a)
  BY <1>2, <1>3, <1>4
<1>6. Level \in Int
  BY AxisIs DEF Level
<1>7. Opposed(Difference(a, b, w), Difference(e, f, w), w * Level - Level)
  BY ONLY <1>2, <1>3, <1>5, <1>6, w \in Int, DifferenceTurned
<1>8. Len(Line(c, m, n, w)) = Len(b)
  BY <1>1, <1>3, DifferenceLong DEF Line, Opposed
<1> QED BY <1>1, <1>3, <1>7, <1>8 DEF Line

\* The averages of a market are divided few enough times for those of a line to come out.
LEMMA AveragesOnGrid ==
    ASSUME ExactScale, NEW c, Proper(c), NEW n \in Periods, n \in Nat \ {0}, n <= Len(c)
    PROVE  OnGrid(EMA(Closes(c), n), Depth - MaxBars)
<1>1. PICK l \in Nat : l = Len(c) /\ Sequence(c) /\ l <= MaxBars
  BY ProperAre
<1>2. PICK b \in Nat : b = MaxBars /\ Depth = 2 * b + 2
  BY SignalsConstantsOK DEF Depth
<1>3. PICK v : v = Closes(c) /\ Sequence(v) /\ Len(v) = l /\ \A i \in 1..l : v[i] = Scale * c[i].close
  BY <1>1, ClosesAre
<1>4. \A i \in 1..l : v[i] \in Grid(Depth)
  BY <1>1, <1>3, ProperAre, PricesOnGrid
<1>5. Depth \in 0..Depth /\ l <= Depth
  BY <1>1, <1>2
<1>6. OnLadder(EMA(v, n), Depth) /\ EMAOf(v, n, EMA(v, n))
  BY <1>1, <1>3, <1>4, <1>5, EMAOnGrid DEF OnGrid
<1>7. PICK e : e = EMA(v, n) /\ Sequence(e) /\ Len(e) = l - n + 1 /\ \A i \in 1..Len(e) : e[i] \in Grid(Depth - i)
  BY <1>3, <1>6 DEF OnLadder, EMAOf
<1>8. ASSUME NEW i \in 1..Len(e) PROVE e[i] \in Grid(Depth - b)
  <2>1. i \in 1..l
    BY <1>7
  <2>2. Depth - i \in 0..Depth /\ Depth - b \in 0..(Depth - i)
    BY <1>1, <1>2, <2>1
  <2> QED BY <1>7, <2>2, GridBelow
<1> QED BY <1>2, <1>3, <1>7, <1>8 DEF OnGrid

\* The average of such a line is one of integers.
LEMMA LineAverage ==
    ASSUME ExactScale, NEW c, Proper(c), NEW m \in Periods, NEW n \in Periods,
           m \in Nat \ {0}, n \in Nat \ {0}, m <= n, ~(Len(c) < n), NEW w \in Int,
           NEW line, line = Line(c, m, n, w), NEW r \in Periods, r <= Len(line), NEW e, e = EMA(line, r)
    PROVE  EMAOf(line, r, e) /\ \A i \in 1..Len(e) : e[i] \in Int
<1>1. PICK l \in Nat : l = Len(c) /\ Sequence(c) /\ l <= MaxBars /\ n <= l /\ m <= l
  BY ProperAre
<1>2. PICK g \in Nat : g = Depth - MaxBars /\ g \in 0..Depth /\ MaxBars <= g
  BY SignalsConstantsOK DEF Depth
<1>3. PICK a, b : a = EMA(Closes(c), m) /\ b = EMA(Closes(c), n)
  OBVIOUS
<1>4. OnGrid(a, g) /\ OnGrid(b, g)
  BY <1>1, <1>2, <1>3, AveragesOnGrid
<1>5. Len(a) = l - m + 1 /\ Len(b) = l - n + 1
  BY <1>1, <1>3, ClosesAverage
<1>6. Sequence(line) /\ Len(line) = Len(b) /\ line = Difference(a, b, w)
  BY <1>3, <1>4, DifferenceLong DEF OnGrid, Line
<1>7. ASSUME NEW i \in 1..Len(b) PROVE line[i] \in Grid(g)
  <2>1. i + Len(a) - Len(b) \in 1..Len(a)
    BY <1>1, <1>5
  <2>2. a[i + Len(a) - Len(b)] \in Grid(g) /\ b[i] \in Grid(g) /\ DOMAIN b = 1..Len(b)
    BY <1>4, <2>1, SequenceIs DEF OnGrid
  <2>3. line[i] = w * a[i + Len(a) - Len(b)] - b[i]
    BY <1>6, <2>2 DEF Difference
  <2>4. PICK x \in Grid(g), y \in Grid(g) : x = a[i + Len(a) - Len(b)] /\ y = b[i]
    BY <2>2
  <2>5. w * x \in Grid(g)
    BY <1>2, GridIs
  <2>6. w * x - y \in Grid(g)
    BY <1>2, <2>5, GridIs
  <2> QED BY <2>3, <2>4, <2>6
<1>8. OnGrid(line, g)
  BY <1>6, <1>7 DEF OnGrid
<1>9. Len(line) <= g /\ Len(line) \in Nat
  BY <1>1, <1>2, <1>5, <1>6, SignalsConstantsOK
<1>10. OnLadder(e, g) /\ EMAOf(line, r, e)
  BY <1>2, <1>8, <1>9, EMAOnGrid
<1>11. r \in Nat \ {0}
  BY RungsAre DEF Divisors
<1>12. ASSUME NEW i \in 1..Len(e) PROVE e[i] \in Int
  <2>1. Len(e) = Len(line) - r + 1
    BY <1>10 DEF EMAOf
  <2>4. PICK q \in Nat : q = Len(line) /\ q <= g /\ i \in 1..(q - r + 1)
    BY <1>9, <2>1
  <2>5. i <= g /\ i \in Nat
    BY <1>11, <2>4
  <2>2. g - i \in 0..Depth
    <3>1. Depth \in Nat /\ g <= Depth
      BY <1>2, RungsAre
    <3> QED BY ONLY <2>5, <3>1, g \in Nat
  <2>3. e[i] \in Grid(g - i)
    BY <1>10 DEF OnLadder
  <2> QED BY <2>2, <2>3, GridIs
<1> QED BY <1>10, <1>12

\* The average of a line.
LEMMA LineAveragesTurned ==
    ASSUME ExactScale, NEW c, NEW d, Mirrored(c, d), NEW m \in Periods, NEW n \in Periods,
           m \in Nat \ {0}, n \in Nat \ {0}, m <= n, ~(Len(c) < n), NEW w \in Int,
           NEW r \in Periods, r \in Nat \ {0},
           NEW e, e = EMA(Line(c, m, n, w), r), NEW f, f = EMA(Line(d, m, n, w), r)
    PROVE  Opposed(e, f, w * Level - Level)
<1>1. PICK v, u : v = Line(c, m, n, w) /\ u = Line(d, m, n, w)
  OBVIOUS
<1>2. PICK k \in Int : k = w * Level - Level
  BY AxisIs DEF Level
<1>3. Opposed(v, u, k)
  BY <1>1, <1>2, LinesTurned
<1>4. PICK l \in Nat : l = Len(v) /\ Len(u) = l
  BY <1>3, LatestOpposed
<1>5. Proper(c) /\ Proper(d) /\ Len(d) = Len(c)
  BY LatestFace DEF Mirrored
<1>6. CASE l < r
  <2>1. e = <<>> /\ f = <<>>
    BY <1>1, <1>4, <1>6 DEF EMA
  <2> QED BY <1>2, <2>1, NothingOpposed
<1>7. CASE ~(l < r)
  <2>1. r <= Len(v) /\ r <= Len(u)
    BY <1>4, <1>7
  <2>2. EMAOf(v, r, e) /\ \A i \in 1..Len(e) : e[i] \in Int
    BY <1>1, <1>5, <2>1, LineAverage
  <2>3. ~(Len(d) < n)
    BY <1>5
  <2>4. EMAOf(u, r, f) /\ \A i \in 1..Len(f) : f[i] \in Int
    BY <1>1, <1>5, <2>1, <2>3, LineAverage
  <2>5. Opposed(e, f, k)
    BY ONLY r \in Nat \ {0}, k \in Int, <1>3, <2>1, <2>2, <2>4, OpposedAverages
  <2> QED BY <1>2, <2>5
<1> QED BY <1>6, <1>7

\* The Hull average: it votes short without a move.
LEMMA HullTurned ==
    ASSUME ExactScale, NEW c, NEW d, Mirrored(c, d),
           NEW x, x = HullMA(c, P.hull_ma.period, P.hull_ma.half, P.hull_ma.root),
           NEW y, y = HullMA(d, P.hull_ma.period, P.hull_ma.half, P.hull_ma.root)
    PROVE  HullVote(y) = Opposite(HullVote(x)) \/ Latest(x) = Before(x)
<1>1. PICK n \in Nat \ {0}, h \in Nat \ {0}, r \in Nat \ {0} :
         n = P.hull_ma.period /\ h = P.hull_ma.half /\ r = P.hull_ma.root /\ h <= n
  BY PeriodsOK
<1>2. n \in Periods /\ h \in Periods /\ r \in Periods
  BY <1>1 DEF Periods
<1>3. Sequence(c) /\ Sequence(d) /\ Len(d) = Len(c)
  BY DEF Mirrored, AllFacing
<1>4. Opposed(x, y, 2 * Level - Level)
  <2>1. CASE Len(c) < n
    <3>1. x = <<>> /\ y = <<>>
      BY <1>1, <1>3, <2>1, HullIs
    <3> QED BY <3>1, NothingOpposed
  <2>2. CASE ~(Len(c) < n)
    <3>1. x = EMA(Line(c, h, n, 2), r) /\ y = EMA(Line(d, h, n, 2), r)
      BY <1>1, <1>3, <2>2, HullIs
    <3>2. 2 \in Int
      OBVIOUS
    <3> QED BY <1>1, <1>2, <2>2, <3>1, <3>2, LineAveragesTurned
  <2> QED BY <2>1, <2>2
<1>5. /\ HullVote(x) = Vote(Len(x) >= 2, Latest(x) > Before(x), TRUE)
      /\ HullVote(y) = Vote(Len(y) >= 2, Latest(y) > Before(y), TRUE)
  BY DEF HullVote
<1>6. Len(x) \in Nat /\ Len(y) = Len(x)
  BY <1>4, LatestOpposed
<1>7. CASE Len(x) >= 2
  <2>1. AddUp(Latest(x), Latest(y), 2 * Level - Level) /\ AddUp(Before(x), Before(y), 2 * Level - Level)
    BY <1>4, <1>7, LatestOpposed
  <2>2. Latest(x) > Before(x) <=> Latest(y) < Before(y)
    BY <2>1, AddUpFlips
  <2>3. /\ Latest(x) # Before(x) /\ ~(Latest(x) > Before(x)) => Latest(y) > Before(y)
        /\ Latest(y) < Before(y) => ~(Latest(y) > Before(y))
    BY <2>1 DEF AddUp
  <2> QED BY ONLY <1>5, <1>6, <1>7, <2>2, <2>3 DEF Vote, Opposite, Flat, Long, Short
<1>8. CASE ~(Len(x) >= 2)
  BY ONLY <1>5, <1>6, <1>8 DEF Vote, Opposite, Flat, Long, Short
<1> QED BY <1>7, <1>8

-----------------------------------------------------------------------------
(* MACD, and what the true range measures *)

\* Latest values of the histogram, by the line and its average.
LEMMA HistogramsAre ==
    ASSUME NEW line, Sequence(line), NEW sig, Sequence(sig), Len(sig) <= Len(line), NEW x, x = MACDOn(line, sig),
           Sequence(x)
    PROVE  /\ Len(x) = Len(sig)
           /\ Len(sig) >= 2 => /\ Latest(x).histogram = Latest(line) - Latest(sig)
                               /\ Before(x).histogram = Before(line) - Before(sig)
<1>1. PICK l \in Nat, m \in Nat : l = Len(line) /\ m = Len(sig) /\ m <= l /\ DOMAIN sig = 1..m
  BY SequenceIs
<1>2. DOMAIN x = 1..m /\ \A i \in 1..m : x[i].histogram = line[i + l - m] - sig[i]
  BY <1>1 DEF MACDOn
<1>3. Len(x) = m
  <2>1. PICK k \in Nat : k = Len(x) /\ DOMAIN x = 1..k
    BY SequenceIs
  <2>2. 1..k = 1..m
    BY <1>2, <2>1
  <2>3. k = m
    <3>1. k # 0 => k \in 1..m
      BY <2>2
    <3>2. m # 0 => m \in 1..k
      BY <2>2
    <3> QED BY <3>1, <3>2
  <2> QED BY <2>1, <2>3
<1>4. ASSUME m >= 2
      PROVE  /\ Latest(x).histogram = Latest(line) - Latest(sig)
             /\ Before(x).histogram = Before(line) - Before(sig)
  <2>1. m \in 1..m /\ m - 1 \in 1..m /\ m + l - m = l /\ m - 1 + l - m = l - 1
    BY <1>4
  <2>2. x[m].histogram = line[m + l - m] - sig[m] /\ x[m - 1].histogram = line[m - 1 + l - m] - sig[m - 1]
    BY <1>2, <2>1
  <2> QED BY <1>1, <1>3, <2>1, <2>2 DEF Latest, Before
<1> QED BY <1>1, <1>3, <1>4

\* So do differences of what adds up to nothing.
LEMMA AddUpLess ==
    ASSUME NEW a, NEW b, AddUp(a, b, 0), NEW p, NEW q, AddUp(p, q, 0)
    PROVE  AddUp(a - p, b - q, 0)
  BY DEF AddUp

\* The histogram changes its sign.
LEMMA MACDTurned ==
    ASSUME ExactScale, NEW c, NEW d, Mirrored(c, d),
           NEW x, x = MACD(c, P.macd_cross.fast, P.macd_cross.slow, P.macd_cross.signal),
           NEW y, y = MACD(d, P.macd_cross.fast, P.macd_cross.slow, P.macd_cross.signal)
    PROVE  MACDVote(y) = Opposite(MACDVote(x))
<1>1. PICK f \in Nat \ {0}, s \in Nat \ {0}, r \in Nat \ {0} :
         f = P.macd_cross.fast /\ s = P.macd_cross.slow /\ r = P.macd_cross.signal /\ f <= s
  BY PeriodsOK
<1>2. f \in Periods /\ s \in Periods /\ r \in Periods
  BY <1>1 DEF Periods
<1>3. Sequence(c) /\ Sequence(d) /\ Len(d) = Len(c)
  BY DEF Mirrored, AllFacing
<1>4. /\ MACDVote(x) = Vote(Len(x) >= 2, Latest(x).histogram > 0 /\ Before(x).histogram < 0,
                                         Latest(x).histogram < 0 /\ Before(x).histogram > 0)
      /\ MACDVote(y) = Vote(Len(y) >= 2, Latest(y).histogram > 0 /\ Before(y).histogram < 0,
                                         Latest(y).histogram < 0 /\ Before(y).histogram > 0)
  BY DEF MACDVote
<1>5. CASE Len(c) < s
  <2>1. x = <<>> /\ y = <<>>
    BY <1>1, <1>3, <1>5, MACDIs
  <2> QED BY ONLY <1>4, <2>1 DEF Vote, Opposite, Flat, Long, Short
<1>6. CASE ~(Len(c) < s)
  <2>1. PICK v, u, p, q : v = Line(c, f, s, 1) /\ u = Line(d, f, s, 1) /\ p = EMA(v, r) /\ q = EMA(u, r)
    OBVIOUS
  <2>2. x = MACDOn(v, p) /\ y = MACDOn(u, q)
    BY <1>1, <1>3, <1>6, <2>1, MACDIs
  <2>3. Opposed(v, u, 1 * Level - Level) /\ Opposed(p, q, 1 * Level - Level)
    <3>1. 1 \in Int
      OBVIOUS
    <3> QED BY <1>1, <1>2, <1>6, <2>1, <3>1, LinesTurned, LineAveragesTurned
  <2>4. 1 * Level - Level = 0
    BY AxisIs DEF Level
  <2>5. Opposed(v, u, 0) /\ Opposed(p, q, 0)
    BY <2>3, <2>4
  <2>6. Sequence(x) /\ Sequence(y)
    BY <1>1, <1>3, MACDLong
  <2>7. PICK l \in Nat, m \in Nat : l = Len(v) /\ Len(u) = l /\ m = Len(p) /\ Len(q) = m
    BY <2>5, LatestOpposed
  <2>8. m <= l
    <3>1. m = IF l < r THEN 0 ELSE l - r + 1
      BY <2>1, <2>5, <2>7, EMALong DEF Opposed
    <3> QED BY ONLY <3>1, l \in Nat, r \in Nat \ {0}
  <2>9. /\ Len(x) = m
        /\ m >= 2 => /\ Latest(x).histogram = Latest(v) - Latest(p)
                     /\ Before(x).histogram = Before(v) - Before(p)
    BY <2>2, <2>5, <2>6, <2>7, <2>8, HistogramsAre DEF Opposed
  <2>10. /\ Len(y) = m
         /\ m >= 2 => /\ Latest(y).histogram = Latest(u) - Latest(q)
                      /\ Before(y).histogram = Before(u) - Before(q)
    BY <2>2, <2>5, <2>6, <2>7, <2>8, HistogramsAre DEF Opposed
  <2>11. CASE m >= 2
    <3>1. /\ AddUp(Latest(v), Latest(u), 0) /\ AddUp(Before(v), Before(u), 0)
          /\ AddUp(Latest(p), Latest(q), 0) /\ AddUp(Before(p), Before(q), 0)
      <4>1. l # 0 /\ l >= 2 /\ m # 0
        BY <2>8, <2>11
      <4> QED BY <2>5, <2>7, <2>11, <4>1, LatestOpposed
    <3>2. /\ AddUp(Latest(x).histogram, Latest(y).histogram, 0)
          /\ AddUp(Before(x).histogram, Before(y).histogram, 0)
      <4>1. /\ AddUp(Latest(v) - Latest(p), Latest(u) - Latest(q), 0)
            /\ AddUp(Before(v) - Before(p), Before(u) - Before(q), 0)
        BY ONLY <3>1, AddUpLess
      <4> QED BY ONLY <2>9, <2>10, <2>11, <4>1
    <3>3. AddUp(0, 0, 0)
      BY DEF AddUp
    <3>4. /\ Latest(x).histogram > 0 <=> Latest(y).histogram < 0
          /\ Latest(x).histogram < 0 <=> Latest(y).histogram > 0
      BY <3>2, <3>3, AddUpFlips
    <3>5. /\ Before(x).histogram > 0 <=> Before(y).histogram < 0
          /\ Before(x).histogram < 0 <=> Before(y).histogram > 0
      BY <3>2, <3>3, AddUpFlips
    <3>6. ~(Latest(x).histogram > 0 /\ Latest(x).histogram < 0)
      BY <3>2 DEF AddUp
    <3> QED BY ONLY <1>4, <2>9, <2>10, <2>11, <3>4, <3>5, <3>6 DEF Vote, Opposite, Flat, Long, Short
  <2>12. CASE ~(m >= 2)
    BY ONLY <1>4, <2>9, <2>10, <2>12 DEF Vote, Opposite, Flat, Long, Short
  <2> QED BY <2>11, <2>12
<1> QED BY <1>5, <1>6

\* A true range is the same upside down.
LEMMA TrueRangesTurned ==
    ASSUME NEW c, NEW d, Mirrored(c, d)
    PROVE  TrueRanges(d) = TrueRanges(c) /\ \A n : ATR(d, n) = ATR(c, n)
<1>1. PICK l \in Nat : l = Len(c) /\ Len(d) = l
  BY LatestFace
<1>2. ASSUME NEW i \in 1..(l - 1) PROVE TrueRange(d, i + 1) = TrueRange(c, i + 1)
  <2>1. i \in 1..l /\ i + 1 \in 1..l /\ i + 1 - 1 = i
    BY <1>1
  <2>2. Facing(c[i], d[i]) /\ Facing(c[i + 1], d[i + 1])
    BY <1>1, <2>1 DEF Mirrored, AllFacing
  <2>3. PICK h \in Int, k \in Int, p \in Int :
           h = c[i + 1].high /\ k = c[i + 1].low /\ p = c[i].close
    BY <2>2 DEF Facing, AddUp
  <2>4. PICK g \in Int, j \in Int, q \in Int :
           g = d[i + 1].high /\ j = d[i + 1].low /\ q = d[i].close
    BY <2>2 DEF Facing, AddUp
  <2>5. h + j = Axis /\ k + g = Axis /\ p + q = Axis
    BY <2>2, <2>3, <2>4 DEF Facing, AddUp
  <2>6. g - j = h - k /\ g - q = p - k /\ q - j = h - p
    BY ONLY <2>5, h \in Int, k \in Int, p \in Int, g \in Int, j \in Int, q \in Int
  <2>7. Higher(p - k, h - p) = Higher(h - p, p - k)
    <3>1. PICK a \in Int, b \in Int : a = p - k /\ b = h - p
      OBVIOUS
    <3>2. Higher(a, b) = Higher(b, a)
      BY ONLY a \in Int, b \in Int DEF Higher
    <3> QED BY <3>1, <3>2
  <2>8. TrueRange(c, i + 1) = Higher(h - k, Higher(h - p, p - k))
    BY <2>1, <2>3 DEF TrueRange
  <2>9. TrueRange(d, i + 1) = Higher(g - j, Higher(g - q, q - j))
    BY <2>1, <2>4 DEF TrueRange
  <2> QED BY <2>6, <2>7, <2>8, <2>9
<1>3. TrueRanges(d) = TrueRanges(c)
  <2>1. [i \in 1..(l - 1) |-> Scale * TrueRange(d, i + 1)] = [i \in 1..(l - 1) |-> Scale * TrueRange(c, i + 1)]
    BY <1>2, Zenon
  <2> QED BY <1>1, <2>1, Zenon DEF TrueRanges
<1> QED BY <1>1, <1>3, Zenon DEF ATR

\* A move of the close beyond some true ranges.
LEMMA TrendFollowTurned ==
    ASSUME ExactScale, EvenParameters, NEW c, NEW d, Mirrored(c, d),
           NEW x, x = ATR(c, P.trend_follow.period), NEW y, y = ATR(d, P.trend_follow.period)
    PROVE  TrendFollowVote(d, y) = Opposite(TrendFollowVote(c, x))
<1>1. PICK n \in Nat \ {0} : n = P.trend_follow.period /\ n \in Periods
  BY PeriodsOK DEF Periods
<1>2. y = x
  BY TrueRangesTurned
<1>3. PICK l \in Nat \ {0} : l = Len(c) /\ Len(d) = l
  BY LatestFace
<1>4. Proper(c) /\ Sequence(c)
  BY DEF Mirrored, AllFacing
<1>5. PICK k : k = Len(x) /\ k = IF l <= n THEN 0 ELSE l - n
  BY <1>1, <1>3, <1>4, ATRLong
<1>6. PICK mult \in Nat : mult = P.trend_follow.mult
  BY DEF EvenParameters
<1>7. CASE k >= 2
  <2>1. n < l /\ k \in 1..(l - n) /\ l - 1 \in 1..l /\ l >= 2
    BY <1>5, <1>7
  <2>2. PICK a \in Nat : a = Latest(x)
    <3>1. x[k] \in Nat
      BY <1>1, <1>3, <1>4, <1>5, <2>1, ATROnGrid
    <3> QED BY <1>5, <3>1 DEF Latest
  <2>3. PICK band \in Nat : band = mult * a
    OBVIOUS
  <2>4. Facing(Before(c), Before(d))
    BY <1>3, <2>1 DEF Mirrored, AllFacing, Before
  <2>5. PICK p \in Int, q \in Int, r \in Int, s \in Int :
           /\ p = Price(c) /\ q = Price(d) /\ r = Before(c).close /\ s = Before(d).close
           /\ p + q = Axis /\ r + s = Axis
    <3>1. AddUp(Price(c), Price(d), Axis)
      BY LatestFace
    <3>2. AddUp(Before(c).close, Before(d).close, Axis)
      BY <2>4 DEF Facing
    <3> QED BY ONLY <3>1, <3>2 DEF AddUp
  <2>6. q - s = -(p - r)
    BY ONLY <2>5, p \in Int, q \in Int, r \in Int, s \in Int
  <2>7. PICK m \in Int : m = Scale * (p - r) /\ Scale * (q - s) = -m
    <3>1. PICK z \in Int : z = p - r /\ q - s = -z
      BY <2>6
    <3>2. Scale * z \in Int /\ Scale * (-z) = -(Scale * z)
      BY ScaleAssumption
    <3> QED BY <3>1, <3>2
  <2>8. /\ TrendFollowVote(c, x) = Vote(Len(x) >= 2, m > band, -m > band)
        /\ TrendFollowVote(d, y) = Vote(Len(x) >= 2, -m > band, -(-m) > band)
    BY <1>2, <1>6, <2>2, <2>3, <2>5, <2>7 DEF TrendFollowVote
  <2>9. (-(-m) > band <=> m > band) /\ ~(m > band /\ -m > band)
    BY ONLY m \in Int, band \in Nat
  <2> QED BY ONLY <2>8, <2>9 DEF Vote, Opposite, Flat, Long, Short
<1>8. CASE ~(k >= 2)
  BY ONLY <1>2, <1>5, <1>8 DEF TrendFollowVote, Vote, Opposite, Flat, Long, Short
<1> QED BY <1>7, <1>8

\* The band and its image are as wide as each other.
LEMMA KeltnerTurned ==
    ASSUME ExactScale, EvenParameters, NEW c, NEW d, Mirrored(c, d),
           NEW x, x = KeltnerChannel(c, P.keltner_channel.period, P.keltner_channel.halves),
           NEW y, y = KeltnerChannel(d, P.keltner_channel.period, P.keltner_channel.halves)
    PROVE  KeltnerVote(d, y) = Opposite(KeltnerVote(c, x))
<1>1. PICK n \in Nat \ {0} : n = P.keltner_channel.period /\ n \in Periods
  BY PeriodsOK DEF Periods
<1>2. P.keltner_channel.halves \in Nat
  BY DEF EvenParameters
<1>3. Proper(c) /\ Proper(d) /\ Sequence(c) /\ Sequence(d)
  BY DEF Mirrored, AllFacing
<1>4. Len(d) = Len(c) /\ Len(c) \in Nat /\ AddUp(Scale * Price(c), Scale * Price(d), Level)
  BY LatestFace DEF Level
<1>5. /\ Sequence(x) /\ Len(x) = IF Len(c) <= n THEN 0 ELSE Len(c) - n
      /\ Sequence(y) /\ Len(y) = IF Len(c) <= n THEN 0 ELSE Len(c) - n
  BY <1>1, <1>3, <1>4, KeltnerLong
<1>6. (x # <<>> <=> Len(x) # 0) /\ (y # <<>> <=> Len(x) # 0)
  BY <1>5, SequenceIs
<1>7. CASE x # <<>>
  <2>1. PICK mid \in Int, b \in Nat :
           /\ mid = LatestAt(c, n) /\ b = Over(P.keltner_channel.halves * Latest(ATR(c, n)), 2)
           /\ Latest(x) = [upper |-> mid + b, middle |-> mid, lower |-> mid - b]
    BY <1>1, <1>2, <1>3, <1>7, KeltnerLatest
  <2>2. PICK dim \in Int, e \in Nat :
           /\ dim = LatestAt(d, n) /\ e = Over(P.keltner_channel.halves * Latest(ATR(d, n)), 2)
           /\ Latest(y) = [upper |-> dim + e, middle |-> dim, lower |-> dim - e]
    BY <1>1, <1>2, <1>3, <1>6, <1>7, KeltnerLatest
  <2>3. e = b
    BY <2>1, <2>2, TrueRangesTurned
  <2>4. AddUp(mid, dim, Level)
    <3>1. PICK u, v : u = EMA(Closes(c), n) /\ v = EMA(Closes(d), n)
      OBVIOUS
    <3>2. Opposed(u, v, Level) /\ Len(u) = IF Len(c) < n THEN 0 ELSE Len(c) - n + 1
      BY <1>1, <3>1, AveragesTurned
    <3>3. Len(u) # 0
      BY <1>4, <1>5, <1>6, <1>7, <3>2
    <3> QED BY <2>1, <2>2, <3>1, <3>2, <3>3, LatestOpposed DEF LatestAt
  <2>5. /\ AddUp(mid + b, dim - b, Level) /\ AddUp(mid - b, dim + b, Level)
        /\ mid - b <= mid + b
    BY ONLY <2>4, mid \in Int, b \in Nat DEF AddUp
  <2>9. PICK p, q : p = Scale * Price(c) /\ q = Scale * Price(d)
    OBVIOUS
  <2>10. PICK u, l : u = mid + b /\ l = mid - b
    OBVIOUS
  <2>11. PICK v, m : v = dim + b /\ m = dim - b
    OBVIOUS
  <2>6. AddUp(p, q, Level) /\ AddUp(u, m, Level) /\ AddUp(l, v, Level) /\ l <= u
    BY ONLY <1>4, <2>5, <2>9, <2>10, <2>11
  <2>7. (p > u <=> q < m) /\ (p < l <=> q > v) /\ ~(p > u /\ p < l)
    BY ONLY <2>6, BeyondTurned
  <2>8. /\ KeltnerVote(c, x) = Vote(x # <<>>, p > u, p < l)
        /\ KeltnerVote(d, y) = Vote(y # <<>>, q > v, q < m)
    BY <2>1, <2>2, <2>3, <2>9, <2>10, <2>11 DEF KeltnerVote
  <2> QED BY ONLY <1>6, <1>7, <2>7, <2>8 DEF Vote, Opposite, Flat, Long, Short
<1>8. CASE ~(x # <<>>)
  BY ONLY <1>6, <1>8 DEF KeltnerVote, Vote, Opposite, Flat, Long, Short
<1> QED BY <1>7, <1>8

-----------------------------------------------------------------------------
(* Directional movement *)

\* The running totals of the movements are not negative.
LEMMA MovesSmoothed ==
    ASSUME ExactScale, NEW c, Proper(c), NEW n \in Periods, 2 * n <= Len(c)
    PROVE  \A i \in 1..(Len(c) - n) : Smooth(PlusMoves(c), n)[i] \in Nat /\ Smooth(MinusMoves(c), n)[i] \in Nat
<1>1. n \in Nat \ {0} /\ Depth \in 0..Depth
  BY RungsAre DEF Divisors
<1>2. PICK l \in Nat : l = Len(c)
  BY ProperAre
<1>3. 1 <= l /\ n <= l - 1 /\ l - 1 - n + 1 = l - n
  BY <1>1, <1>2
<1>4. /\ OnNaturals(PlusMoves(c), Depth) /\ Len(PlusMoves(c)) = l - 1
      /\ OnNaturals(MinusMoves(c), Depth) /\ Len(MinusMoves(c)) = l - 1 /\ l - 1 <= Depth
  BY <1>2, <1>3, MovesOnGrid
<1>5. \A i \in 1..(Len(PlusMoves(c)) - n + 1) : Smooth(PlusMoves(c), n)[i] \in Nat
  BY <1>1, <1>3, <1>4, SmoothOnGrid
<1>6. \A i \in 1..(Len(MinusMoves(c)) - n + 1) : Smooth(MinusMoves(c), n)[i] \in Nat
  BY <1>1, <1>3, <1>4, SmoothOnGrid
<1> QED BY <1>2, <1>3, <1>4, <1>5, <1>6

\* What goes up in one market goes down in the other.
LEMMA MovesTurned ==
    ASSUME NEW c, NEW d, Mirrored(c, d)
    PROVE  PlusMoves(d) = MinusMoves(c) /\ MinusMoves(d) = PlusMoves(c)
<1>1. PICK l \in Nat : l = Len(c) /\ Len(d) = l
  BY LatestFace
<1>2. ASSUME NEW i \in 1..(l - 1) PROVE Up(d, i) = Down(c, i) /\ Down(d, i) = Up(c, i)
  <2>1. i \in 1..l /\ i + 1 \in 1..l
    BY <1>1
  <2>2. Facing(c[i], d[i]) /\ Facing(c[i + 1], d[i + 1])
    BY <1>1, <2>1 DEF Mirrored, AllFacing
  <2>3. /\ AddUp(c[i].high, d[i].low, Axis) /\ AddUp(c[i].low, d[i].high, Axis)
        /\ AddUp(c[i + 1].high, d[i + 1].low, Axis) /\ AddUp(c[i + 1].low, d[i + 1].high, Axis)
    BY ONLY <2>2 DEF Facing
  <2> QED BY ONLY <2>3 DEF AddUp, Up, Down
<1>3. /\ [i \in 1..(l - 1) |-> Scale * IF Up(d, i) > Down(d, i) /\ Up(d, i) > 0 THEN Up(d, i) ELSE 0]
           = [i \in 1..(l - 1) |-> Scale * IF Down(c, i) > Up(c, i) /\ Down(c, i) > 0 THEN Down(c, i) ELSE 0]
      /\ [i \in 1..(l - 1) |-> Scale * IF Down(d, i) > Up(d, i) /\ Down(d, i) > 0 THEN Down(d, i) ELSE 0]
           = [i \in 1..(l - 1) |-> Scale * IF Up(c, i) > Down(c, i) /\ Up(c, i) > 0 THEN Up(c, i) ELSE 0]
  BY <1>2, Zenon
<1> QED BY <1>1, <1>3, Zenon DEF PlusMoves, MinusMoves

\* The directional indices do not tell the sides apart.
LEMMA DXTurned ==
    ASSUME ExactScale, NEW c, NEW d, Mirrored(c, d), NEW n \in Periods, 2 * n <= Len(c)
    PROVE  DX(d, n) = DX(c, n)
<1>1. PICK l \in Nat : l = Len(c)
  BY LatestFace
<1>2. n \in Nat \ {0} /\ Proper(c) /\ Sequence(c)
  BY RungsAre DEF Divisors, Mirrored, AllFacing
<1>3. PICK t, p, m : t = Smooth(TrueRanges(c), n) /\ p = Smooth(PlusMoves(c), n) /\ m = Smooth(MinusMoves(c), n)
  OBVIOUS
<1>4. t = Smooth(TrueRanges(d), n) /\ m = Smooth(PlusMoves(d), n) /\ p = Smooth(MinusMoves(d), n)
  BY <1>3, TrueRangesTurned, MovesTurned
<1>5. /\ DX(c, n) = [i \in DOMAIN t |-> IF t[i] = 0 \/ p[i] + m[i] = 0 THEN Zero
                                        ELSE Frac(Distance(p[i], m[i]), p[i] + m[i])]
      /\ DX(d, n) = [i \in DOMAIN t |-> IF t[i] = 0 \/ m[i] + p[i] = 0 THEN Zero
                                        ELSE Frac(Distance(m[i], p[i]), m[i] + p[i])]
  BY <1>3, <1>4, Zenon DEF DX
<1>6. \A i \in 1..(l - n) : p[i] \in Nat /\ m[i] \in Nat
  BY <1>1, <1>2, <1>3, MovesSmoothed
<1>7. DOMAIN t = 1..(l - n)
  BY <1>1, <1>2, <1>3, DXLong
<1>8. ASSUME NEW i \in DOMAIN t PROVE m[i] + p[i] = p[i] + m[i] /\ Distance(m[i], p[i]) = Distance(p[i], m[i])
  <2>1. PICK a \in Nat, b \in Nat : a = p[i] /\ b = m[i]
    BY <1>6, <1>7
  <2>2. b + a = a + b /\ Distance(b, a) = Distance(a, b)
    BY ONLY a \in Nat, b \in Nat DEF Distance, Higher, Lower
  <2> QED BY <2>1, <2>2
<1>9. \A i \in DOMAIN t : (IF t[i] = 0 \/ m[i] + p[i] = 0 THEN Zero ELSE Frac(Distance(m[i], p[i]), m[i] + p[i]))
                            = IF t[i] = 0 \/ p[i] + m[i] = 0 THEN Zero ELSE Frac(Distance(p[i], m[i]), p[i] + m[i])
  BY <1>8
<1> QED BY ONLY <1>5, <1>9, Zenon

\* The ADX: it votes short where neither direction leads.
LEMMA ADXTurned ==
    ASSUME ExactScale, NEW c, NEW d, Mirrored(c, d),
           NEW x, x = ADX(c, P.dmi_adx.period), NEW y, y = ADX(d, P.dmi_adx.period)
    PROVE  ADXVote(y) = Opposite(ADXVote(x)) \/ Latest(x).plusDI = Latest(x).minusDI
<1>1. PICK n \in Nat \ {0} : n = P.dmi_adx.period /\ n \in Periods
  BY PeriodsOK DEF Periods
<1>2. PICK l \in Nat \ {0} : l = Len(c) /\ Len(d) = l
  BY LatestFace
<1>3. Proper(c) /\ Sequence(c) /\ Sequence(d)
  BY DEF Mirrored, AllFacing
<1>4. PICK k \in Nat : k = Len(x) /\ Len(y) = k /\ k = IF l <= 2 * n - 1 THEN 0 ELSE l - (2 * n - 1)
  <2>1. (IF l <= 2 * n - 1 THEN 0 ELSE l - (2 * n - 1)) \in Nat
    BY ONLY l \in Nat \ {0}, n \in Nat \ {0}
  <2> QED BY <1>1, <1>2, <1>3, <2>1, ADXLong
<1>5. CASE k >= 2
  <2>1. ~(l < 2 * n) /\ 2 * n <= l /\ k \in 1..k /\ k + n - 1 \in 1..(l - n) /\ k = l - (2 * n - 1)
    BY ONLY <1>4, <1>5, k \in Nat, l \in Nat \ {0}, n \in Nat \ {0}
  <2>2. PICK a : a = AverageDX(DX(c, n), n)
    OBVIOUS
  <2>3. a = AverageDX(DX(d, n), n)
    BY <1>1, <1>2, <2>1, <2>2, DXTurned
  <2>4. DOMAIN a = 1..k
    <3>1. Sequence(a) /\ Len(a) = k
      BY <1>1, <1>2, <1>3, <2>1, <2>2, DXLong
    <3> QED BY <3>1, SequenceIs
  <2>5. PICK p, m : p = Smooth(PlusMoves(c), n) /\ m = Smooth(MinusMoves(c), n)
    OBVIOUS
  <2>6. m = Smooth(PlusMoves(d), n) /\ p = Smooth(MinusMoves(d), n)
    BY <2>5, MovesTurned
  <2>7. x = [i \in DOMAIN a |-> [adx |-> a[i], plusDI |-> p[i + n - 1], minusDI |-> m[i + n - 1]]]
    <3>1. x = ADX(c, n) /\ ~(Len(c) < 2 * n)
      BY <1>1, <1>2, <2>1
    <3>2. ADX(c, n) = [i \in DOMAIN AverageDX(DX(c, n), n) |->
                         [adx |-> AverageDX(DX(c, n), n)[i], plusDI |-> Smooth(PlusMoves(c), n)[i + n - 1],
                          minusDI |-> Smooth(MinusMoves(c), n)[i + n - 1]]]
      BY <3>1, ADXIs
    <3> QED BY ONLY <2>2, <2>5, <3>1, <3>2, Zenon
  <2>8. y = [i \in DOMAIN a |-> [adx |-> a[i], plusDI |-> m[i + n - 1], minusDI |-> p[i + n - 1]]]
    <3>1. y = ADX(d, n) /\ ~(Len(d) < 2 * n)
      BY <1>1, <1>2, <2>1
    <3>2. ADX(d, n) = [i \in DOMAIN AverageDX(DX(d, n), n) |->
                         [adx |-> AverageDX(DX(d, n), n)[i], plusDI |-> Smooth(PlusMoves(d), n)[i + n - 1],
                          minusDI |-> Smooth(MinusMoves(d), n)[i + n - 1]]]
      BY <3>1, ADXIs
    <3> QED BY ONLY <2>3, <2>6, <3>1, <3>2, Zenon
  <2>9. PICK u \in Nat, v \in Nat : u = p[k + n - 1] /\ v = m[k + n - 1]
    BY <1>1, <1>2, <1>3, <2>1, <2>5, MovesSmoothed
  <2>10. Latest(x) = [adx |-> a[k], plusDI |-> u, minusDI |-> v]
    BY <1>4, <2>1, <2>4, <2>7, <2>9 DEF Latest
  <2>11. Latest(y) = [adx |-> a[k], plusDI |-> v, minusDI |-> u]
    BY <1>4, <2>1, <2>4, <2>8, <2>9 DEF Latest
  <2>12. PICK f, t : f = a[k] /\ t = Frac(P.dmi_adx.threshold, 100)
    OBVIOUS
  <2>13. /\ ADXVote(x) = Vote(Len(x) >= 2 /\ ~Less(f, t), u > v, TRUE)
         /\ ADXVote(y) = Vote(Len(y) >= 2 /\ ~Less(f, t), v > u, TRUE)
    <3>1. Latest(x).adx = f /\ Latest(x).plusDI = u /\ Latest(x).minusDI = v
      BY <2>10, <2>12
    <3>2. Latest(y).adx = f /\ Latest(y).plusDI = v /\ Latest(y).minusDI = u
      BY <2>11, <2>12
    <3> QED BY ONLY <2>12, <3>1, <3>2, Zenon DEF ADXVote
  <2>14. u # v => (v > u <=> ~(u > v))
    BY ONLY u \in Nat, v \in Nat
  <2>15. Latest(x).plusDI = u /\ Latest(x).minusDI = v
    BY <2>10
  <2> QED BY ONLY <1>4, <2>13, <2>14, <2>15 DEF Vote, Opposite, Flat, Long, Short
<1>6. CASE ~(k >= 2)
  BY ONLY <1>4, <1>6 DEF ADXVote, Vote, Opposite, Flat, Long, Short
<1> QED BY <1>5, <1>6

-----------------------------------------------------------------------------
(* The Supertrend *)

\* The bands of a trend and of its image, and their sides: they differ once a band was broken.
BandsOpposed(p, q) == AddUp(p.upper, q.lower, Level) /\ AddUp(p.lower, q.upper, Level)
OnTwoSides(p, q) == p.long \in BOOLEAN /\ q.long \in BOOLEAN /\ (p.long <=> ~q.long)
OnOneSide(p, q) == p.long \in BOOLEAN /\ q.long \in BOOLEAN /\ p.long /\ q.long

\* An upper band is kept where the image's lower one is.
KeptUpper(a, b, c) == IF a < b \/ c > b THEN a ELSE b
KeptLower(a, b, c) == IF a > b \/ c < b THEN a ELSE b
\* The band that is kept, or not, is the image of the other one.
LEMMA KeptTurned ==
    ASSUME NEW k, NEW a, NEW e, AddUp(a, e, k), NEW b, NEW f, AddUp(b, f, k), NEW c, NEW g, AddUp(c, g, k)
    PROVE  AddUp(KeptUpper(a, b, c), KeptLower(e, f, g), k)
<1>1. (a < b <=> e > f) /\ (c > b <=> g < f)
  BY AddUpFlips
<1> QED BY <1>1 DEF KeptUpper, KeptLower

\* A step leaves the bands opposite.
LEMMA BandsGoOn ==
    ASSUME NEW p, NEW q, BandsOpposed(p, q), NEW a, NEW e, AddUp(a, e, Level),
           NEW ub, NEW ul, AddUp(ub, ul, Level), NEW lb, NEW ll, AddUp(lb, ll, Level), NEW k, NEW j,
           NEW m, m = SupertrendStep(p, a, k, ub, lb), NEW n, n = SupertrendStep(q, e, j, ll, ul)
    PROVE  BandsOpposed(m, n)
<1>1. m.upper = KeptUpper(ub, p.upper, a) /\ m.lower = KeptLower(lb, p.lower, a)
  BY DEF SupertrendStep, KeptUpper, KeptLower
<1>2. n.upper = KeptUpper(ll, q.upper, e) /\ n.lower = KeptLower(ul, q.lower, e)
  BY DEF SupertrendStep, KeptUpper, KeptLower
<1>3. AddUp(KeptUpper(ub, p.upper, a), KeptLower(ul, q.lower, e), Level)
  BY KeptTurned DEF BandsOpposed
<1>4. AddUp(ll, lb, Level) /\ AddUp(q.upper, p.lower, Level) /\ AddUp(e, a, Level)
  BY AddUpBack DEF BandsOpposed
<1>5. AddUp(KeptUpper(ll, q.upper, e), KeptLower(lb, p.lower, a), Level)
  BY <1>4, KeptTurned
<1>6. AddUp(m.upper, n.lower, Level) /\ AddUp(n.upper, m.lower, Level)
  BY ONLY <1>1, <1>2, <1>3, <1>5
<1> QED BY <1>6, AddUpBack DEF BandsOpposed

\* A break of a band puts the two on different sides, where they stay.
LEMMA SidesGoOn ==
    ASSUME NEW p, NEW q, NEW m, NEW n, NEW a, NEW b, NEW u, NEW v, FollowsUp(p, m, a, u), FollowsUp(q, n, b, v),
           AddUp(u, v, Level), BandsOpposed(m, n), IsTrend(p), IsTrend(q), IsTrend(m), IsTrend(n)
    PROVE  /\ OnTwoSides(p, q) => OnTwoSides(m, n)
           /\ OnOneSide(p, q) => OnTwoSides(m, n) \/ OnOneSide(m, n)
<1>1. (u > m.upper <=> v < n.lower) /\ (u < m.lower <=> v > n.upper)
  BY AddUpFlips DEF BandsOpposed
<1>2. /\ p.long \in BOOLEAN /\ q.long \in BOOLEAN /\ m.long \in BOOLEAN /\ n.long \in BOOLEAN
      /\ ~(u > m.upper /\ u < m.lower)
      /\ m.long = IF u > m.upper THEN TRUE ELSE IF u < m.lower THEN FALSE ELSE p.long
      /\ n.long = IF v > n.upper THEN TRUE ELSE IF v < n.lower THEN FALSE ELSE q.long
  BY DEF FollowsUp, IsTrend
<1>3. CASE u > m.upper
  <2>1. m.long = TRUE /\ n.long = FALSE
    BY ONLY <1>1, <1>2, <1>3
  <2> QED BY ONLY <2>1 DEF OnTwoSides
<1>4. CASE u < m.lower
  <2>1. m.long = FALSE /\ n.long = TRUE
    BY ONLY <1>1, <1>2, <1>4
  <2> QED BY ONLY <2>1 DEF OnTwoSides
<1>5. CASE ~(u > m.upper) /\ ~(u < m.lower)
  <2>1. m.long = p.long /\ n.long = q.long
    BY ONLY <1>1, <1>2, <1>5
  <2> QED BY ONLY <2>1 DEF OnTwoSides, OnOneSide
<1> QED BY <1>3, <1>4, <1>5

\* The middles of two candles.
LEMMA MiddlesTurned ==
    ASSUME ExactScale, NEW k, IsBar(k), NEW j, IsBar(j), Facing(k, j)
    PROVE  AddUp(Middle(k), Middle(j), Level)
<1>1. PICK h \in Nat, l \in Nat : h = k.high /\ l = k.low
  BY DEF IsBar
<1>2. PICK g \in Nat, m \in Nat : g = j.high /\ m = j.low
  BY DEF IsBar
<1>3. PICK x \in Int : x = Axis
  BY AxisIs
<1>4. AddUp(h + l, g + m, 2 * x)
  <2>1. AddUp(h, m, x) /\ AddUp(l, g, x)
    BY <1>1, <1>2, <1>3 DEF Facing
  <2> QED BY ONLY <2>1, x \in Int DEF AddUp
<1>5. AddUp(Scale * (h + l), Scale * (g + m), Scale * (2 * x))
  <2>1. Scale \in Int /\ 2 * x \in Int
    BY AxisIs
  <2> QED BY <1>4, <2>1, AddUpTimes
<1>6. PICK a \in Int : a = Middle(k) /\ a * 2 = Scale * (h + l)
  BY <1>1, MiddleIs DEF IsBar
<1>7. PICK b \in Int : b = Middle(j) /\ b * 2 = Scale * (g + m)
  BY <1>2, MiddleIs DEF IsBar
<1>8. PICK y \in Int : y = Level /\ Scale * (2 * x) = 2 * y
  <2>1. Scale \in Int /\ Level = Scale * x
    BY <1>3, AxisIs DEF Level
  <2> QED BY <2>1
<1>9. a + b = y
  <2>1. AddUp(a * 2, b * 2, 2 * y)
    BY <1>5, <1>6, <1>7, <1>8
  <2> QED BY ONLY <2>1, a \in Int, b \in Int, y \in Int DEF AddUp
<1> QED BY <1>6, <1>7, <1>8, <1>9 DEF AddUp

\* The first bands, and the next ones.
LEMMA BandsBegin ==
    ASSUME NEW k, NEW j, AddUp(Middle(k), Middle(j), Level), NEW r \in Int,
           NEW p, p = SupertrendStart(k, r), NEW q, q = SupertrendStart(j, r)
    PROVE  BandsOpposed(p, q) /\ OnOneSide(p, q)
<1>1. PICK a, b : a = Middle(k) /\ b = Middle(j) /\ AddUp(a, b, Level)
  OBVIOUS
<1>2. /\ p = [upper |-> a + r, lower |-> a - r, long |-> TRUE, value |-> a - r]
      /\ q = [upper |-> b + r, lower |-> b - r, long |-> TRUE, value |-> b - r]
  BY <1>1, Zenon DEF SupertrendStart, Middle
<1>3. AddUp(a + r, b - r, Level) /\ AddUp(a - r, b + r, Level)
  BY ONLY <1>1, r \in Int DEF AddUp
<1> QED BY <1>2, <1>3 DEF BandsOpposed, OnOneSide

\* Another bar does.
LEMMA BandsNext ==
    ASSUME NEW p, NEW q, BandsOpposed(p, q), NEW e, NEW f, AddUp(Scale * e.close, Scale * f.close, Level),
           NEW k, NEW j, AddUp(Middle(k), Middle(j), Level), NEW r \in Int,
           NEW m, m = SupertrendNext(p, e, k, r), NEW n, n = SupertrendNext(q, f, j, r)
    PROVE  BandsOpposed(m, n)
<1>1. PICK a, b : a = Middle(k) /\ b = Middle(j) /\ AddUp(a, b, Level)
  OBVIOUS
<1>2. /\ m = SupertrendStep(p, Scale * e.close, k, a + r, a - r)
      /\ n = SupertrendStep(q, Scale * f.close, j, b + r, b - r)
  BY <1>1, Zenon DEF SupertrendNext, Middle
<1>3. AddUp(a + r, b - r, Level) /\ AddUp(a - r, b + r, Level)
  BY ONLY <1>1, r \in Int DEF AddUp
<1> QED BY <1>2, <1>3, BandsGoOn

\* The closes of two candles.
LEMMA ScaledClosesFace ==
    ASSUME NEW k, NEW j, Facing(k, j)
    PROVE  AddUp(Scale * k.close, Scale * j.close, Level)
<1>1. AddUp(k.close, j.close, Axis) /\ Axis \in Int /\ Scale \in Int
  BY AxisIs DEF Facing
<1> QED BY <1>1, AddUpTimes DEF Level

\* The sides of two trends, bar by bar: the same for a while, if at all, opposite from then on.
SidesGo(x, y, k) ==
    /\ \A i \in 1..k : x[i].long \in BOOLEAN /\ y[i].long \in BOOLEAN
    /\ \A i \in 1..(k - 1) :
          /\ OnTwoSides(x[i], y[i]) => OnTwoSides(x[i + 1], y[i + 1])
          /\ OnOneSide(x[i], y[i]) => OnTwoSides(x[i + 1], y[i + 1]) \/ OnOneSide(x[i + 1], y[i + 1])

\* A Supertrend and its image, bar by bar.
LEMMA TrendsTurned ==
    ASSUME ExactScale, StopParameters, NEW c, NEW d, Mirrored(c, d), NEW n \in Nat \ {0}, n = P.supertrend.period,
           n < Len(c), NEW x, x = Supertrend(c, n, P.supertrend.factor), NEW y, y = Supertrend(d, n, P.supertrend.factor)
    PROVE  /\ Sequence(x) /\ Sequence(y) /\ Len(x) = Len(c) - n /\ Len(y) = Len(c) - n
           /\ OnOneSide(x[1], y[1])
           /\ SidesGo(x, y, Len(c) - n)
<1>1. PICK l \in Nat : l = Len(c) /\ Len(d) = l /\ n < l
  BY LatestFace
<1>2. Proper(c) /\ Proper(d) /\ AllFacing(c, d) /\ n \in Periods
  BY DEF Mirrored, Periods
<1>3. PICK f \in Nat : f = P.supertrend.factor
  BY DEF StopParameters
<1>4. PICK a : a = ATR(c, n) /\ a = ATR(d, n) /\ \A i \in 1..(l - n) : a[i] \in Nat
  BY <1>1, <1>2, TrueRangesTurned, ATROnGrid
<1>5. /\ TrendOf(c, n, f, a, x)
      /\ \A i \in 1..(l - n) : IsTrend(x[i])
      /\ \A i \in 1..(l - n - 1) : FollowsUp(x[i], x[i + 1], Scale * c[n + i].close, Scale * c[n + i + 1].close)
  BY <1>1, <1>2, <1>3, <1>4, SupertrendStops
<1>6. /\ TrendOf(d, n, f, a, y)
      /\ \A i \in 1..(l - n) : IsTrend(y[i])
      /\ \A i \in 1..(l - n - 1) : FollowsUp(y[i], y[i + 1], Scale * d[n + i].close, Scale * d[n + i + 1].close)
  BY <1>1, <1>2, <1>3, <1>4, SupertrendStops
<1>7. ASSUME NEW i \in 1..l
      PROVE  AddUp(Middle(c[i]), Middle(d[i]), Level) /\ AddUp(Scale * c[i].close, Scale * d[i].close, Level)
  <2>1. Facing(c[i], d[i])
    BY <1>1, <1>2 DEF AllFacing
  <2>2. IsBar(c[i]) /\ IsBar(d[i])
    BY <1>1, <1>2, BarsAre
  <2> QED BY <2>1, <2>2, MiddlesTurned, ScaledClosesFace
<1>8. \A i \in 1..(l - n) : f * a[i] \in Int
  BY <1>4
<1>9. BandsOpposed(x[1], y[1]) /\ OnOneSide(x[1], y[1])
  <2>1. 1 \in 1..(l - n) /\ n + 1 \in 1..l
    BY <1>1
  <2>2. x[1] = SupertrendStart(c[n + 1], f * a[1]) /\ y[1] = SupertrendStart(d[n + 1], f * a[1])
    BY <1>5, <1>6 DEF TrendOf
  <2>3. AddUp(Middle(c[n + 1]), Middle(d[n + 1]), Level) /\ f * a[1] \in Int
    BY <1>7, <1>8, <2>1
  <2> QED BY <2>2, <2>3, BandsBegin
<1>10. ASSUME NEW i \in 1..(l - n - 1), BandsOpposed(x[i], y[i])
       PROVE  BandsOpposed(x[i + 1], y[i + 1])
  <2>1. i + 1 \in 1..(l - n) /\ n + i \in 1..l /\ n + i + 1 \in 1..l
    BY ONLY <1>1, n \in Nat \ {0}, l \in Nat, i \in 1..(l - n - 1)
  <2>2. /\ x[i + 1] = SupertrendNext(x[i], c[n + i], c[n + i + 1], f * a[i + 1])
        /\ y[i + 1] = SupertrendNext(y[i], d[n + i], d[n + i + 1], f * a[i + 1])
    BY <1>1, <1>5, <1>6 DEF TrendOf
  <2>3. /\ AddUp(Scale * c[n + i].close, Scale * d[n + i].close, Level)
        /\ AddUp(Middle(c[n + i + 1]), Middle(d[n + i + 1]), Level) /\ f * a[i + 1] \in Int
    BY <1>7, <1>8, <2>1
  <2>4. PICK r \in Int : r = f * a[i + 1]
    BY <2>3
  <2> QED BY ONLY <1>10, <2>2, <2>3, <2>4, r \in Int, BandsNext
<1> DEFINE T == {i \in 0..(l - n - 1) : BandsOpposed(x[i + 1], y[i + 1])}
<1>11. l - n - 1 \in Nat
  BY <1>1
<1>12. 0 \in T
  BY <1>9, <1>11
<1>13. ASSUME NEW i \in 0..(l - n - 1 - 1), i \in T PROVE i + 1 \in T
  <2>1. i + 1 \in 1..(l - n - 1) /\ i + 1 \in 0..(l - n - 1)
    BY <1>11, SMTT(60)
  <2>2. BandsOpposed(x[i + 1], y[i + 1])
    BY <1>13
  <2>3. BandsOpposed(x[i + 1 + 1], y[i + 1 + 1])
    BY <1>10, <2>1, <2>2
  <2> QED BY <2>1, <2>3
<1>14. ASSUME NEW i \in 1..(l - n) PROVE BandsOpposed(x[i], y[i])
  <2>1. i - 1 \in 0..(l - n - 1) /\ i - 1 + 1 = i
    BY <1>11
  <2>2. i - 1 \in T
    <3> HIDE DEF T
    <3> QED BY <1>11, <1>12, <1>13, <2>1, InductionUpTo
  <2> QED BY <2>1, <2>2
<1>15. ASSUME NEW i \in 1..(l - n - 1)
       PROVE  /\ OnTwoSides(x[i], y[i]) => OnTwoSides(x[i + 1], y[i + 1])
              /\ OnOneSide(x[i], y[i]) => OnTwoSides(x[i + 1], y[i + 1]) \/ OnOneSide(x[i + 1], y[i + 1])
  <2>1. i + 1 \in 1..(l - n) /\ i \in 1..(l - n) /\ n + i + 1 \in 1..l
    BY <1>1, SMTT(60)
  <2>2. BandsOpposed(x[i + 1], y[i + 1]) /\ IsTrend(x[i]) /\ IsTrend(y[i]) /\ IsTrend(x[i + 1]) /\ IsTrend(y[i + 1])
    BY <1>5, <1>6, <1>14, <2>1
  <2>3. AddUp(Scale * c[n + i + 1].close, Scale * d[n + i + 1].close, Level)
    BY <1>7, <2>1
  <2>4. /\ FollowsUp(x[i], x[i + 1], Scale * c[n + i].close, Scale * c[n + i + 1].close)
        /\ FollowsUp(y[i], y[i + 1], Scale * d[n + i].close, Scale * d[n + i + 1].close)
    BY <1>5, <1>6
  <2> QED BY ONLY <2>2, <2>3, <2>4, SidesGoOn
<1>16. Sequence(x) /\ Sequence(y) /\ Len(x) = l - n /\ Len(y) = l - n
  BY <1>1, <1>5, <1>6, SMTT(60) DEF TrendOf
<1>17. \A i \in 1..(l - n) : x[i].long \in BOOLEAN /\ y[i].long \in BOOLEAN
  BY <1>5, <1>6 DEF IsTrend
<1>18. SidesGo(x, y, l - n)
  BY ONLY <1>15, <1>17 DEF SidesGo
<1> QED BY <1>1, <1>9, <1>16, <1>18

-----------------------------------------------------------------------------
(* Votes for a side that has just changed *)

\* They are opposite where the sides are.
LEMMA FlipTurned ==
    ASSUME NEW x, NEW y, Len(y) = Len(x),
           Len(x) >= 2 => OnTwoSides(Latest(x), Latest(y)) /\ OnTwoSides(Before(x), Before(y))
    PROVE  FlipVote(y) = Opposite(FlipVote(x))
<1>1. CASE Len(x) >= 2
  <2>1. /\ Latest(x).long \in BOOLEAN /\ Latest(y).long \in BOOLEAN /\ (Latest(x).long <=> ~Latest(y).long)
        /\ Before(x).long \in BOOLEAN /\ Before(y).long \in BOOLEAN /\ (Before(x).long <=> ~Before(y).long)
    BY <1>1 DEF OnTwoSides
  <2> QED BY ONLY <1>1, Len(y) = Len(x), <2>1 DEF FlipVote, Vote, Opposite, Flat, Long, Short
<1>2. CASE ~(Len(x) >= 2)
  BY ONLY <1>2, Len(y) = Len(x) DEF FlipVote, Vote, Opposite, Flat, Long, Short
<1> QED BY <1>1, <1>2

\* The Supertrend: it begins with a long side in either market.
LEMMA SupertrendTurned ==
    ASSUME ExactScale, StopParameters, NEW c, NEW d, Mirrored(c, d),
           NEW x, x = Supertrend(c, P.supertrend.period, P.supertrend.factor),
           NEW y, y = Supertrend(d, P.supertrend.period, P.supertrend.factor)
    PROVE  SupertrendVote(y) = Opposite(SupertrendVote(x)) \/ \A i \in 1..(Len(x) - 1) : x[i].long /\ y[i].long
<1>1. PICK n \in Nat \ {0} : n = P.supertrend.period
  BY PeriodsOK
<1>2. PICK l \in Nat \ {0} : l = Len(c) /\ Len(d) = l
  BY LatestFace
<1>3. Sequence(c) /\ Sequence(d)
  BY DEF Mirrored, AllFacing
<1>4. Len(x) = (IF l <= n THEN 0 ELSE l - n) /\ Len(y) = Len(x)
  BY <1>1, <1>2, <1>3, SupertrendLong, SMTT(60)
<1>5. SUFFICES ASSUME n < l, NEW j \in 1..(Len(x) - 1), ~(x[j].long /\ y[j].long)
               PROVE  SupertrendVote(y) = Opposite(SupertrendVote(x))
  <2>1. CASE ~(n < l)
    <3>1. Len(x) = 0
      BY ONLY <1>4, <2>1, l \in Nat \ {0}, n \in Nat \ {0}
    <3>2. ~(Len(x) >= 2)
      BY ONLY <3>1
    <3> QED BY <1>4, <3>2, FlipTurned DEF SupertrendVote
  <2> QED BY <1>5, <2>1
<1>6. PICK k \in Nat \ {0} : k = l - n /\ Len(x) = k /\ Len(y) = k /\ j \in 1..(k - 1)
  <2>1. l - n \in Nat \ {0} /\ ~(l <= n)
    BY <1>5
  <2> QED BY <1>4, <1>5, <2>1
<1>7. /\ OnOneSide(x[1], y[1])
      /\ \A i \in 1..k : x[i].long \in BOOLEAN /\ y[i].long \in BOOLEAN
      /\ \A i \in 1..(k - 1) :
            /\ OnTwoSides(x[i], y[i]) => OnTwoSides(x[i + 1], y[i + 1])
            /\ OnOneSide(x[i], y[i]) => OnTwoSides(x[i + 1], y[i + 1]) \/ OnOneSide(x[i + 1], y[i + 1])
  <2>1. n < Len(c) /\ n = P.supertrend.period /\ Len(c) - n = k
    BY <1>1, <1>2, <1>5, <1>6
  <2>2. x = Supertrend(c, n, P.supertrend.factor) /\ y = Supertrend(d, n, P.supertrend.factor)
    BY ONLY <2>1, x = Supertrend(c, P.supertrend.period, P.supertrend.factor),
            y = Supertrend(d, P.supertrend.period, P.supertrend.factor), Zenon
  <2>3. OnOneSide(x[1], y[1]) /\ SidesGo(x, y, Len(c) - n)
    BY ONLY <2>1, <2>2, ExactScale, StopParameters, Mirrored(c, d), n \in Nat \ {0}, TrendsTurned
  <2>4. SidesGo(x, y, k)
    BY ONLY <2>1, <2>3
  <2> QED BY ONLY <2>3, <2>4 DEF SidesGo
<1> DEFINE T == {i \in 0..(j - 1) : OnTwoSides(x[i + 1], y[i + 1]) \/ OnOneSide(x[i + 1], y[i + 1])}
           U == {i \in 0..(k - j) : OnTwoSides(x[j + i], y[j + i])}
<1>8. 0 \in T
  BY <1>6, <1>7
<1>9. ASSUME NEW i \in 0..(j - 1 - 1), i \in T PROVE i + 1 \in T
  <2>1. i + 1 \in 1..(k - 1) /\ i + 1 \in 0..(j - 1)
    BY <1>6
  <2>2. OnTwoSides(x[i + 1], y[i + 1]) \/ OnOneSide(x[i + 1], y[i + 1])
    BY <1>9
  <2>3. OnTwoSides(x[i + 1 + 1], y[i + 1 + 1]) \/ OnOneSide(x[i + 1 + 1], y[i + 1 + 1])
    BY <1>7, <2>1, <2>2
  <2> QED BY <2>1, <2>3
<1>10. OnTwoSides(x[j], y[j])
  <2>1. j - 1 \in Nat /\ j - 1 \in 0..(j - 1) /\ j - 1 + 1 = j
    BY <1>6
  <2>2. j - 1 \in T
    <3> HIDE DEF T
    <3> QED BY <1>8, <1>9, <2>1, InductionUpTo
  <2>3. OnTwoSides(x[j], y[j]) \/ OnOneSide(x[j], y[j])
    BY <2>1, <2>2
  <2> QED BY <1>5, <2>3 DEF OnOneSide
<1>11. 0 \in U
  <2>1. j + 0 = j /\ 0 \in 0..(k - j)
    BY <1>6
  <2> QED BY <1>10, <2>1
<1>12. ASSUME NEW i \in 0..(k - j - 1), i \in U PROVE i + 1 \in U
  <2>1. j + i \in 1..(k - 1) /\ i + 1 \in 0..(k - j) /\ j + (i + 1) = j + i + 1
    BY <1>6
  <2>2. OnTwoSides(x[j + i], y[j + i])
    BY <1>12
  <2>3. OnTwoSides(x[j + i + 1], y[j + i + 1])
    BY <1>7, <2>1, <2>2
  <2> QED BY <2>1, <2>3
<1>13. \A i \in 0..(k - j) : OnTwoSides(x[j + i], y[j + i])
  <2>1. k - j \in Nat
    BY <1>6
  <2>2. \A i \in 0..(k - j) : i \in U
    <3> HIDE DEF U
    <3> QED BY <1>11, <1>12, <2>1, InductionUpTo
  <2> QED BY <2>2
<1>14. OnTwoSides(Latest(x), Latest(y)) /\ OnTwoSides(Before(x), Before(y))
  <2>1. k - j \in 0..(k - j) /\ k - j - 1 \in 0..(k - j) /\ j + (k - j) = k /\ j + (k - j - 1) = k - 1
    BY <1>6
  <2>2. OnTwoSides(x[k], y[k]) /\ OnTwoSides(x[k - 1], y[k - 1])
    BY <1>13, <2>1
  <2> QED BY <1>6, <2>2 DEF Latest, Before
<1> QED BY <1>4, <1>14, FlipTurned DEF SupertrendVote

-----------------------------------------------------------------------------
(* The parabolic SAR *)

\* A stop of a long trend and its image, of a short one.
StopsFace(p, q) ==
    /\ OnTwoSides(p, q) /\ q.af = p.af
    /\ AddUp(p.sar, q.sar, Level) /\ AddUp(p.ep, q.ep, Level)

\* It faces both ways.
LEMMA StopsFaceBack ==
    ASSUME NEW p, NEW q, StopsFace(p, q)
    PROVE  StopsFace(q, p)
<1>1. OnTwoSides(q, p)
  BY DEF StopsFace, OnTwoSides
<1>2. AddUp(q.sar, p.sar, Level) /\ AddUp(q.ep, p.ep, Level)
  BY AddUpBack DEF StopsFace
<1> QED BY <1>1, <1>2 DEF StopsFace

\* The higher of two prices and the lower one of their images.
LEMMA HigherTurned ==
    ASSUME NEW k, NEW a, NEW e, AddUp(a, e, k), NEW b, NEW f, AddUp(b, f, k)
    PROVE  AddUp(Higher(a, b), Lower(e, f), k) /\ (Higher(a, b) = a <=> Lower(e, f) = e)
  BY DEF AddUp, Higher, Lower

\* The steps of the two stops towards their extremes.
Drift(p, n) == Over(p.af * (p.ep - p.sar), n)
Drifts(p, n) == Drift(p, n) \in Int /\ Drift(p, n) * n = p.af * (p.ep - p.sar)
\* They are opposite.
LEMMA DriftTurned ==
    ASSUME NEW n \in Nat \ {0}, NEW p, NEW q, StopsFace(p, q), p.af \in Nat, Drifts(p, n), Drifts(q, n)
    PROVE  AddUp(p.sar + Drift(p, n), q.sar + Drift(q, n), Level)
<1>1. PICK a \in Nat : a = p.af /\ a = q.af
  BY DEF StopsFace
<1>2. PICK e \in Int : e = p.ep /\ q.ep = Level - e
  BY DEF StopsFace, AddUp
<1>3. PICK s \in Int : s = p.sar /\ q.sar = Level - s
  BY DEF StopsFace, AddUp
<1>4. PICK f \in Int : f = q.ep
  BY DEF StopsFace, AddUp
<1>5. PICK t \in Int : t = q.sar
  BY DEF StopsFace, AddUp
<1>6. PICK v \in Int : v = e - s
  BY <1>2
<1>7. PICK w \in Int : w = f - t
  BY <1>4
<1>8. Level \in Int
  BY AxisIs DEF Level
<1>9. w = -v
  BY ONLY <1>2, <1>3, <1>4, <1>5, <1>6, <1>7, <1>8, e \in Int, f \in Int, s \in Int, t \in Int
<1>10. a * v + a * w = 0
  <2>1. a * v + a * w = a * (v + w)
    BY ONLY a \in Nat, v \in Int, w \in Int
  <2>2. v + w = 0
    BY ONLY <1>9, v \in Int, w \in Int
  <2> QED BY ONLY <2>1, <2>2, a \in Nat
<1>11. PICK o \in Int : o = Drift(p, n)
  BY DEF Drifts
<1>12. PICK r \in Int : r = Drift(q, n)
  BY DEF Drifts
<1>13. o * n = a * v
  BY ONLY Drifts(p, n), <1>1, <1>2, <1>3, <1>6, <1>11 DEF Drifts
<1>14. r * n = a * w
  BY ONLY Drifts(q, n), <1>1, <1>4, <1>5, <1>7, <1>12 DEF Drifts
<1>15. r = -o
  <2>1. n * r = r * n /\ n * (-o) = -(o * n) /\ a * v \in Int /\ a * w \in Int
    BY ONLY n \in Nat \ {0}, r \in Int, o \in Int, a \in Nat, v \in Int, w \in Int
  <2>2. n * r = n * (-o)
    BY ONLY <2>1, <1>10, <1>13, <1>14
  <2>3. -o \in Int
    OBVIOUS
  <2> QED BY ONLY <2>2, <2>3, n \in Nat \ {0}, r \in Int, Cancelled
<1> QED BY ONLY <1>3, <1>5, <1>8, <1>11, <1>12, <1>15, s \in Int, t \in Int, o \in Int, r \in Int DEF AddUp

\* One more bar, seen from the long side.
LEMMA LongStepTurned ==
    ASSUME NEW par, par.step \in Nat, par.max \in Nat, par.unit \in Nat \ {0},
           NEW p, NEW q, StopsFace(p, q), p.long, p.af \in Nat, Drifts(p, par.unit), Drifts(q, par.unit),
           NEW k, NEW j, Facing(k, j), NEW x, x = SARStep(p, k, par), NEW y, y = SARStep(q, j, par)
    PROVE  StopsFace(x, y)
<1>1. PICK s, t : s = p.sar + Drift(p, par.unit) /\ t = q.sar + Drift(q, par.unit)
  OBVIOUS
<1>2. AddUp(s, t, Level)
  BY ONLY <1>1, DriftTurned, par.unit \in Nat \ {0}, StopsFace(p, q), p.af \in Nat, Drifts(p, par.unit),
          Drifts(q, par.unit)
<1>3. AddUp(Scale * k.high, Scale * j.low, Level) /\ AddUp(Scale * k.low, Scale * j.high, Level)
  <2>1. AddUp(k.high, j.low, Axis) /\ AddUp(k.low, j.high, Axis) /\ Axis \in Int /\ Scale \in Int
    BY AxisIs DEF Facing
  <2> QED BY <2>1, AddUpTimes DEF Level
<1>4. PICK h, l : h = Scale * k.high /\ l = Scale * k.low
  OBVIOUS
<1>5. PICK m, g : m = Scale * j.low /\ g = Scale * j.high
  OBVIOUS
<1>6. PICK e, f : e = Higher(p.ep, h) /\ f = Lower(q.ep, m)
  OBVIOUS
<1>7. AddUp(e, f, Level) /\ (e = p.ep <=> f = q.ep) /\ AddUp(h, m, Level) /\ AddUp(l, g, Level)
  <2>1. AddUp(p.ep, q.ep, Level)
    BY DEF StopsFace
  <2>2. AddUp(h, m, Level) /\ AddUp(l, g, Level)
    BY ONLY <1>3, <1>4, <1>5
  <2>3. AddUp(e, f, Level) /\ (e = p.ep <=> f = q.ep)
    BY ONLY <1>6, <2>1, <2>2, HigherTurned
  <2> QED BY ONLY <2>2, <2>3
<1>8. p.long = TRUE /\ q.long = FALSE /\ q.af = p.af
  BY DEF StopsFace, OnTwoSides
<1>9. l < s <=> g > t
  BY ONLY <1>2, <1>7, AddUpFlips
<1>10. CASE l < s
  <2>1. x = [sar |-> e, long |-> FALSE, af |-> par.step, ep |-> l]
    BY ONLY x = SARStep(p, k, par), <1>1, <1>4, <1>6, <1>8, <1>10 DEF SARStep, Drift
  <2>2. y = [sar |-> f, long |-> TRUE, af |-> par.step, ep |-> g]
    BY ONLY y = SARStep(q, j, par), <1>1, <1>5, <1>6, <1>8, <1>9, <1>10 DEF SARStep, Drift
  <2> QED BY ONLY <2>1, <2>2, <1>7 DEF StopsFace, OnTwoSides
<1>11. CASE ~(l < s)
  <2>1. x = [sar |-> s, long |-> TRUE, ep |-> e, af |-> IF e # p.ep THEN Lower(p.af + par.step, par.max) ELSE p.af]
    BY ONLY x = SARStep(p, k, par), <1>1, <1>4, <1>6, <1>8, <1>11 DEF SARStep, Drift
  <2>2. y = [sar |-> t, long |-> FALSE, ep |-> f, af |-> IF f # q.ep THEN Lower(q.af + par.step, par.max) ELSE q.af]
    BY ONLY y = SARStep(q, j, par), <1>1, <1>5, <1>6, <1>8, <1>9, <1>11 DEF SARStep, Drift
  <2> QED BY ONLY <2>1, <2>2, <1>2, <1>7, <1>8 DEF StopsFace, OnTwoSides
<1> QED BY <1>10, <1>11

-----------------------------------------------------------------------------

\* One more bar, whichever side the stop is on.
LEMMA SARStepTurned ==
    ASSUME NEW par, par.step \in Nat, par.max \in Nat, par.unit \in Nat \ {0},
           NEW p, NEW q, StopsFace(p, q), p.af \in Nat, Drifts(p, par.unit), Drifts(q, par.unit),
           NEW k, NEW j, Facing(k, j), NEW x, x = SARStep(p, k, par), NEW y, y = SARStep(q, j, par)
    PROVE  StopsFace(x, y)
<1>1. CASE p.long
  BY <1>1, LongStepTurned
<1>2. CASE ~p.long
  <2>1. q.long /\ q.af \in Nat
    BY <1>2 DEF StopsFace, OnTwoSides
  <2>2. StopsFace(q, p) /\ Facing(j, k)
    <3>1. Facing(j, k)
      BY AddUpBack DEF Facing
    <3> QED BY <3>1, StopsFaceBack
  <2>3. StopsFace(y, x)
    BY ONLY <2>1, <2>2, LongStepTurned, par.step \in Nat, par.max \in Nat, par.unit \in Nat \ {0},
            Drifts(p, par.unit), Drifts(q, par.unit), x = SARStep(p, k, par), y = SARStep(q, j, par)
  <2> QED BY <2>3, StopsFaceBack
<1> QED BY <1>1, <1>2

\* The first two closes decide the first side.
LEMMA SARStartTurned ==
    ASSUME NEW par, NEW a, NEW e, Facing(a, e), NEW b, NEW f, Facing(b, f), a.close # b.close,
           NEW x, x = SARStart(a, b, par), NEW y, y = SARStart(e, f, par)
    PROVE  StopsFace(x, y)
<1>1. /\ AddUp(a.close, e.close, Axis) /\ AddUp(b.close, f.close, Axis)
      /\ AddUp(a.high, e.low, Axis) /\ AddUp(a.low, e.high, Axis)
  BY DEF Facing
<1>2. AddUp(Scale * a.high, Scale * e.low, Level) /\ AddUp(Scale * a.low, Scale * e.high, Level)
  <2>1. Axis \in Int /\ Scale \in Int
    BY AxisIs
  <2> QED BY <1>1, <2>1, AddUpTimes DEF Level
<1>3. /\ b.close > a.close <=> f.close < e.close
      /\ b.close < a.close <=> f.close > e.close
      /\ b.close > a.close \/ b.close < a.close
      /\ ~(b.close > a.close /\ b.close < a.close) /\ ~(f.close > e.close /\ f.close < e.close)
  <2>1. a.close \in Int /\ b.close \in Int /\ e.close \in Int /\ f.close \in Int
    BY <1>1 DEF AddUp
  <2>2. (b.close > a.close <=> f.close < e.close) /\ (b.close < a.close <=> f.close > e.close)
    BY ONLY <1>1, AddUpFlips
  <2> QED BY ONLY <2>1, <2>2, a.close # b.close
<1>4. /\ x.af = par.step /\ y.af = par.step
      /\ x.sar = (IF b.close > a.close THEN Scale * a.low ELSE Scale * a.high)
      /\ x.ep = (IF b.close > a.close THEN Scale * a.high ELSE Scale * a.low)
      /\ y.sar = (IF f.close > e.close THEN Scale * e.low ELSE Scale * e.high)
      /\ y.ep = (IF f.close > e.close THEN Scale * e.high ELSE Scale * e.low)
  BY ONLY x = SARStart(a, b, par), y = SARStart(e, f, par) DEF SARStart
<1>5. x.long \in BOOLEAN /\ y.long \in BOOLEAN /\ (x.long <=> b.close > a.close) /\ (y.long <=> f.close > e.close)
  <2>1. x.long = (b.close > a.close)
    BY ONLY x = SARStart(a, b, par), Zenon DEF SARStart
  <2>2. y.long = (f.close > e.close)
    BY ONLY y = SARStart(e, f, par), Zenon DEF SARStart
  <2>3. (b.close > a.close) \in BOOLEAN /\ (f.close > e.close) \in BOOLEAN
    <3>1. b.close \in Int /\ a.close \in Int /\ f.close \in Int /\ e.close \in Int
      BY <1>1 DEF AddUp
    <3> QED BY ONLY <3>1
  <2> QED BY ONLY <2>1, <2>2, <2>3, Zenon
<1>6. CASE b.close > a.close
  <2>1. ~(f.close > e.close)
    BY ONLY <1>3, <1>6
  <2> QED BY ONLY <2>1, <1>2, <1>4, <1>5, <1>6 DEF StopsFace, OnTwoSides
<1>7. CASE ~(b.close > a.close)
  <2>1. f.close > e.close
    BY ONLY <1>3, <1>7
  <2> QED BY ONLY <2>1, <1>2, <1>4, <1>5, <1>7 DEF StopsFace, OnTwoSides
<1> QED BY <1>6, <1>7

\* The parabolic SAR: its sides are opposite throughout, but where the first two closes are equal.
LEMMA ParabolicTurned ==
    ASSUME ExactScale, StopParameters, NEW c, NEW d, Mirrored(c, d), 2 <= Len(c), c[1].close # c[2].close,
           NEW x, x = ParabolicSAR(c, P.parabolic_sar), NEW y, y = ParabolicSAR(d, P.parabolic_sar)
    PROVE  Len(x) = Len(c) /\ Len(y) = Len(c) /\ \A i \in 1..Len(c) : StopsFace(x[i], y[i])
<1>1. PICK l \in Nat \ {0} : l = Len(c) /\ Len(d) = l
  BY LatestFace
<1>2. Proper(c) /\ Proper(d) /\ AllFacing(c, d) /\ 2 <= l
  BY <1>1 DEF Mirrored
<1>3. PICK par : par = P.parabolic_sar
  OBVIOUS
<1>4. par.step \in Nat /\ par.max \in Nat /\ par.unit \in Nat \ {0}
  <2>1. par.unit \in Nat \ {0}
    BY <1>3 DEF ExactScale, Divisors
  <2> QED BY <2>1, <1>3 DEF StopParameters
<1>5. /\ Len(x) = l /\ x[1] = SARStart(c[1], c[2], par)
      /\ \A i \in 1..l : IsSAR(x[i])
      /\ \A i \in 1..(l - 1) : x[i + 1] = SARStep(x[i], c[i + 1], par) /\ Drifts(x[i], par.unit)
  BY <1>1, <1>2, <1>3, SARStops DEF Drifts, Drift
<1>6. /\ Len(y) = l /\ y[1] = SARStart(d[1], d[2], par)
      /\ \A i \in 1..(l - 1) : y[i + 1] = SARStep(y[i], d[i + 1], par) /\ Drifts(y[i], par.unit)
  BY <1>1, <1>2, <1>3, SARStops DEF Drifts, Drift
<1>7. \A i \in 1..l : Facing(c[i], d[i])
  BY <1>1, <1>2 DEF AllFacing
<1> DEFINE T == {i \in 0..(l - 1) : StopsFace(x[i + 1], y[i + 1])}
<1>8. 0 \in T
  <2>1. Facing(c[1], d[1]) /\ Facing(c[2], d[2]) /\ 0 \in 0..(l - 1)
    BY <1>2, <1>7
  <2>2. StopsFace(x[1], y[1])
    BY ONLY <2>1, <1>5, <1>6, c[1].close # c[2].close, SARStartTurned
  <2> QED BY <2>1, <2>2
<1>9. ASSUME NEW i \in 0..(l - 1 - 1), i \in T PROVE i + 1 \in T
  <2>1. PICK m \in 1..(l - 1) : m = i + 1
    OBVIOUS
  <2>2. m \in 1..l /\ m + 1 \in 1..l /\ m \in 0..(l - 1)
    BY <1>2
  <2>3. StopsFace(x[m], y[m])
    BY <1>9, <2>1
  <2>4. x[m + 1] = SARStep(x[m], c[m + 1], par) /\ Drifts(x[m], par.unit) /\ x[m].af \in Nat
    BY <1>5, <2>2 DEF IsSAR
  <2>5. y[m + 1] = SARStep(y[m], d[m + 1], par) /\ Drifts(y[m], par.unit) /\ Facing(c[m + 1], d[m + 1])
    BY <1>6, <1>7, <2>2
  <2>6. StopsFace(x[m + 1], y[m + 1])
    BY ONLY <1>4, <2>3, <2>4, <2>5, SARStepTurned
  <2> QED BY <2>1, <2>2, <2>6
<1>10. ASSUME NEW i \in 1..l PROVE StopsFace(x[i], y[i])
  <2>1. i - 1 \in 0..(l - 1) /\ i - 1 + 1 = i /\ l - 1 \in Nat
    OBVIOUS
  <2>2. i - 1 \in T
    <3> HIDE DEF T
    <3> QED BY <1>8, <1>9, <2>1, InductionUpTo
  <2> QED BY <2>1, <2>2
<1> QED BY <1>1, <1>5, <1>6, <1>10

\* Its votes.
LEMMA SARTurned ==
    ASSUME ExactScale, StopParameters, NEW c, NEW d, Mirrored(c, d),
           NEW x, x = ParabolicSAR(c, P.parabolic_sar), NEW y, y = ParabolicSAR(d, P.parabolic_sar)
    PROVE  ParabolicSARVote(y) = Opposite(ParabolicSARVote(x)) \/ c[1].close = c[2].close
<1>1. Len(c) \in Nat \ {0} /\ Len(d) = Len(c)
  BY LatestFace
<1>2. CASE ~(2 <= Len(c))
  <2>1. x = <<>> /\ y = <<>>
    <3>1. Len(c) < 2 /\ Len(d) < 2
      BY ONLY <1>1, <1>2
    <3> QED BY ONLY <3>1, x = ParabolicSAR(c, P.parabolic_sar), y = ParabolicSAR(d, P.parabolic_sar), Zenon
            DEF ParabolicSAR
  <2>2. Len(x) = 0 /\ Len(y) = Len(x) /\ ~(Len(x) >= 2)
    BY ONLY <2>1
  <2> QED BY <2>2, FlipTurned DEF ParabolicSARVote
<1>3. CASE 2 <= Len(c) /\ c[1].close # c[2].close
  <2>1. Len(x) = Len(c) /\ Len(y) = Len(c) /\ \A i \in 1..Len(c) : StopsFace(x[i], y[i])
    BY <1>3, ParabolicTurned
  <2>2. PICK l \in Nat \ {0} : l = Len(c) /\ l - 1 \in 1..l /\ l \in 1..l
    BY <1>1, <1>3
  <2>3. StopsFace(x[l], y[l]) /\ StopsFace(x[l - 1], y[l - 1]) /\ Len(x) = l /\ Len(y) = l
    BY ONLY <2>1, <2>2
  <2>4. OnTwoSides(Latest(x), Latest(y)) /\ OnTwoSides(Before(x), Before(y))
    BY ONLY <2>3 DEF Latest, Before, StopsFace
  <2>5. Len(y) = Len(x)
    BY <2>1
  <2> QED BY ONLY <2>4, <2>5, FlipTurned DEF ParabolicSARVote
<1> QED BY <1>2, <1>3

-----------------------------------------------------------------------------
(* All strategies *)

\* What the strategies make of a market that is turned upside down.  No trend of the
\* Supertrend has broken a band so far, in one market or the other.
LongSoFar(x, y) == \A i \in 1..(Len(x.supertrend) - 1) : x.supertrend[i].long /\ y.supertrend[i].long
VotesTurned(c, x, y, u, v) ==
    /\ v["ichimoku"] = Opposite(u["ichimoku"])
    /\ v["rsi_mean_revert"] = Opposite(u["rsi_mean_revert"]) \/ Still(c)
    /\ v["macd_cross"] = Opposite(u["macd_cross"])
    /\ v["bollinger_bands"] = Opposite(u["bollinger_bands"])
    /\ v["ema_cross"] = Opposite(u["ema_cross"])
    /\ v["scalp_ob"] = Opposite(u["scalp_ob"])
    /\ v["trend_follow"] = Opposite(u["trend_follow"])
    /\ v["breakout"] = Opposite(u["breakout"])
    /\ v["mean_revert_z"] = Opposite(u["mean_revert_z"])
    /\ v["dual_thrust"] = Opposite(u["dual_thrust"])
    /\ v["supertrend"] = Opposite(u["supertrend"]) \/ LongSoFar(x, y)
    /\ v["williams_r"] = Opposite(u["williams_r"])
    /\ v["dmi_adx"] = Opposite(u["dmi_adx"]) \/ Latest(x.dmi_adx).plusDI = Latest(x.dmi_adx).minusDI
    /\ v["parabolic_sar"] = Opposite(u["parabolic_sar"]) \/ c[1].close = c[2].close
    /\ v["hull_ma"] = Opposite(u["hull_ma"]) \/ Latest(x.hull_ma) = Before(x.hull_ma)
    /\ v["keltner_channel"] = Opposite(u["keltner_channel"])
    /\ v["donchian"] = Opposite(u["donchian"])

\* Every even strategy votes for the opposite side, but for the ties.
LEMMA EvenStrategiesTurned ==
    ASSUME ExactScale, StopParameters, EvenParameters, NEW c, NEW d, Mirrored(c, d),
           NEW b, IsBook(b), NEW e, e.bids = b.asks, e.asks = b.bids,
           NEW x, x = Series(c), NEW y, y = Series(d), NEW u, u = Votes(c, x, b), NEW v, v = Votes(d, y, e)
    PROVE  VotesTurned(c, x, y, u, v)
<1>1. v["ichimoku"] = Opposite(u["ichimoku"])
  <2>1. /\ u["ichimoku"] = IchimokuVote(c, x.ichimoku)
        /\ v["ichimoku"] = IchimokuVote(d, y.ichimoku)
    BY ONLY u = Votes(c, x, b), v = Votes(d, y, e), VotesAre
  <2>2. /\ x.ichimoku = Ichimoku(c, P.ichimoku.tenkan, P.ichimoku.kijun, P.ichimoku.senkou)
        /\ y.ichimoku = Ichimoku(d, P.ichimoku.tenkan, P.ichimoku.kijun, P.ichimoku.senkou)
    BY ONLY x = Series(c), y = Series(d), SeriesAre
  <2> QED BY ONLY <2>1, <2>2, ExactScale, EvenParameters, Mirrored(c, d), IchimokuTurned
<1>2. v["rsi_mean_revert"] = Opposite(u["rsi_mean_revert"]) \/ Still(c)
  <2>1. /\ u["rsi_mean_revert"] = RSIVote(x.rsi_mean_revert)
        /\ v["rsi_mean_revert"] = RSIVote(y.rsi_mean_revert)
    BY ONLY u = Votes(c, x, b), v = Votes(d, y, e), VotesAre
  <2>2. /\ x.rsi_mean_revert = RSI(c, P.rsi_mean_revert.period)
        /\ y.rsi_mean_revert = RSI(d, P.rsi_mean_revert.period)
    BY ONLY x = Series(c), y = Series(d), SeriesAre
  <2> QED BY ONLY <2>1, <2>2, ExactScale, EvenParameters, Mirrored(c, d), RSITurned
<1>3. v["macd_cross"] = Opposite(u["macd_cross"])
  <2>1. /\ u["macd_cross"] = MACDVote(x.macd_cross)
        /\ v["macd_cross"] = MACDVote(y.macd_cross)
    BY ONLY u = Votes(c, x, b), v = Votes(d, y, e), VotesAre
  <2>2. /\ x.macd_cross = MACD(c, P.macd_cross.fast, P.macd_cross.slow, P.macd_cross.signal)
        /\ y.macd_cross = MACD(d, P.macd_cross.fast, P.macd_cross.slow, P.macd_cross.signal)
    BY ONLY x = Series(c), y = Series(d), SeriesAre
  <2> QED BY ONLY <2>1, <2>2, ExactScale, Mirrored(c, d), MACDTurned
<1>4. v["bollinger_bands"] = Opposite(u["bollinger_bands"])
  <2>1. /\ u["bollinger_bands"] = BollingerVote(c, x.bollinger_bands)
        /\ v["bollinger_bands"] = BollingerVote(d, y.bollinger_bands)
    BY ONLY u = Votes(c, x, b), v = Votes(d, y, e), VotesAre
  <2>2. /\ x.bollinger_bands = BollingerBands(c, P.bollinger_bands.period)
        /\ y.bollinger_bands = BollingerBands(d, P.bollinger_bands.period)
    BY ONLY x = Series(c), y = Series(d), SeriesAre
  <2> QED BY ONLY <2>1, <2>2, Mirrored(c, d), BollingerTurned
<1>5. v["ema_cross"] = Opposite(u["ema_cross"])
  <2>1. /\ u["ema_cross"] = EMACrossVote(x.ema_fast, x.ema_slow)
        /\ v["ema_cross"] = EMACrossVote(y.ema_fast, y.ema_slow)
    BY ONLY u = Votes(c, x, b), v = Votes(d, y, e), VotesAre
  <2>2. /\ x.ema_fast = EMA(Closes(c), P.ema_cross.fast)
        /\ y.ema_fast = EMA(Closes(d), P.ema_cross.fast)
        /\ x.ema_slow = EMA(Closes(c), P.ema_cross.slow)
        /\ y.ema_slow = EMA(Closes(d), P.ema_cross.slow)
    BY ONLY x = Series(c), y = Series(d), SeriesAre
  <2> QED BY ONLY <2>1, <2>2, ExactScale, Mirrored(c, d), EMACrossTurned
<1>6. v["scalp_ob"] = Opposite(u["scalp_ob"])
  <2>1. /\ u["scalp_ob"] = ScalpVote(b)
        /\ v["scalp_ob"] = ScalpVote(e)
    BY ONLY u = Votes(c, x, b), v = Votes(d, y, e), VotesAre
  <2> QED BY ONLY <2>1, EvenParameters, IsBook(b), e.bids = b.asks, e.asks = b.bids, ScalpTurned
<1>7. v["trend_follow"] = Opposite(u["trend_follow"])
  <2>1. /\ u["trend_follow"] = TrendFollowVote(c, x.atr)
        /\ v["trend_follow"] = TrendFollowVote(d, y.atr)
    BY ONLY u = Votes(c, x, b), v = Votes(d, y, e), VotesAre
  <2>2. /\ x.atr = ATR(c, P.trend_follow.period)
        /\ y.atr = ATR(d, P.trend_follow.period)
    BY ONLY x = Series(c), y = Series(d), SeriesAre
  <2> QED BY ONLY <2>1, <2>2, ExactScale, EvenParameters, Mirrored(c, d), TrendFollowTurned
<1>8. v["breakout"] = Opposite(u["breakout"])
  <2>1. /\ u["breakout"] = BreakoutVote(c)
        /\ v["breakout"] = BreakoutVote(d)
    BY ONLY u = Votes(c, x, b), v = Votes(d, y, e), VotesAre
  <2> QED BY ONLY <2>1, EvenParameters, Mirrored(c, d), BreakoutTurned
<1>9. v["mean_revert_z"] = Opposite(u["mean_revert_z"])
  <2>1. /\ u["mean_revert_z"] = MeanRevertZVote(c)
        /\ v["mean_revert_z"] = MeanRevertZVote(d)
    BY ONLY u = Votes(c, x, b), v = Votes(d, y, e), VotesAre
  <2> QED BY ONLY <2>1, EvenParameters, Mirrored(c, d), MeanRevertTurned
<1>10. v["dual_thrust"] = Opposite(u["dual_thrust"])
  <2>1. /\ u["dual_thrust"] = DualThrustVote(c)
        /\ v["dual_thrust"] = DualThrustVote(d)
    BY ONLY u = Votes(c, x, b), v = Votes(d, y, e), VotesAre
  <2> QED BY ONLY <2>1, EvenParameters, Mirrored(c, d), DualThrustTurned
<1>11. v["supertrend"] = Opposite(u["supertrend"]) \/ LongSoFar(x, y)
  <2>1. /\ u["supertrend"] = SupertrendVote(x.supertrend)
        /\ v["supertrend"] = SupertrendVote(y.supertrend)
    BY ONLY u = Votes(c, x, b), v = Votes(d, y, e), VotesAre
  <2>2. /\ x.supertrend = Supertrend(c, P.supertrend.period, P.supertrend.factor)
        /\ y.supertrend = Supertrend(d, P.supertrend.period, P.supertrend.factor)
    BY ONLY x = Series(c), y = Series(d), SeriesAre
  <2> QED BY ONLY <2>1, <2>2, ExactScale, StopParameters, Mirrored(c, d), SupertrendTurned DEF LongSoFar
<1>12. v["williams_r"] = Opposite(u["williams_r"])
  <2>1. /\ u["williams_r"] = WilliamsVote(x.williams_r)
        /\ v["williams_r"] = WilliamsVote(y.williams_r)
    BY ONLY u = Votes(c, x, b), v = Votes(d, y, e), VotesAre
  <2>2. /\ x.williams_r = WilliamsR(c, P.williams_r.period)
        /\ y.williams_r = WilliamsR(d, P.williams_r.period)
    BY ONLY x = Series(c), y = Series(d), SeriesAre
  <2> QED BY ONLY <2>1, <2>2, EvenParameters, Mirrored(c, d), WilliamsTurned
<1>13. v["dmi_adx"] = Opposite(u["dmi_adx"]) \/ Latest(x.dmi_adx).plusDI = Latest(x.dmi_adx).minusDI
  <2>1. /\ u["dmi_adx"] = ADXVote(x.dmi_adx)
        /\ v["dmi_adx"] = ADXVote(y.dmi_adx)
    BY ONLY u = Votes(c, x, b), v = Votes(d, y, e), VotesAre
  <2>2. /\ x.dmi_adx = ADX(c, P.dmi_adx.period)
        /\ y.dmi_adx = ADX(d, P.dmi_adx.period)
    BY ONLY x = Series(c), y = Series(d), SeriesAre
  <2> QED BY ONLY <2>1, <2>2, ExactScale, Mirrored(c, d), ADXTurned
<1>14. v["parabolic_sar"] = Opposite(u["parabolic_sar"]) \/ c[1].close = c[2].close
  <2>1. /\ u["parabolic_sar"] = ParabolicSARVote(x.parabolic_sar)
        /\ v["parabolic_sar"] = ParabolicSARVote(y.parabolic_sar)
    BY ONLY u = Votes(c, x, b), v = Votes(d, y, e), VotesAre
  <2>2. /\ x.parabolic_sar = ParabolicSAR(c, P.parabolic_sar)
        /\ y.parabolic_sar = ParabolicSAR(d, P.parabolic_sar)
    BY ONLY x = Series(c), y = Series(d), SeriesAre
  <2> QED BY ONLY <2>1, <2>2, ExactScale, StopParameters, Mirrored(c, d), SARTurned
<1>15. v["hull_ma"] = Opposite(u["hull_ma"]) \/ Latest(x.hull_ma) = Before(x.hull_ma)
  <2>1. /\ u["hull_ma"] = HullVote(x.hull_ma)
        /\ v["hull_ma"] = HullVote(y.hull_ma)
    BY ONLY u = Votes(c, x, b), v = Votes(d, y, e), VotesAre
  <2>2. /\ x.hull_ma = HullMA(c, P.hull_ma.period, P.hull_ma.half, P.hull_ma.root)
        /\ y.hull_ma = HullMA(d, P.hull_ma.period, P.hull_ma.half, P.hull_ma.root)
    BY ONLY x = Series(c), y = Series(d), SeriesAre
  <2> QED BY ONLY <2>1, <2>2, ExactScale, Mirrored(c, d), HullTurned
<1>16. v["keltner_channel"] = Opposite(u["keltner_channel"])
  <2>1. /\ u["keltner_channel"] = KeltnerVote(c, x.keltner_channel)
        /\ v["keltner_channel"] = KeltnerVote(d, y.keltner_channel)
    BY ONLY u = Votes(c, x, b), v = Votes(d, y, e), VotesAre
  <2>2. /\ x.keltner_channel = KeltnerChannel(c, P.keltner_channel.period, P.keltner_channel.halves)
        /\ y.keltner_channel = KeltnerChannel(d, P.keltner_channel.period, P.keltner_channel.halves)
    BY ONLY x = Series(c), y = Series(d), SeriesAre
  <2> QED BY ONLY <2>1, <2>2, ExactScale, EvenParameters, Mirrored(c, d), KeltnerTurned
<1>17. v["donchian"] = Opposite(u["donchian"])
  <2>1. /\ u["donchian"] = DonchianVote(c, x.donchian)
        /\ v["donchian"] = DonchianVote(d, y.donchian)
    BY ONLY u = Votes(c, x, b), v = Votes(d, y, e), VotesAre
  <2>2. /\ x.donchian = DonchianChannel(c, P.donchian.period)
        /\ y.donchian = DonchianChannel(d, P.donchian.period)
    BY ONLY x = Series(c), y = Series(d), SeriesAre
  <2> QED BY ONLY <2>1, <2>2, Mirrored(c, d), DonchianTurned
<1> QED BY ONLY <1>1, <1>2, <1>3, <1>4, <1>5, <1>6, <1>7, <1>8, <1>9, <1>10, <1>11, <1>12, <1>13, <1>14, <1>15, <1>16, <1>17 DEF VotesTurned

-----------------------------------------------------------------------------
(* MirrorSymmetric *)

\* The votes are those of the candles and of a book that a tick has found.
Voted ==
    candles # <<>> => /\ votes = Votes(candles, series, book)
                      /\ \E k \in Sights : book = k.book

\* A market that can be turned: no price of it is more than twice the centre.
EvenMarket ==
    \A k \in Sights : k.candle.open <= Axis /\ k.candle.high <= Axis /\ IsBook(k.book)

\* The candles turned about Centre.
Image(c) == [i \in DOMAIN c |-> Upside(c[i])]

\* The votes follow every tick.
LEMMA TicksVote ==
    ASSUME Next
    PROVE  Voted'
<1>1. ASSUME NEW c, NEW k \in Sights, Tick(c, k.book) PROVE Voted'
  BY <1>1 DEF Tick, Voted
<1>2. CASE NewBar
  BY <1>1, <1>2 DEF NewBar
<1>3. CASE Slide
  BY <1>1, <1>3 DEF Slide
<1>4. CASE BarMoves
  BY <1>1, <1>4 DEF BarMoves
<1>5. CASE EmptyAnswer
  BY <1>1, <1>5 DEF EmptyAnswer
<1> QED BY <1>2, <1>3, <1>4, <1>5 DEF Next

\* ... so that this is an invariant.
LEMMA VotedHolds == Spec => []Voted
<1>1. Init => Voted
  BY DEF Init, Voted
<1>2. Voted /\ [Next]_vars => Voted'
  <2>1. Next => Voted'
    BY TicksVote
  <2>2. Voted /\ UNCHANGED vars => Voted'
    BY DEF Voted, vars
  <2> QED BY <2>1, <2>2
<1> QED BY <1>1, <1>2, PTL DEF Spec

\* A candle and its image.
LEMMA UpsideFaces ==
    ASSUME NEW k \in Candle, k.open <= Axis, k.high <= Axis, k.low <= k.close, k.close <= k.high
    PROVE  /\ Upside(k) \in Candle /\ Facing(k, Upside(k))
           /\ Upside(k).low <= Upside(k).close /\ Upside(k).close <= Upside(k).high
<1>1. k.open \in Nat /\ k.high \in Nat /\ k.low \in Nat /\ k.close \in Nat /\ k.volume \in Nat /\ Axis \in Nat
  BY AxisIs DEF Candle
<1>2. PICK m : m = Upside(k)
  OBVIOUS
<1>3. m = [open |-> Axis - k.open, high |-> Axis - k.low, low |-> Axis - k.high,
           close |-> Axis - k.close, volume |-> k.volume]
  BY <1>2 DEF Upside, Axis
<1>4. /\ Axis - k.open \in Nat /\ Axis - k.low \in Nat /\ Axis - k.high \in Nat /\ Axis - k.close \in Nat
  BY <1>1
<1>5. m \in Candle
  BY ONLY <1>1, <1>3, <1>4 DEF Candle
<1>6. m.low <= m.close /\ m.close <= m.high
  BY <1>1, <1>3
<1>7. Facing(k, m)
  BY ONLY <1>1, <1>3 DEF Facing, AddUp
<1> QED BY <1>2, <1>5, <1>6, <1>7

\* Proper candles no higher than twice the centre are turned into proper ones.
LEMMA ImageIsMirrored ==
    ASSUME NEW c, Proper(c), c # <<>>, \A i \in 1..Len(c) : c[i].open <= Axis /\ c[i].high <= Axis
    PROVE  Mirrored(c, Image(c)) /\ Image(c) # <<>>
<1>1. PICK l \in Nat : l = Len(c) /\ DOMAIN c = 1..l /\ l <= MaxBars /\ c \in Seq(Candle)
  BY DEF Proper
<1>2. l # 0
  BY <1>1
<1>3. ASSUME NEW i \in 1..l
      PROVE  c[i] \in Candle /\ c[i].low <= c[i].close /\ c[i].close <= c[i].high
  BY <1>1, <1>3 DEF Proper
<1>4. PICK d : d = Image(c)
  OBVIOUS
<1>5. d = [i \in 1..l |-> Upside(c[i])]
  BY <1>1, <1>4 DEF Image
<1>6. ASSUME NEW i \in 1..l
      PROVE  /\ d[i] \in Candle /\ Facing(c[i], d[i])
             /\ d[i].low <= d[i].close /\ d[i].close <= d[i].high
  <2>1. c[i].open <= Axis /\ c[i].high <= Axis
    BY <1>1
  <2>2. d[i] = Upside(c[i])
    BY <1>5
  <2> QED BY <1>3, <2>1, <2>2, UpsideFaces
<1>7. d \in [1..l -> Candle]
  BY <1>5, <1>6
<1>8. d \in Seq(Candle) /\ Len(d) = l
  BY <1>1, <1>7
<1>9. Proper(d)
  BY <1>1, <1>6, <1>8 DEF Proper
<1>10. Sequence(c) /\ Sequence(d)
  BY <1>1, <1>5, <1>8 DEF Sequence
<1>11. AllFacing(c, d)
  BY <1>1, <1>6, <1>8, <1>10 DEF AllFacing
<1>12. Image(c) # <<>>
  BY <1>2, <1>4, <1>8
<1> QED BY <1>1, <1>2, <1>4, <1>9, <1>11, <1>12 DEF Mirrored

\* The parts of MirrorSymmetric.
LEMMA TurnedOrTied ==
    ASSUME NEW y, NEW v, VotesTurned(candles, series, y, votes, v),
           DOMAIN candles = 1..Len(candles)
    PROVE  \A s \in Even : v[s] = Opposite(votes[s]) \/ Tie(s, series, y)
<1>1. ASSUME NEW s \in {"ichimoku", "macd_cross", "bollinger_bands", "ema_cross", "scalp_ob", "trend_follow",
                        "breakout", "mean_revert_z", "dual_thrust", "williams_r", "keltner_channel", "donchian"}
      PROVE  v[s] = Opposite(votes[s])
  BY ONLY <1>1, VotesTurned(candles, series, y, votes, v) DEF VotesTurned
<1>2. v["rsi_mean_revert"] = Opposite(votes["rsi_mean_revert"]) \/ Tie("rsi_mean_revert", series, y)
  BY DEF VotesTurned, Tie, Still
<1>3. v["dmi_adx"] = Opposite(votes["dmi_adx"]) \/ Tie("dmi_adx", series, y)
  BY DEF VotesTurned, Tie
<1>4. v["hull_ma"] = Opposite(votes["hull_ma"]) \/ Tie("hull_ma", series, y)
  BY DEF VotesTurned, Tie
<1>5. v["parabolic_sar"] = Opposite(votes["parabolic_sar"]) \/ Tie("parabolic_sar", series, y)
  BY DEF VotesTurned, Tie
<1>6. v["supertrend"] = Opposite(votes["supertrend"]) \/ Tie("supertrend", series, y)
  BY DEF VotesTurned, Tie, LongSoFar
<1> QED BY ONLY <1>1, <1>2, <1>3, <1>4, <1>5, <1>6 DEF Even

\* In a market turned upside down every even strategy votes for the opposite side, but for
\* the ties, however long the market has lasted and whatever it did: no comparison, sign,
\* band or start of one side of a strategy is missing or swapped.
THEOREM MirrorHolds ==
    ASSUME ExactScale, ProperBars, StopParameters, EvenParameters, EvenMarket
    PROVE  Spec => []MirrorSymmetric
<1>1. Invariant /\ Seen /\ Voted => MirrorSymmetric
  <2> SUFFICES ASSUME Invariant, Seen, Voted, Image(candles) # <<>>
               PROVE  LET x == Series(Image(candles))
                          v == Votes(Image(candles), x, [bids |-> book.asks, asks |-> book.bids])
                      IN \A s \in Even : v[s] = Opposite(votes[s]) \/ Tie(s, series, x)
    BY DEF MirrorSymmetric, Image
  <2>1. Proper(candles) /\ series = Series(candles)
    BY SeenIsProper DEF Invariant
  <2>2. DOMAIN candles = 1..Len(candles)
    BY DEF Invariant
  <2>3. candles # <<>>
    <3>1. CASE candles = <<>>
      <4>1. Image(candles) = <<>>
        BY <3>1 DEF Image
      <4> QED BY <4>1
    <3> QED BY <3>1
  <2>4. \A i \in 1..Len(candles) : candles[i].open <= Axis /\ candles[i].high <= Axis
    BY DEF Seen, EvenMarket
  <2>5. PICK d : d = Image(candles) /\ Mirrored(candles, d)
    BY <2>1, <2>3, <2>4, ImageIsMirrored
  <2>6. votes = Votes(candles, series, book) /\ IsBook(book)
    BY <2>3 DEF Voted, EvenMarket
  <2>7. PICK e : e = [bids |-> book.asks, asks |-> book.bids]
    OBVIOUS
  <2>8. e.bids = book.asks /\ e.asks = book.bids
    BY <2>7
  <2>9. PICK y : y = Series(d)
    OBVIOUS
  <2>10. PICK v : v = Votes(d, y, e)
    OBVIOUS
  <2>11. VotesTurned(candles, series, y, votes, v)
    BY ONLY ExactScale, StopParameters, EvenParameters, <2>1, <2>5, <2>6, <2>8, <2>9, <2>10, EvenStrategiesTurned
  <2>12. \A s \in Even : v[s] = Opposite(votes[s]) \/ Tie(s, series, y)
    BY ONLY <2>2, <2>11, TurnedOrTied
  <2> QED BY ONLY <2>5, <2>7, <2>9, <2>10, <2>12
<1> QED BY <1>1, CandlesAreSeen, VotedHolds, PTL
=============================================================================
