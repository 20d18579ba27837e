----------------------------- MODULE SignalsProofs -----------------------------
(***************************************************************************)
(* Proofs about Signals, for any parameters and any market: every series   *)
(* ends at the latest candle and never changes a value of a closed bar,    *)
(* only want of data ends the process, the latest values are what the      *)
(* indicators' definitions say, and a trailing stop is on its side.        *)
(* Averages and trailing stops are folds that append a value to a series:  *)
(* the first parts say what those compute.  The last ones do arithmetic:   *)
(* what comes out of the divisions, fractions, weighted sums.              *)
(***************************************************************************)
EXTENDS Signals, FiniteSetTheorems, SequenceTheorems, TLAPS

-----------------------------------------------------------------------------
(* Induction *)

\* Induction on natural numbers, with the property as a set T of numbers.
LEMMA NatSetInduction ==
    ASSUME NEW T, 0 \in T, \A n \in Nat : n \in T => n + 1 \in T
    PROVE  \A n \in Nat : n \in T
<1> SUFFICES ASSUME NEW m \in Nat, m \notin T PROVE FALSE
  OBVIOUS
<1> DEFINE M == 0..m
           U == {0..k : k \in {j \in M : j \notin T}}
           R == StrictSubsetOrdering(M)
<1>1. IsWellFoundedOn(R, SUBSET M)
  <2>1. IsFiniteSet(M)
    BY FS_Interval
  <2> HIDE DEF M
  <2> QED BY <2>1, FS_StrictSubsetOrderingWellFounded, FS_FiniteSubsetsOfFinite
<1>2. U \subseteq SUBSET M /\ U # {}
  OBVIOUS
<1>3. PICK u \in U : \A v \in U : <<v, u>> \notin R
  <2> HIDE DEF R, U, M
  <2> QED BY <1>1, <1>2, WFMin
<1>4. PICK k \in M : k \notin T /\ u = 0..k
  BY <1>3
<1>5. k # 0 /\ k - 1 \in M /\ k - 1 \notin T
  BY <1>4
<1>6. 0..k - 1 \in U
  BY <1>5
<1>7. 0..k - 1 \subseteq u /\ k \in u /\ k \notin 0..k - 1
  BY <1>4, <1>5
<1>8. <<0..k - 1, u>> \in R
  BY <1>2, <1>6, <1>7 DEF StrictSubsetOrdering
<1> QED BY <1>3, <1>6, <1>8

\* A set of numbers up to n that is not empty has a largest element.
LEMMA MaxExists ==
    ASSUME NEW n \in Nat, NEW t \in SUBSET (1..n), t # {}
    PROVE  Max(t) \in t /\ \A y \in t : Max(t) >= y
<1> DEFINE T == {i \in Nat : \A s \in SUBSET (1..n) : s # {} /\ s \subseteq 1..i =>
                               \E x \in s : \A y \in s : x >= y}
<1>1. 0 \in T
  <2>1. 1..0 = {}
    OBVIOUS
  <2> QED BY <2>1
<1>2. ASSUME NEW i \in Nat, i \in T PROVE i + 1 \in T
  <2> SUFFICES ASSUME NEW s \in SUBSET (1..n), s # {}, s \subseteq 1..(i + 1)
               PROVE  \E x \in s : \A y \in s : x >= y
    OBVIOUS
  <2>1. CASE i + 1 \in s
    BY <2>1
  <2>2. CASE i + 1 \notin s
    <3>1. s \subseteq 1..i
      BY <2>2
    <3> QED BY <1>2, <3>1
  <2> QED BY <2>1, <2>2
<1>3. n \in T
  <2> HIDE DEF T
  <2> QED BY <1>1, <1>2, NatSetInduction
<1>4. \E x \in t : \A y \in t : x >= y
  BY <1>3
<1> QED BY <1>4 DEF Max

-----------------------------------------------------------------------------
(* Folds *)

\* The value a series goes on with, for an element x; d is what the indicator is given.
Stepped(k, d, x, a) ==
    CASE k = "sma" -> a + d.v[x] - d.v[x - d.n]
      [] k = "ema" -> Over(2 * x + (d - 1) * a, d + 1)
      [] k = "wilder" -> Over((d - 1) * a + x, d)
      [] k = "smooth" -> a - Over(a, d) + x
      [] k = "adx" -> Divided(Plus(Times(a, d - 1), x), Frac(d, 1))
      [] k = "sar" -> SARStep(a, x, d)
      [] OTHER -> SupertrendNext(a, d.c[x + d.offset - 1], d.c[x + d.offset], d.factor * d.atr[x])

\* The folds that keep one value only.
Plain == {"sum", "times", "highest", "lowest", "most", "least", "plus"}
Gathered(k, d, x, a) ==
    CASE k = "sum" -> a + x
      [] k = "times" -> a * d
      [] k = "highest" -> Higher(a, x[d])
      [] k = "lowest" -> Lower(a, x[d])
      [] k = "most" -> IF Less(a, x) THEN x ELSE a
      [] k = "least" -> IF Less(x, a) THEN x ELSE a
      [] OTHER -> Plus(a, x)

\* A fold takes an element in, or appends a value to the series.
Combine(k, d, x, a) ==
    IF k \in Plain THEN Gathered(k, d, x, a) ELSE Append(a, Stepped(k, d, x, Latest(a)))

\* g folds the parts of the sequence q, S are their positions, from the base b.
Folding(k, d, q, b, S, g) ==
    g = [t \in SUBSET S |-> IF t = {} THEN b ELSE Combine(k, d, q[Max(t)], g[t \ {Max(t)}])]

\* The subsets of up to n elements.
UpTo(S, n) == {s \in SUBSET S : Cardinality(s) <= n}

\* One element fewer is one size smaller.
LEMMA OneLess ==
    ASSUME NEW S, IsFiniteSet(S), NEW n \in Nat, NEW s \in UpTo(S, n + 1), NEW x \in s
    PROVE  s \ {x} \in UpTo(S, n) /\ s \ {x} \in UpTo(S, n + 1)
<1>1. IsFiniteSet(s) /\ s \in SUBSET S /\ Cardinality(s) <= n + 1 /\ Cardinality(s) \in Nat
  BY FS_Subset, FS_CardinalityType DEF UpTo
<1>2. Cardinality(s \ {x}) = Cardinality(s) - 1
  BY <1>1, FS_RemoveElement
<1> QED BY <1>1, <1>2 DEF UpTo

\* There is such a g, and so CHOOSE finds it, when what is taken is there.
LEMMA FoldingExists ==
    ASSUME NEW k, NEW d, NEW q, NEW b, NEW S, IsFiniteSet(S),
           \A t \in SUBSET S : t # {} => Max(t) \in t
    PROVE  \E g : Folding(k, d, q, b, S, g)
<1> DEFINE Value(g, t) == IF t = {} THEN b ELSE Combine(k, d, q[Max(t)], g[t \ {Max(t)}])
           Is(g, n) == g = [t \in UpTo(S, n) |-> Value(g, t)]
           T == {n \in Nat : \E g : Is(g, n)}
<1>1. 0 \in T
  <2>1. UpTo(S, 0) = {{}}
    BY FS_Subset, FS_EmptySet, FS_CardinalityType DEF UpTo
  <2>2. Is([t \in UpTo(S, 0) |-> b], 0)
    BY <2>1
  <2> QED BY <2>2
<1>2. ASSUME NEW n \in Nat, n \in T PROVE n + 1 \in T
  <2>1. PICK g : Is(g, n)
    BY <1>2
  <2> DEFINE h == [t \in UpTo(S, n + 1) |-> Value(g, t)]
  <2>2. ASSUME NEW t \in UpTo(S, n + 1), t # {}
        PROVE  h[t \ {Max(t)}] = g[t \ {Max(t)}]
    <3>1. Max(t) \in t
      BY <2>2 DEF UpTo
    <3>2. PICK r : r = t \ {Max(t)}
      OBVIOUS
    <3>3. r \in UpTo(S, n) /\ r \in UpTo(S, n + 1)
      BY <3>1, <3>2, OneLess
    <3> HIDE DEF Value
    <3>4. g[r] = Value(g, r) /\ h[r] = Value(g, r)
      BY <2>1, <3>3
    <3> QED BY <3>2, <3>4
  <2>3. \A t \in UpTo(S, n + 1) : Value(h, t) = Value(g, t)
    <3> HIDE DEF h
    <3> QED BY <2>2
  <2>4. Is(h, n + 1)
    <3> HIDE DEF Value
    <3> QED BY <2>3
  <2> HIDE DEF Is, h
  <2> QED BY <2>4
<1>3. PICK n \in Nat : n = Cardinality(S)
  BY FS_CardinalityType
<1>4. \E g : Is(g, n)
  <2>1. n \in T
    <3> HIDE DEF T
    <3> QED BY <1>1, <1>2, NatSetInduction
  <2> QED BY <2>1
<1>5. UpTo(S, n) = SUBSET S
  BY <1>3, FS_Subset DEF UpTo
<1> QED BY <1>4, <1>5 DEF Folding

\* What a fold of the sequence q is.
FoldOf(k, d, q, b) == (CHOOSE g : Folding(k, d, q, b, DOMAIN q, g))[DOMAIN q]

\* What the first i elements give.
StepByStep(k, d, q, b, n, g) ==
    /\ g[1..0] = b
    /\ \A i \in Nat : i + 1 <= n => g[1..(i + 1)] = Combine(k, d, q[i + 1], g[1..i])

\* The first i elements give what the first i - 1 gave and the next.
LEMMA FromTheLeft ==
    ASSUME NEW k, NEW d, NEW q, NEW b, NEW n \in Nat, DOMAIN q = 1..n
    PROVE  \E g : FoldOf(k, d, q, b) = g[1..n] /\ StepByStep(k, d, q, b, n, g)
<1>1. \A t \in SUBSET (1..n) : t # {} => Max(t) \in t
  BY MaxExists
<1>2. IsFiniteSet(1..n)
  BY FS_Interval
<1>3. \E g : Folding(k, d, q, b, 1..n, g)
  BY <1>1, <1>2, FoldingExists
<1>4. PICK g : Folding(k, d, q, b, 1..n, g) /\ FoldOf(k, d, q, b) = g[1..n]
  BY <1>3 DEF FoldOf
<1>5. g[1..0] = b
  <2>1. 1..0 = {} /\ 1..0 \in SUBSET (1..n)
    OBVIOUS
  <2> QED BY <1>4, <2>1 DEF Folding
<1>6. ASSUME NEW i \in Nat, i + 1 <= n
      PROVE  g[1..(i + 1)] = Combine(k, d, q[i + 1], g[1..i])
  <2>1. /\ 1..(i + 1) \in SUBSET (1..n) /\ 1..(i + 1) # {} /\ i + 1 \in 1..(i + 1)
        /\ (1..(i + 1)) \ {i + 1} = 1..i
    BY <1>6
  <2>2. Max(1..(i + 1)) \in 1..(i + 1) /\ \A y \in 1..(i + 1) : Max(1..(i + 1)) >= y
    BY <2>1, MaxExists
  <2>3. Max(1..(i + 1)) = i + 1
    BY <2>1, <2>2
  <2> QED BY <1>4, <2>1, <2>3 DEF Folding
<1> QED BY <1>4, <1>5, <1>6 DEF StepByStep

-----------------------------------------------------------------------------
(* Sequences of anything *)

Sequence(s) == \E T : s \in Seq(T)

\* A list by position is a sequence.
LEMMA Listed ==
    ASSUME NEW m \in Nat, NEW f, f = [i \in 1..m |-> f[i]]
    PROVE  Sequence(f) /\ Len(f) = m /\ DOMAIN f = 1..m
<1>1. PICK T : T = {f[i] : i \in 1..m}
  OBVIOUS
<1>2. f \in [1..m -> T]
  BY <1>1
<1>3. f \in Seq(T) /\ Len(f) = m
  BY <1>2
<1> QED BY <1>2, <1>3 DEF Sequence

\* What a sequence of anything has in common with one of typed elements.
LEMMA SequenceIs ==
    ASSUME NEW s, Sequence(s)
    PROVE  /\ Len(s) \in Nat /\ DOMAIN s = 1..Len(s) /\ s = [i \in 1..Len(s) |-> s[i]]
           /\ s = <<>> <=> Len(s) = 0
<1>1. PICK T : s \in Seq(T)
  BY DEF Sequence
<1> QED BY <1>1

\* What Append adds, and what it keeps.
LEMMA Appended ==
    ASSUME NEW s, Sequence(s), NEW v
    PROVE  /\ Sequence(Append(s, v)) /\ Len(Append(s, v)) = Len(s) + 1
           /\ \A i \in 1..Len(s) : Append(s, v)[i] = s[i]
           /\ Append(s, v)[Len(s) + 1] = v
<1>1. PICK T : s \in Seq(T)
  BY DEF Sequence
<1>2. PICK U : U = T \cup {v}
  OBVIOUS
<1>3. s \in Seq(U) /\ v \in U
  <2>1. T \subseteq U /\ v \in U
    BY <1>2
  <2> QED BY <1>1, <2>1, SeqMonotonic
<1>4. Append(s, v) \in Seq(U) /\ Len(Append(s, v)) = Len(s) + 1
  BY <1>3
<1>5. /\ \A i \in 1..Len(s) : Append(s, v)[i] = s[i]
      /\ Append(s, v)[Len(s) + 1] = v
  BY <1>3
<1> QED BY <1>4, <1>5 DEF Sequence

\* The elements of a part of a sequence.
LEMMA Part ==
    ASSUME NEW s, Sequence(s), NEW i \in Nat \ {0}, NEW j \in Nat, j <= Len(s), i <= j + 1
    PROVE  /\ Sequence(SubSeq(s, i, j)) /\ Len(SubSeq(s, i, j)) = j - i + 1
           /\ \A k \in 1..(j - i + 1) : SubSeq(s, i, j)[k] = s[i + k - 1]
<1>1. PICK T : s \in Seq(T)
  BY DEF Sequence
<1>2. SubSeq(s, i, j) \in Seq(T)
  BY <1>1
<1>3. Len(SubSeq(s, i, j)) = j - i + 1
  BY <1>1
<1>4. \A k \in 1..(j - i + 1) : SubSeq(s, i, j)[k] = s[i + k - 1]
  BY <1>1
<1> QED BY <1>2, <1>3, <1>4 DEF Sequence

\* Sequences of the same elements are the same.
LEMMA SameElements ==
    ASSUME NEW s, NEW t, Sequence(s), Sequence(t), Len(s) = Len(t),
           \A i \in 1..Len(s) : s[i] = t[i]
    PROVE  s = t
BY SequenceIs

-----------------------------------------------------------------------------
(* Series that a fold appends to *)

\* r begins with a and goes on with a value for each element of q.
Grown(k, d, q, a, r) ==
    /\ Sequence(r) /\ Len(r) = Len(q) + 1 /\ r[1] = a
    /\ \A i \in 1..Len(q) : r[i + 1] = Stepped(k, d, q[i], r[i])

\* A series grows by one value with each element that the fold takes.
LEMMA GrowsAlong ==
    ASSUME NEW k, k \notin Plain, NEW d, NEW q, Sequence(q), NEW a
    PROVE  Grown(k, d, q, a, FoldOf(k, d, q, <<a>>))
<1>1. PICK n \in Nat : n = Len(q) /\ DOMAIN q = 1..n
  BY SequenceIs
<1>2. PICK g : FoldOf(k, d, q, <<a>>) = g[1..n] /\ StepByStep(k, d, q, <<a>>, n, g)
  BY <1>1, FromTheLeft
<1> DEFINE Good(i) == /\ Sequence(g[1..i]) /\ Len(g[1..i]) = i + 1 /\ g[1..i][1] = a
                      /\ \A j \in 1..i : g[1..i][j + 1] = Stepped(k, d, q[j], g[1..i][j])
           T == {i \in Nat : i <= n => Good(i)}
<1>3. 0 \in T
  <2>1. g[1..0] = <<a>>
    BY <1>2 DEF StepByStep
  <2>2. PICK s : s = <<a>>
    OBVIOUS
  <2>3. s \in Seq({a}) /\ Len(s) = 1 /\ s[1] = a
    BY <2>2
  <2>4. Sequence(s)
    BY <2>3 DEF Sequence
  <2>5. Good(0)
    <3>1. \A j \in 1..0 : FALSE
      OBVIOUS
    <3> QED BY <2>1, <2>2, <2>3, <2>4, <3>1
  <2> HIDE DEF Good
  <2> QED BY <2>5
<1>4. ASSUME NEW i \in Nat, i \in T PROVE i + 1 \in T
  <2> SUFFICES ASSUME i + 1 <= n PROVE Good(i + 1)
    OBVIOUS
  <2>1. PICK s : s = g[1..i]
    OBVIOUS
  <2>2. /\ Sequence(s) /\ Len(s) = i + 1 /\ s[1] = a
        /\ \A j \in 1..i : s[j + 1] = Stepped(k, d, q[j], s[j])
    BY <1>4, <2>1
  <2>3. PICK v : v = Stepped(k, d, q[i + 1], s[i + 1])
    OBVIOUS
  <2>4. PICK t : t = g[1..(i + 1)]
    OBVIOUS
  <2>5. t = Append(s, v)
    BY <1>2, <2>1, <2>2, <2>3, <2>4 DEF StepByStep, Combine, Latest
  <2>6. /\ Sequence(t) /\ Len(t) = i + 2 /\ \A j \in 1..(i + 1) : t[j] = s[j]
        /\ t[i + 2] = v
    <3>1. i + 1 + 1 = i + 2
      OBVIOUS
    <3> QED BY <2>2, <2>5, <3>1, Appended
  <2>7. ASSUME NEW j \in 1..(i + 1) PROVE t[j + 1] = Stepped(k, d, q[j], t[j])
    <3>1. CASE j = i + 1
      BY <2>3, <2>6, <3>1
    <3>2. CASE j \in 1..i
      <4>1. j + 1 \in 1..(i + 1)
        BY <3>2
      <4> QED BY <2>2, <2>6, <3>2, <4>1
    <3> QED BY <3>1, <3>2
  <2>8. t[1] = a /\ i + 2 = i + 1 + 1
    BY <2>2, <2>6
  <2> QED BY <2>4, <2>6, <2>7, <2>8
<1>5. n \in T
  <2> HIDE DEF T
  <2> QED BY <1>3, <1>4, NatSetInduction
<1>6. Good(n)
  BY <1>5
<1> QED BY <1>1, <1>2, <1>6 DEF Grown

\* The first n elements are taken up alike.
GoAlike(k, d, e, q, p, n) == \A i \in 1..n : \A v : Stepped(k, d, q[i], v) = Stepped(k, e, p[i], v)

\* Two series that begin alike and go on alike for n elements have n + 1 values in common.
LEMMA GrowAlike ==
    ASSUME NEW k, NEW d, NEW e, NEW q, NEW p, NEW a, NEW r, NEW s, Sequence(q), Sequence(p),
           Grown(k, d, q, a, r), Grown(k, e, p, a, s),
           NEW n \in Nat, n <= Len(q), n <= Len(p), GoAlike(k, d, e, q, p, n)
    PROVE  \A i \in 1..(n + 1) : r[i] = s[i]
<1> DEFINE T == {i \in Nat : i <= n => r[i + 1] = s[i + 1]}
<1>1. 0 \in T
  BY DEF Grown
<1>2. ASSUME NEW i \in Nat, i \in T PROVE i + 1 \in T
  <2> SUFFICES ASSUME i + 1 <= n PROVE r[i + 1 + 1] = s[i + 1 + 1]
    OBVIOUS
  <2>1. PICK j \in 1..n : j = i + 1
    OBVIOUS
  <2>2. j \in 1..Len(q) /\ j \in 1..Len(p)
    BY SequenceIs
  <2>3. r[j] = s[j]
    BY <1>2, <2>1
  <2>4. r[j + 1] = Stepped(k, d, q[j], r[j]) /\ s[j + 1] = Stepped(k, e, p[j], s[j])
    BY <2>2 DEF Grown
  <2> QED BY <2>1, <2>3, <2>4 DEF GoAlike
<1>3. \A i \in Nat : i <= n => r[i + 1] = s[i + 1]
  <2>1. \A i \in Nat : i \in T
    <3> HIDE DEF T
    <3> QED BY <1>1, <1>2, NatSetInduction
  <2> QED BY <2>1
<1>4. ASSUME NEW i \in 1..(n + 1) PROVE r[i] = s[i]
  <2>1. PICK j \in Nat : i = j + 1 /\ j <= n
    <3>1. i - 1 \in Nat /\ i = i - 1 + 1 /\ i - 1 <= n
      OBVIOUS
    <3> QED BY <3>1
  <2> QED BY <1>3, <2>1
<1> QED BY <1>4

-----------------------------------------------------------------------------
(* The folds of the indicators *)

\* The elements of v after the first n are folded onto the value a.
Running(k, n, v, a) == FoldOf(k, n, Rest(v, n), <<a>>)

\* The loop of an EMA (I:39-47) is such a fold.
LEMMA EMAIs ==
    ASSUME NEW v, NEW n, ~(Len(v) < n)
    PROVE  EMA(v, n) = Running("ema", n, v, Over(Total(SubSeq(v, 1, n)), n))
<1>1. PICK q : q = Rest(v, n)
  OBVIOUS
<1>2. PICK b : b = <<Over(Total(SubSeq(v, 1, n)), n)>>
  OBVIOUS
<1> DEFINE Eq(g) == g = [t \in SUBSET DOMAIN q |->
                           IF t = {} THEN b
                           ELSE Append(g[t \ {Max(t)}],
                                       Over(2 * q[Max(t)] + (n - 1) * Latest(g[t \ {Max(t)}]), n + 1))]
<1>3. \A g : Eq(g) <=> Folding("ema", n, q, b, DOMAIN q, g)
  BY DEF Folding, Combine, Stepped, Plain
<1>4. EMA(v, n) = (CHOOSE g : Eq(g))[DOMAIN q]
  BY <1>1, <1>2 DEF EMA, FoldLeft, MapThenFoldSet
<1> HIDE DEF Eq
<1>5. (CHOOSE g : Eq(g)) = CHOOSE g : Folding("ema", n, q, b, DOMAIN q, g)
  BY <1>3
<1> QED BY <1>1, <1>2, <1>4, <1>5 DEF FoldOf, Running

\* Wilder's averages (RSI, ATR) are a fold.
LEMMA WilderIs ==
    ASSUME NEW v, NEW n
    PROVE  Wilder(v, n) = Running("wilder", n, v, Over(Total(SubSeq(v, 1, n)), n))
<1>1. PICK q : q = Rest(v, n)
  OBVIOUS
<1>2. PICK b : b = <<Over(Total(SubSeq(v, 1, n)), n)>>
  OBVIOUS
<1> DEFINE Eq(g) == g = [t \in SUBSET DOMAIN q |->
                           IF t = {} THEN b
                           ELSE Append(g[t \ {Max(t)}],
                                       Over((n - 1) * Latest(g[t \ {Max(t)}]) + q[Max(t)], n))]
<1>3. \A g : Eq(g) <=> Folding("wilder", n, q, b, DOMAIN q, g)
  BY DEF Folding, Combine, Stepped, Plain
<1>4. Wilder(v, n) = (CHOOSE g : Eq(g))[DOMAIN q]
  BY <1>1, <1>2 DEF Wilder, FoldLeft, MapThenFoldSet
<1> HIDE DEF Eq
<1>5. (CHOOSE g : Eq(g)) = CHOOSE g : Folding("wilder", n, q, b, DOMAIN q, g)
  BY <1>3
<1> QED BY <1>1, <1>2, <1>4, <1>5 DEF FoldOf, Running

\* So are Wilder's running totals (ADX).
LEMMA SmoothIs ==
    ASSUME NEW v, NEW n
    PROVE  Smooth(v, n) = Running("smooth", n, v, Total(SubSeq(v, 1, n)))
<1>1. PICK q : q = Rest(v, n)
  OBVIOUS
<1>2. PICK b : b = <<Total(SubSeq(v, 1, n))>>
  OBVIOUS
<1> DEFINE Eq(g) == g = [t \in SUBSET DOMAIN q |->
                           IF t = {} THEN b
                           ELSE Append(g[t \ {Max(t)}],
                                       Latest(g[t \ {Max(t)}]) - Over(Latest(g[t \ {Max(t)}]), n)
                                         + q[Max(t)])]
<1>3. \A g : Eq(g) <=> Folding("smooth", n, q, b, DOMAIN q, g)
  BY DEF Folding, Combine, Stepped, Plain
<1>4. Smooth(v, n) = (CHOOSE g : Eq(g))[DOMAIN q]
  BY <1>1, <1>2 DEF Smooth, FoldLeft, MapThenFoldSet
<1> HIDE DEF Eq
<1>5. (CHOOSE g : Eq(g)) = CHOOSE g : Folding("smooth", n, q, b, DOMAIN q, g)
  BY <1>3
<1> QED BY <1>1, <1>2, <1>4, <1>5 DEF FoldOf, Running

\* So is the ADX of the directional indices.
LEMMA AverageDXIs ==
    ASSUME NEW v, NEW n
    PROVE  AverageDX(v, n) = Running("adx", n, v, Mean(SubSeq(v, 1, n)))
<1>1. PICK q : q = Rest(v, n)
  OBVIOUS
<1>2. PICK b : b = <<Mean(SubSeq(v, 1, n))>>
  OBVIOUS
<1> DEFINE Eq(g) == g = [t \in SUBSET DOMAIN q |->
                           IF t = {} THEN b
                           ELSE Append(g[t \ {Max(t)}],
                                       Divided(Plus(Times(Latest(g[t \ {Max(t)}]), n - 1), q[Max(t)]),
                                               Frac(n, 1)))]
<1>3. \A g : Eq(g) <=> Folding("adx", n, q, b, DOMAIN q, g)
  BY DEF Folding, Combine, Stepped, Plain
<1>4. AverageDX(v, n) = (CHOOSE g : Eq(g))[DOMAIN q]
  BY <1>1, <1>2 DEF AverageDX, FoldLeft, MapThenFoldSet
<1> HIDE DEF Eq
<1>5. (CHOOSE g : Eq(g)) = CHOOSE g : Folding("adx", n, q, b, DOMAIN q, g)
  BY <1>3
<1> QED BY <1>1, <1>2, <1>4, <1>5 DEF FoldOf, Running

\* So are the running sums of the SMA.
LEMMA SumsAre ==
    ASSUME NEW v, NEW n
    PROVE  RunningSums(v, n) = FoldOf("sma", [v |-> v, n |-> n], [j \in 1..(Len(v) - n) |-> n + j],
                                      <<Total(SubSeq(v, 1, n))>>)
<1>1. PICK q : q = [j \in 1..(Len(v) - n) |-> n + j]
  OBVIOUS
<1>2. PICK b : b = <<Total(SubSeq(v, 1, n))>>
  OBVIOUS
<1>3. PICK d : d = [v |-> v, n |-> n]
  OBVIOUS
<1> DEFINE Eq(g) == g = [t \in SUBSET DOMAIN q |->
                           IF t = {} THEN b
                           ELSE Append(g[t \ {Max(t)}],
                                       Latest(g[t \ {Max(t)}]) + v[q[Max(t)]] - v[q[Max(t)] - n])]
<1>4. d.v = v /\ d.n = n
  BY <1>3
<1>5. \A g : Eq(g) <=> Folding("sma", d, q, b, DOMAIN q, g)
  BY <1>4 DEF Folding, Combine, Stepped, Plain
<1>6. RunningSums(v, n) = (CHOOSE g : Eq(g))[DOMAIN q]
  BY <1>1, <1>2 DEF RunningSums, FoldLeft, MapThenFoldSet
<1> HIDE DEF Eq
<1>7. (CHOOSE g : Eq(g)) = CHOOSE g : Folding("sma", d, q, b, DOMAIN q, g)
  BY <1>5
<1> QED BY <1>1, <1>2, <1>3, <1>6, <1>7 DEF FoldOf

\* So is the parabolic SAR, with more state than one value.
LEMMA SARIs ==
    ASSUME NEW c, NEW par, ~(Len(c) < 2)
    PROVE  ParabolicSAR(c, par) = FoldOf("sar", par, Tail(c), <<SARStart(c[1], c[2], par)>>)
<1>1. PICK q : q = Tail(c)
  OBVIOUS
<1>2. PICK b : b = <<SARStart(c[1], c[2], par)>>
  OBVIOUS
<1> DEFINE Eq(g) == g = [t \in SUBSET DOMAIN q |->
                           IF t = {} THEN b
                           ELSE Append(g[t \ {Max(t)}], SARStep(Latest(g[t \ {Max(t)}]), q[Max(t)], par))]
<1>3. \A g : Eq(g) <=> Folding("sar", par, q, b, DOMAIN q, g)
  BY DEF Folding, Combine, Stepped, Plain
<1>4. ParabolicSAR(c, par) = (CHOOSE g : Eq(g))[DOMAIN q]
  BY <1>1, <1>2 DEF ParabolicSAR, FoldLeft, MapThenFoldSet
<1> HIDE DEF Eq
<1>5. (CHOOSE g : Eq(g)) = CHOOSE g : Folding("sar", par, q, b, DOMAIN q, g)
  BY <1>3
<1> QED BY <1>1, <1>2, <1>4, <1>5 DEF FoldOf

\* What the loop of the Supertrend looks at.
Trend(c, n, factor) ==
    [c |-> c, atr |-> ATR(c, n), offset |-> Len(c) - Len(ATR(c, n)), factor |-> factor]

\* So is the Supertrend.
LEMMA SupertrendIs ==
    ASSUME NEW c, NEW n, NEW factor, ATR(c, n) # <<>>
    PROVE  Supertrend(c, n, factor)
             = FoldOf("supertrend", Trend(c, n, factor), [j \in 1..(Len(ATR(c, n)) - 1) |-> j + 1],
                      <<SupertrendStart(c[1 + (Len(c) - Len(ATR(c, n)))], factor * ATR(c, n)[1])>>)
<1>1. PICK atr, offset : atr = ATR(c, n) /\ offset = Len(c) - Len(atr)
  OBVIOUS
<1>2. PICK q : q = [j \in 1..(Len(atr) - 1) |-> j + 1]
  OBVIOUS
<1>3. PICK b : b = <<SupertrendStart(c[1 + offset], factor * atr[1])>>
  OBVIOUS
<1>4. PICK d : d = Trend(c, n, factor)
  OBVIOUS
<1> DEFINE Eq(g) == g = [t \in SUBSET DOMAIN q |->
                           IF t = {} THEN b
                           ELSE Append(g[t \ {Max(t)}],
                                       SupertrendNext(Latest(g[t \ {Max(t)}]), c[q[Max(t)] + offset - 1],
                                                      c[q[Max(t)] + offset], factor * atr[q[Max(t)]]))]
<1>5. d.c = c /\ d.atr = atr /\ d.offset = offset /\ d.factor = factor
  BY <1>1, <1>4 DEF Trend
<1>6. \A g : Eq(g) <=> Folding("supertrend", d, q, b, DOMAIN q, g)
  BY <1>5 DEF Folding, Combine, Stepped, Plain
<1>7. Supertrend(c, n, factor) = (CHOOSE g : Eq(g))[DOMAIN q]
  BY <1>1, <1>2, <1>3 DEF Supertrend, FoldLeft, MapThenFoldSet
<1> HIDE DEF Eq
<1>8. (CHOOSE g : Eq(g)) = CHOOSE g : Folding("supertrend", d, q, b, DOMAIN q, g)
  BY <1>6
<1> QED BY <1>1, <1>2, <1>3, <1>4, <1>7, <1>8 DEF FoldOf

\* A sum of a sequence.
LEMMA TotalIs ==
    ASSUME NEW v
    PROVE  Total(v) = FoldOf("sum", 0, v, 0)
<1> DEFINE Eq(g) == g = [t \in SUBSET DOMAIN v |->
                           IF t = {} THEN 0 ELSE g[t \ {Max(t)}] + v[Max(t)]]
<1>1. \A g : Eq(g) <=> Folding("sum", 0, v, 0, DOMAIN v, g)
  BY DEF Folding, Combine, Gathered, Plain
<1>2. Total(v) = (CHOOSE g : Eq(g))[DOMAIN v]
  BY DEF Total, FoldLeft, MapThenFoldSet
<1> HIDE DEF Eq
<1>3. (CHOOSE g : Eq(g)) = CHOOSE g : Folding("sum", 0, v, 0, DOMAIN v, g)
  BY <1>1
<1> QED BY <1>2, <1>3 DEF FoldOf

-----------------------------------------------------------------------------
(* Sequences that have their first elements in common *)

Agree(c, d, m) ==
    /\ Sequence(c) /\ Sequence(d) /\ m \in Nat /\ m <= Len(c) /\ m <= Len(d)
    /\ \A i \in 1..m : c[i] = d[i]

\* d is c from the element after the first h on, as far as d's m-th.
Later(c, d, h, m) ==
    /\ Sequence(c) /\ Sequence(d) /\ h \in Nat /\ m \in Nat /\ h + m <= Len(c) /\ m <= Len(d)
    /\ \A i \in 1..m : c[h + i] = d[i]

\* To agree from the first element on is to go on from there with none dropped.
LEMMA AgreeIsLater ==
    ASSUME NEW c, NEW d, NEW m, Agree(c, d, m)
    PROVE  Later(c, d, 0, m)
<1>1. /\ Sequence(c) /\ Sequence(d) /\ m \in Nat /\ m <= Len(c) /\ m <= Len(d)
      /\ \A i \in 1..m : c[i] = d[i]
  BY DEF Agree
<1>2. Len(c) \in Nat
  BY <1>1, SequenceIs
<1>3. 0 + m <= Len(c) /\ 0 \in Nat
  BY <1>1, <1>2
<1>4. \A i \in 1..m : c[0 + i] = d[i]
  BY <1>1
<1> QED BY <1>1, <1>3, <1>4 DEF Later

\* Windows over the same elements are the same.
LEMMA SameWindow ==
    ASSUME NEW c, NEW d, NEW h, NEW m, Later(c, d, h, m),
           NEW i \in Nat \ {0}, NEW j \in Nat, j <= m, i <= j + 1,
           NEW a, a = h + i, NEW b, b = h + j
    PROVE  SubSeq(c, a, b) = SubSeq(d, i, j)
<1>1. /\ Sequence(c) /\ Sequence(d) /\ h \in Nat /\ m \in Nat /\ h + m <= Len(c) /\ m <= Len(d)
      /\ \A k \in 1..m : c[h + k] = d[k]
  BY DEF Later
<1>2. Len(c) \in Nat /\ Len(d) \in Nat
  BY <1>1, SequenceIs
<1>3. a \in Nat \ {0} /\ b \in Nat /\ a = h + i /\ b = h + j
  BY <1>1
<1>4. b <= Len(c) /\ a <= b + 1 /\ b - a + 1 = j - i + 1 /\ j <= Len(d)
  BY <1>1, <1>2, <1>3
<1>5. /\ Sequence(SubSeq(c, a, b)) /\ Len(SubSeq(c, a, b)) = b - a + 1
      /\ \A k \in 1..(b - a + 1) : SubSeq(c, a, b)[k] = c[a + k - 1]
  BY <1>1, <1>4, Part
<1>6. /\ Sequence(SubSeq(d, i, j)) /\ Len(SubSeq(d, i, j)) = j - i + 1
      /\ \A k \in 1..(j - i + 1) : SubSeq(d, i, j)[k] = d[i + k - 1]
  BY <1>1, <1>4, Part
<1>7. ASSUME NEW k \in 1..(j - i + 1) PROVE SubSeq(c, a, b)[k] = SubSeq(d, i, j)[k]
  <2>1. PICK l \in 1..m : l = i + k - 1 /\ a + k - 1 = h + l
    <3>1. i + k - 1 \in 1..m /\ a + k - 1 = h + (i + k - 1)
      BY <1>1, <1>3
    <3> QED BY <3>1
  <2>2. k \in 1..(b - a + 1)
    BY <1>4
  <2> QED BY <1>1, <1>5, <1>6, <2>1, <2>2
<1> QED BY <1>4, <1>5, <1>6, <1>7, SameElements

\* ... and so are windows over the same first elements.
LEMMA FirstWindow ==
    ASSUME NEW c, NEW d, NEW m, Agree(c, d, m),
           NEW i \in Nat \ {0}, NEW j \in Nat, j <= m, i <= j + 1
    PROVE  SubSeq(c, i, j) = SubSeq(d, i, j)
<1>1. Later(c, d, 0, m)
  BY AgreeIsLater
<1>2. i = 0 + i /\ j = 0 + j /\ m \in Nat
  BY DEF Agree
<1> QED BY <1>1, <1>2, SameWindow

\* A sequence without its first n elements.
LEMMA RestIs ==
    ASSUME NEW v, Sequence(v), NEW n \in Nat \ {0}, n <= Len(v)
    PROVE  /\ Sequence(Rest(v, n)) /\ Len(Rest(v, n)) = Len(v) - n
           /\ \A i \in 1..(Len(v) - n) : Rest(v, n)[i] = v[n + i]
<1>1. PICK l \in Nat : l = Len(v)
  BY SequenceIs
<1>2. n + 1 \in Nat \ {0} /\ l <= Len(v) /\ n + 1 <= l + 1
  BY <1>1
<1>3. /\ Sequence(SubSeq(v, n + 1, l)) /\ Len(SubSeq(v, n + 1, l)) = l - (n + 1) + 1
      /\ \A k \in 1..(l - (n + 1) + 1) : SubSeq(v, n + 1, l)[k] = v[n + 1 + k - 1]
  BY <1>2, Part
<1>4. l - (n + 1) + 1 = l - n /\ \A k \in 1..(l - n) : n + 1 + k - 1 = n + k
  BY <1>1
<1> QED BY <1>1, <1>3, <1>4 DEF Rest

\* A running average has a value for each element from the n-th on ...
LEMMA RunningLong ==
    ASSUME NEW k, k \notin Plain, NEW n \in Nat \ {0}, NEW v, Sequence(v), n <= Len(v), NEW a
    PROVE  /\ Sequence(Running(k, n, v, a)) /\ Len(Running(k, n, v, a)) = Len(v) - n + 1
           /\ Grown(k, n, Rest(v, n), a, Running(k, n, v, a))
<1>1. Sequence(Rest(v, n)) /\ Len(Rest(v, n)) = Len(v) - n
  BY RestIs
<1>2. Grown(k, n, Rest(v, n), a, Running(k, n, v, a))
  BY <1>1, GrowsAlong DEF Running
<1> QED BY <1>1, <1>2 DEF Grown

\* ... that depends on no later element.
LEMMA RunningAlike ==
    ASSUME NEW k, k \notin Plain, NEW n \in Nat \ {0}, NEW v, NEW u, NEW m, Agree(v, u, m), n <= m, NEW a
    PROVE  Agree(Running(k, n, v, a), Running(k, n, u, a), m - n + 1)
<1>1. /\ Sequence(v) /\ Sequence(u) /\ m \in Nat /\ m <= Len(v) /\ m <= Len(u)
      /\ \A i \in 1..m : v[i] = u[i]
  BY DEF Agree
<1>2. PICK l \in Nat, o \in Nat : l = Len(v) /\ o = Len(u)
  BY <1>1, SequenceIs
<1>3. n <= l /\ n <= o /\ m - n \in Nat /\ m - n <= l - n /\ m - n <= o - n
  BY <1>1, <1>2
<1>4. PICK r : r = Running(k, n, v, a)
  OBVIOUS
<1>5. PICK s : s = Running(k, n, u, a)
  OBVIOUS
<1>6. Sequence(r) /\ Len(r) = l - n + 1 /\ Grown(k, n, Rest(v, n), a, r)
  BY <1>1, <1>2, <1>3, <1>4, RunningLong
<1>7. Sequence(s) /\ Len(s) = o - n + 1 /\ Grown(k, n, Rest(u, n), a, s)
  BY <1>1, <1>2, <1>3, <1>5, RunningLong
<1>8. /\ Sequence(Rest(v, n)) /\ Len(Rest(v, n)) = l - n
      /\ \A i \in 1..(l - n) : Rest(v, n)[i] = v[n + i]
  BY <1>1, <1>2, <1>3, RestIs
<1>9. /\ Sequence(Rest(u, n)) /\ Len(Rest(u, n)) = o - n
      /\ \A i \in 1..(o - n) : Rest(u, n)[i] = u[n + i]
  BY <1>1, <1>2, <1>3, RestIs
<1>10. PICK e \in Nat : e = m - n
  BY <1>3
<1>11. ASSUME NEW i \in 1..e PROVE Rest(v, n)[i] = Rest(u, n)[i]
  <2>1. i \in 1..(l - n) /\ i \in 1..(o - n) /\ n + i \in 1..m
    BY <1>1, <1>2, <1>3, <1>10
  <2> QED BY <1>1, <1>8, <1>9, <2>1
<1>12. \A i \in 1..e : \A w : Stepped(k, n, Rest(v, n)[i], w) = Stepped(k, n, Rest(u, n)[i], w)
  BY <1>11
<1>13. \A i \in 1..(e + 1) : r[i] = s[i]
  <2>1. PICK q : q = Rest(v, n)
    OBVIOUS
  <2>2. PICK p : p = Rest(u, n)
    OBVIOUS
  <2>3. Sequence(q) /\ Sequence(p) /\ Grown(k, n, q, a, r) /\ Grown(k, n, p, a, s)
    BY <1>6, <1>7, <1>8, <1>9, <2>1, <2>2
  <2>4. e <= Len(q) /\ e <= Len(p)
    BY <1>3, <1>8, <1>9, <1>10, <2>1, <2>2
  <2>5. GoAlike(k, n, n, q, p, e)
    BY <1>12, <2>1, <2>2 DEF GoAlike
  <2> QED BY <2>3, <2>4, <2>5, GrowAlike
<1>14. e + 1 = m - n + 1 /\ e + 1 \in Nat /\ e + 1 <= l - n + 1 /\ e + 1 <= o - n + 1
  BY <1>1, <1>2, <1>3, <1>10
<1> QED BY <1>4, <1>5, <1>6, <1>7, <1>13, <1>14 DEF Agree

-----------------------------------------------------------------------------
(* Series of one value for each element, pair of elements or window *)

\* The empty series, which stands for nil.
LEMMA Empty == Sequence(<<>>) /\ Len(<<>>) = 0
<1>1. <<>> \in Seq({})
  OBVIOUS
<1> QED BY <1>1 DEF Sequence

\* Two lists by position agree where their elements do.
LEMMA ListsAgree ==
    ASSUME NEW a \in Nat, NEW b \in Nat, NEW f, NEW g,
           f = [i \in 1..a |-> f[i]], g = [i \in 1..b |-> g[i]],
           NEW e \in Nat, e <= a, e <= b, \A i \in 1..e : f[i] = g[i]
    PROVE  Agree(f, g, e)
<1>1. Sequence(f) /\ Len(f) = a /\ Sequence(g) /\ Len(g) = b
  BY Listed
<1> QED BY <1>1 DEF Agree

\* What a window of n elements is reduced to.
View(k, n, w) ==
    CASE k = "mean" -> Over(Total(w), n)
      [] k = "band" -> Band(w, n)
      [] k = "channel" -> Channel(w)
      [] k = "range" -> AboveClose(w)
      [] k = "stoch" -> Stoch(w)
      [] OTHER -> KD(w)
Viewed(k, v, n) ==
    IF Len(v) < n THEN <<>>
    ELSE [i \in 1..(Len(v) - n + 1) |-> View(k, n, SubSeq(v, i, i + n - 1))]

\* A window ends at every element from the n-th on.
LEMMA ViewedLong ==
    ASSUME NEW k, NEW v, Sequence(v), NEW n \in Nat \ {0}
    PROVE  /\ Sequence(Viewed(k, v, n))
           /\ Len(Viewed(k, v, n)) = IF Len(v) < n THEN 0 ELSE Len(v) - n + 1
           /\ ~(Len(v) < n) =>
                 \A i \in 1..(Len(v) - n + 1) : Viewed(k, v, n)[i] = View(k, n, SubSeq(v, i, i + n - 1))
<1>1. PICK l \in Nat : l = Len(v)
  BY SequenceIs
<1>2. CASE l < n
  BY <1>1, <1>2, Empty DEF Viewed
<1>3. CASE ~(l < n)
  <2>1. PICK f : f = [i \in 1..(l - n + 1) |-> View(k, n, SubSeq(v, i, i + n - 1))]
    OBVIOUS
  <2>2. l - n + 1 \in Nat
    BY <1>3
  <2>3. f = [i \in 1..(l - n + 1) |-> f[i]]
    BY <2>1
  <2>4. Sequence(f) /\ Len(f) = l - n + 1
    BY <2>2, <2>3, Listed
  <2>5. Viewed(k, v, n) = f
    BY <1>1, <1>3, <2>1 DEF Viewed
  <2>6. \A i \in 1..(l - n + 1) : f[i] = View(k, n, SubSeq(v, i, i + n - 1))
    BY <2>1
  <2> QED BY <1>1, <1>3, <2>4, <2>5, <2>6
<1> QED BY <1>2, <1>3

\* Windows that are later by h elements look the same h windows later.
LEMMA ViewedLater ==
    ASSUME NEW k, NEW c, NEW d, NEW h, NEW m, Later(c, d, h, m), NEW n \in Nat \ {0}, n <= m
    PROVE  Later(Viewed(k, c, n), Viewed(k, d, n), h, m - n + 1)
<1>1. Sequence(c) /\ Sequence(d) /\ h \in Nat /\ m \in Nat /\ h + m <= Len(c) /\ m <= Len(d)
  BY DEF Later
<1>2. PICK l \in Nat, o \in Nat : l = Len(c) /\ o = Len(d)
  BY <1>1, SequenceIs
<1>3. ~(l < n) /\ ~(o < n) /\ m - n + 1 \in Nat
  BY <1>1, <1>2
<1>4. PICK r : r = Viewed(k, c, n)
  OBVIOUS
<1>5. PICK s : s = Viewed(k, d, n)
  OBVIOUS
<1>6. /\ Sequence(r) /\ Len(r) = l - n + 1
      /\ \A i \in 1..(l - n + 1) : r[i] = View(k, n, SubSeq(c, i, i + n - 1))
  BY <1>1, <1>2, <1>3, <1>4, ViewedLong
<1>7. /\ Sequence(s) /\ Len(s) = o - n + 1
      /\ \A i \in 1..(o - n + 1) : s[i] = View(k, n, SubSeq(d, i, i + n - 1))
  BY <1>1, <1>2, <1>3, <1>5, ViewedLong
<1>8. ASSUME NEW i \in 1..(m - n + 1) PROVE r[h + i] = s[i]
  <2>1. h + i \in 1..(l - n + 1) /\ i \in 1..(o - n + 1)
    BY <1>1, <1>2
  <2>2. PICK j \in Nat : j = i + n - 1
    BY <1>1
  <2>3. j <= m /\ i <= j + 1 /\ i \in Nat \ {0} /\ h + i + n - 1 = h + j
    BY <1>1, <2>2
  <2>4. SubSeq(c, h + i, h + j) = SubSeq(d, i, j)
    <3>1. PICK x \in Nat \ {0} : x = i
      BY <2>3
    <3>2. PICK a, b : a = h + x /\ b = h + j
      OBVIOUS
    <3>3. j <= m /\ x <= j + 1 /\ m \in Nat /\ h \in Nat
      BY <1>1, <2>3, <3>1
    <3>4. SubSeq(c, a, b) = SubSeq(d, x, j)
      BY <3>2, <3>3, SameWindow, SMTT(60)
    <3> QED BY <3>1, <3>2, <3>4
  <2>5. r[h + i] = View(k, n, SubSeq(c, h + i, h + j))
    <3>1. PICK g \in 1..(l - n + 1) : g = h + i /\ g + n - 1 = h + j
      BY <2>1, <2>3
    <3>2. r[g] = View(k, n, SubSeq(c, g, g + n - 1))
      BY <1>6
    <3> QED BY ONLY <3>1, <3>2, Zenon
  <2>6. s[i] = View(k, n, SubSeq(d, i, j))
    BY <1>7, <2>1, <2>2
  <2> QED BY <2>4, <2>5, <2>6
<1>9. h + (m - n + 1) <= l - n + 1 /\ m - n + 1 <= o - n + 1
  BY <1>1, <1>2
<1> QED BY <1>1, <1>3, <1>4, <1>5, <1>6, <1>7, <1>8, <1>9 DEF Later

\* With none dropped, the elements are the same.
LEMMA LaterIsAgree ==
    ASSUME NEW c, NEW d, NEW m, Later(c, d, 0, m)
    PROVE  Agree(c, d, m)
<1>1. /\ Sequence(c) /\ Sequence(d) /\ m \in Nat /\ 0 + m <= Len(c) /\ m <= Len(d)
      /\ \A i \in 1..m : c[0 + i] = d[i]
  BY DEF Later
<1>2. m <= Len(c) /\ \A i \in 1..m : 0 + i = i
  BY <1>1, SequenceIs
<1> QED BY <1>1, <1>2 DEF Agree

\* Windows over common elements have common values.
LEMMA ViewedAlike ==
    ASSUME NEW k, NEW c, NEW d, NEW m, Agree(c, d, m), NEW n \in Nat \ {0}, n <= m
    PROVE  Agree(Viewed(k, c, n), Viewed(k, d, n), m - n + 1)
BY AgreeIsLater, ViewedLater, LaterIsAgree

\* The five indicators that look at windows.
LEMMA BandsAre ==
    ASSUME NEW c, NEW n
    PROVE  BollingerBands(c, n) = Viewed("band", [i \in DOMAIN c |-> c[i].close], n)
BY DEF BollingerBands, Windows, Viewed, View

\* Donchian channels and the Williams range are windows over the candles.
LEMMA ChannelsAre ==
    ASSUME NEW c, NEW n
    PROVE  /\ DonchianChannel(c, n) = Viewed("channel", c, n)
           /\ WilliamsR(c, n) = Viewed("range", c, n)
BY DEF DonchianChannel, WilliamsR, Windows, Viewed, View

\* The two lines of the stochastic RSI are windows over windows.
LEMMA StochRSIIs ==
    ASSUME NEW c, NEW n, NEW k, NEW d
    PROVE  StochRSI(c, n, k, d) = Viewed("kd", Viewed("stoch", RSI(c, n), k), d)
BY DEF StochRSI, Windows, Viewed, View

-----------------------------------------------------------------------------
(* What each series is long, and that a later candle does not change it *)

\* An EMA begins with its n-th element.
LEMMA EMALong ==
    ASSUME NEW v, Sequence(v), NEW n \in Nat \ {0}
    PROVE  Sequence(EMA(v, n)) /\ Len(EMA(v, n)) = IF Len(v) < n THEN 0 ELSE Len(v) - n + 1
<1>1. PICK l \in Nat : l = Len(v)
  BY SequenceIs
<1>2. CASE l < n
  <2>1. EMA(v, n) = <<>>
    BY <1>1, <1>2 DEF EMA
  <2> QED BY <1>1, <1>2, <2>1, Empty
<1>3. CASE ~(l < n)
  <2>1. PICK a : EMA(v, n) = Running("ema", n, v, a)
    BY <1>1, <1>3, EMAIs
  <2>2. n <= Len(v) /\ "ema" \notin Plain
    BY <1>1, <1>3 DEF Plain
  <2>3. /\ Sequence(Running("ema", n, v, a)) /\ Len(Running("ema", n, v, a)) = Len(v) - n + 1
    BY <2>2, RunningLong
  <2> QED BY <1>1, <1>3, <2>1, <2>3
<1> QED BY <1>2, <1>3

\* An EMA never looks ahead.
LEMMA EMAAlike ==
    ASSUME NEW v, NEW u, NEW m, Agree(v, u, m), NEW n \in Nat \ {0}, n <= m
    PROVE  Agree(EMA(v, n), EMA(u, n), m - n + 1)
<1>1. Sequence(v) /\ Sequence(u) /\ m \in Nat /\ m <= Len(v) /\ m <= Len(u)
  BY DEF Agree
<1>2. Len(v) \in Nat /\ Len(u) \in Nat
  BY <1>1, SequenceIs
<1>3. ~(Len(v) < n) /\ ~(Len(u) < n) /\ 1 \in Nat \ {0} /\ n \in Nat /\ 1 <= n + 1 /\ "ema" \notin Plain
  BY <1>1, <1>2 DEF Plain
<1>4. SubSeq(v, 1, n) = SubSeq(u, 1, n)
  BY <1>3, FirstWindow
<1>5. PICK a : a = Over(Total(SubSeq(v, 1, n)), n)
  OBVIOUS
<1>6. EMA(v, n) = Running("ema", n, v, a) /\ EMA(u, n) = Running("ema", n, u, a)
  BY <1>3, <1>4, <1>5, EMAIs
<1>7. Agree(Running("ema", n, v, a), Running("ema", n, u, a), m - n + 1)
  BY <1>3, RunningAlike
<1> QED BY <1>6, <1>7

\* A smoothed series, seeded with what its first n values give.
LEMMA SmoothedLong ==
    ASSUME NEW v, Sequence(v), NEW n \in Nat \ {0}, n <= Len(v)
    PROVE  /\ Sequence(Wilder(v, n)) /\ Len(Wilder(v, n)) = Len(v) - n + 1
           /\ Sequence(Smooth(v, n)) /\ Len(Smooth(v, n)) = Len(v) - n + 1
           /\ Sequence(AverageDX(v, n)) /\ Len(AverageDX(v, n)) = Len(v) - n + 1
<1>1. PICK a, b, e : /\ Wilder(v, n) = Running("wilder", n, v, a)
                     /\ Smooth(v, n) = Running("smooth", n, v, b)
                     /\ AverageDX(v, n) = Running("adx", n, v, e)
  BY WilderIs, SmoothIs, AverageDXIs
<1>2. "wilder" \notin Plain /\ "smooth" \notin Plain /\ "adx" \notin Plain
  BY DEF Plain
<1>3. /\ Sequence(Running("wilder", n, v, a)) /\ Len(Running("wilder", n, v, a)) = Len(v) - n + 1
      /\ Sequence(Running("smooth", n, v, b)) /\ Len(Running("smooth", n, v, b)) = Len(v) - n + 1
      /\ Sequence(Running("adx", n, v, e)) /\ Len(Running("adx", n, v, e)) = Len(v) - n + 1
  BY <1>2, RunningLong
<1> QED BY <1>1, <1>3

\* Neither do Wilder's averages and totals.
LEMMA SmoothedAlike ==
    ASSUME NEW v, NEW u, NEW m, Agree(v, u, m), NEW n \in Nat \ {0}, n <= m
    PROVE  /\ Agree(Wilder(v, n), Wilder(u, n), m - n + 1)
           /\ Agree(Smooth(v, n), Smooth(u, n), m - n + 1)
           /\ Agree(AverageDX(v, n), AverageDX(u, n), m - n + 1)
<1>1. 1 \in Nat \ {0} /\ n \in Nat /\ 1 <= n + 1 /\ m \in Nat
  BY DEF Agree
<1>2. SubSeq(v, 1, n) = SubSeq(u, 1, n)
  BY <1>1, FirstWindow
<1>3. PICK a : a = Over(Total(SubSeq(v, 1, n)), n)
  OBVIOUS
<1>4. PICK b : b = Total(SubSeq(v, 1, n))
  OBVIOUS
<1>5. PICK e : e = Mean(SubSeq(v, 1, n))
  OBVIOUS
<1>6. /\ Wilder(v, n) = Running("wilder", n, v, a) /\ Wilder(u, n) = Running("wilder", n, u, a)
      /\ Smooth(v, n) = Running("smooth", n, v, b) /\ Smooth(u, n) = Running("smooth", n, u, b)
      /\ AverageDX(v, n) = Running("adx", n, v, e) /\ AverageDX(u, n) = Running("adx", n, u, e)
  BY <1>2, <1>3, <1>4, <1>5, WilderIs, SmoothIs, AverageDXIs
<1>7. "wilder" \notin Plain /\ "smooth" \notin Plain /\ "adx" \notin Plain
  BY DEF Plain
<1>8. /\ Agree(Running("wilder", n, v, a), Running("wilder", n, u, a), m - n + 1)
      /\ Agree(Running("smooth", n, v, b), Running("smooth", n, u, b), m - n + 1)
      /\ Agree(Running("adx", n, v, e), Running("adx", n, u, e), m - n + 1)
  BY <1>7, RunningAlike
<1> QED BY <1>6, <1>8

\* A candle has a close.
LEMMA ClosesAre ==
    ASSUME NEW c, Sequence(c)
    PROVE  /\ Sequence(Closes(c)) /\ Len(Closes(c)) = Len(c)
           /\ Closes(c) = [i \in 1..Len(c) |-> Closes(c)[i]]
           /\ \A i \in 1..Len(c) : Closes(c)[i] = Scale * c[i].close
<1>1. PICK l \in Nat : l = Len(c) /\ DOMAIN c = 1..l
  BY SequenceIs
<1>2. Closes(c) = [i \in 1..l |-> Scale * c[i].close]
  BY <1>1 DEF Closes
<1>3. Closes(c) = [i \in 1..l |-> Closes(c)[i]] /\ \A i \in 1..l : Closes(c)[i] = Scale * c[i].close
  BY <1>2
<1> QED BY <1>1, <1>3, Listed

\* Common candles have common closes.
LEMMA ClosesAgree ==
    ASSUME NEW c, NEW d, NEW m, Agree(c, d, m)
    PROVE  Agree(Closes(c), Closes(d), m)
<1>1. /\ Sequence(c) /\ Sequence(d) /\ m \in Nat /\ m <= Len(c) /\ m <= Len(d)
      /\ Len(c) \in Nat /\ Len(d) \in Nat /\ \A i \in 1..m : c[i] = d[i]
  BY SequenceIs DEF Agree
<1>2. \A i \in 1..m : i \in 1..Len(c) /\ i \in 1..Len(d)
  BY <1>1
<1>3. \A i \in 1..m : Closes(c)[i] = Closes(d)[i]
  BY <1>1, <1>2, ClosesAre
<1> QED BY <1>1, <1>3, ClosesAre DEF Agree

\* The series of one value for each pair of neighbours.
LEMMA PairsLong ==
    ASSUME NEW c, Sequence(c), 1 <= Len(c)
    PROVE  /\ Sequence(TrueRanges(c)) /\ Len(TrueRanges(c)) = Len(c) - 1
           /\ Sequence(Gains(c)) /\ Len(Gains(c)) = Len(c) - 1
           /\ Sequence(Losses(c)) /\ Len(Losses(c)) = Len(c) - 1
           /\ Sequence(PlusMoves(c)) /\ Len(PlusMoves(c)) = Len(c) - 1
           /\ Sequence(MinusMoves(c)) /\ Len(MinusMoves(c)) = Len(c) - 1
<1>1. PICK l \in Nat : l = Len(c) - 1
  BY SequenceIs
<1>2. /\ TrueRanges(c) = [i \in 1..l |-> TrueRanges(c)[i]]
      /\ Gains(c) = [i \in 1..l |-> Gains(c)[i]]
      /\ Losses(c) = [i \in 1..l |-> Losses(c)[i]]
      /\ PlusMoves(c) = [i \in 1..l |-> PlusMoves(c)[i]]
      /\ MinusMoves(c) = [i \in 1..l |-> MinusMoves(c)[i]]
  BY <1>1 DEF TrueRanges, Gains, Losses, PlusMoves, MinusMoves
<1> QED BY <1>1, <1>2, Listed

\* Gains, ranges and moves are of a bar and the one before it.
LEMMA PairsAlike ==
    ASSUME NEW c, NEW d, NEW m, Agree(c, d, m), 1 <= m
    PROVE  /\ Agree(TrueRanges(c), TrueRanges(d), m - 1)
           /\ Agree(Gains(c), Gains(d), m - 1)
           /\ Agree(Losses(c), Losses(d), m - 1)
           /\ Agree(PlusMoves(c), PlusMoves(d), m - 1)
           /\ Agree(MinusMoves(c), MinusMoves(d), m - 1)
<1>1. /\ Sequence(c) /\ Sequence(d) /\ m \in Nat /\ m <= Len(c) /\ m <= Len(d)
      /\ Len(c) \in Nat /\ Len(d) \in Nat /\ \A i \in 1..m : c[i] = d[i]
  BY SequenceIs DEF Agree
<1>2. PICK a \in Nat, b \in Nat, e \in Nat : a = Len(c) - 1 /\ b = Len(d) - 1 /\ e = m - 1
  <2>1. Len(c) - 1 \in Nat /\ Len(d) - 1 \in Nat /\ m - 1 \in Nat
    BY <1>1
  <2> QED BY <2>1
<1>3. e <= a /\ e <= b
  BY <1>1, <1>2
<1>4. ASSUME NEW i \in 1..e
      PROVE  i \in 1..a /\ i \in 1..b /\ c[i] = d[i] /\ c[i + 1] = d[i + 1] /\ i + 1 - 1 = i
  <2>1. i \in 1..m /\ i + 1 \in 1..m
    BY <1>1, <1>2
  <2> QED BY <1>1, <1>2, <2>1
<1>5. Agree(TrueRanges(c), TrueRanges(d), e)
  <2>1. PICK f, g : f = TrueRanges(c) /\ g = TrueRanges(d)
    OBVIOUS
  <2>2. f = [i \in 1..a |-> Scale * TrueRange(c, i + 1)] /\ g = [i \in 1..b |-> Scale * TrueRange(d, i + 1)]
    BY <1>2, <2>1 DEF TrueRanges
  <2>3. f = [i \in 1..a |-> f[i]] /\ g = [i \in 1..b |-> g[i]]
    BY <2>2
  <2>4. \A i \in 1..e : TrueRange(c, i + 1) = TrueRange(d, i + 1)
    BY <1>4 DEF TrueRange
  <2>5. \A i \in 1..e : f[i] = g[i]
    BY <1>4, <2>2, <2>4
  <2> QED BY <1>3, <2>1, <2>3, <2>5, ListsAgree
<1>6. Agree(Gains(c), Gains(d), e)
  <2>1. PICK f, g : f = Gains(c) /\ g = Gains(d)
    OBVIOUS
  <2>2. /\ f = [i \in 1..a |-> Scale * Higher(c[i + 1].close - c[i].close, 0)]
        /\ g = [i \in 1..b |-> Scale * Higher(d[i + 1].close - d[i].close, 0)]
    BY <1>2, <2>1 DEF Gains
  <2>3. f = [i \in 1..a |-> f[i]] /\ g = [i \in 1..b |-> g[i]]
    BY <2>2
  <2>4. \A i \in 1..e : f[i] = g[i]
    BY <1>4, <2>2
  <2> QED BY <1>3, <2>1, <2>3, <2>4, ListsAgree
<1>7. Agree(Losses(c), Losses(d), e)
  <2>1. PICK f, g : f = Losses(c) /\ g = Losses(d)
    OBVIOUS
  <2>2. /\ f = [i \in 1..a |-> Scale * Higher(c[i].close - c[i + 1].close, 0)]
        /\ g = [i \in 1..b |-> Scale * Higher(d[i].close - d[i + 1].close, 0)]
    BY <1>2, <2>1 DEF Losses
  <2>3. f = [i \in 1..a |-> f[i]] /\ g = [i \in 1..b |-> g[i]]
    BY <2>2
  <2>4. \A i \in 1..e : f[i] = g[i]
    BY <1>4, <2>2
  <2> QED BY <1>3, <2>1, <2>3, <2>4, ListsAgree
<1>8. \A i \in 1..e : Up(c, i) = Up(d, i) /\ Down(c, i) = Down(d, i)
  BY <1>4 DEF Up, Down
<1>9. Agree(PlusMoves(c), PlusMoves(d), e)
  <2>1. PICK f, g : f = PlusMoves(c) /\ g = PlusMoves(d)
    OBVIOUS
  <2>2. /\ f = [i \in 1..a |-> Scale * IF Up(c, i) > Down(c, i) /\ Up(c, i) > 0 THEN Up(c, i) ELSE 0]
        /\ g = [i \in 1..b |-> Scale * IF Up(d, i) > Down(d, i) /\ Up(d, i) > 0 THEN Up(d, i) ELSE 0]
    BY <1>2, <2>1 DEF PlusMoves
  <2>3. f = [i \in 1..a |-> f[i]] /\ g = [i \in 1..b |-> g[i]]
    BY <2>2
  <2>4. \A i \in 1..e : f[i] = g[i]
    BY <1>4, <1>8, <2>2
  <2> QED BY <1>3, <2>1, <2>3, <2>4, ListsAgree
<1>10. Agree(MinusMoves(c), MinusMoves(d), e)
  <2>1. PICK f, g : f = MinusMoves(c) /\ g = MinusMoves(d)
    OBVIOUS
  <2>2. /\ f = [i \in 1..a |-> Scale * IF Down(c, i) > Up(c, i) /\ Down(c, i) > 0 THEN Down(c, i) ELSE 0]
        /\ g = [i \in 1..b |-> Scale * IF Down(d, i) > Up(d, i) /\ Down(d, i) > 0 THEN Down(d, i) ELSE 0]
    BY <1>2, <2>1 DEF MinusMoves
  <2>3. f = [i \in 1..a |-> f[i]] /\ g = [i \in 1..b |-> g[i]]
    BY <2>2
  <2>4. \A i \in 1..e : f[i] = g[i]
    BY <1>4, <1>8, <2>2
  <2> QED BY <1>3, <2>1, <2>3, <2>4, ListsAgree
<1> QED BY <1>2, <1>5, <1>6, <1>7, <1>9, <1>10

\* The average true range lacks a value for each of the first n candles.
LEMMA ATRLong ==
    ASSUME NEW c, Sequence(c), NEW n \in Nat \ {0}
    PROVE  Sequence(ATR(c, n)) /\ Len(ATR(c, n)) = IF Len(c) <= n THEN 0 ELSE Len(c) - n
<1>1. PICK l \in Nat : l = Len(c)
  BY SequenceIs
<1>2. CASE l <= n
  <2>1. ATR(c, n) = <<>>
    BY <1>1, <1>2 DEF ATR
  <2> QED BY <1>1, <1>2, <2>1, Empty
<1>3. CASE ~(l <= n)
  <2>1. ATR(c, n) = EMA(TrueRanges(c), n)
    BY <1>1, <1>3 DEF ATR
  <2>2. Sequence(TrueRanges(c)) /\ Len(TrueRanges(c)) = l - 1
    <3>1. 1 <= Len(c)
      BY <1>1, <1>3
    <3> QED BY <1>1, <3>1, PairsLong
  <2>3. /\ Sequence(EMA(TrueRanges(c), n))
        /\ Len(EMA(TrueRanges(c), n)) = IF Len(TrueRanges(c)) < n THEN 0 ELSE Len(TrueRanges(c)) - n + 1
    BY <2>2, EMALong
  <2>4. ~(l - 1 < n) /\ l - 1 - n + 1 = l - n
    BY <1>3
  <2> QED BY <1>1, <1>3, <2>1, <2>2, <2>3, <2>4
<1> QED BY <1>2, <1>3

\* An ATR never looks ahead.
LEMMA ATRAlike ==
    ASSUME NEW c, NEW d, NEW m, Agree(c, d, m), NEW n \in Nat \ {0}, n < m
    PROVE  Agree(ATR(c, n), ATR(d, n), m - n)
<1>1. /\ Sequence(c) /\ Sequence(d) /\ m \in Nat /\ m <= Len(c) /\ m <= Len(d)
      /\ Len(c) \in Nat /\ Len(d) \in Nat
  BY SequenceIs DEF Agree
<1>2. ~(Len(c) < n + 1) /\ ~(Len(d) < n + 1) /\ 1 <= m /\ n <= m - 1 /\ m - 1 - n + 1 = m - n
  BY <1>1
<1>3. ATR(c, n) = EMA(TrueRanges(c), n) /\ ATR(d, n) = EMA(TrueRanges(d), n)
  BY <1>2 DEF ATR
<1>4. Agree(TrueRanges(c), TrueRanges(d), m - 1)
  BY <1>2, PairsAlike
<1>5. Agree(EMA(TrueRanges(c), n), EMA(TrueRanges(d), n), m - 1 - n + 1)
  BY <1>2, <1>4, EMAAlike
<1> QED BY <1>2, <1>3, <1>5

\* The RSI too.
LEMMA RSILong ==
    ASSUME NEW c, Sequence(c), NEW n \in Nat \ {0}
    PROVE  Sequence(RSI(c, n)) /\ Len(RSI(c, n)) = IF Len(c) <= n THEN 0 ELSE Len(c) - n
<1>1. PICK l \in Nat : l = Len(c)
  BY SequenceIs
<1>2. CASE l <= n
  <2>1. RSI(c, n) = <<>>
    BY <1>1, <1>2 DEF RSI
  <2> QED BY <1>1, <1>2, <2>1, Empty
<1>3. CASE ~(l <= n)
  <2>1. PICK k \in Nat : k = l - n
    BY <1>3
  <2>2. PICK g, w : g = Wilder(Gains(c), n) /\ w = Wilder(Losses(c), n)
    OBVIOUS
  <2>3. Sequence(Gains(c)) /\ Len(Gains(c)) = l - 1
    <3>1. 1 <= Len(c)
      BY <1>1, <1>3
    <3> QED BY <1>1, <3>1, PairsLong
  <2>4. n <= l - 1 /\ l - 1 - n + 1 = k
    BY <1>3, <2>1
  <2>5. Sequence(g) /\ Len(g) = k
    BY <2>2, <2>3, <2>4, SmoothedLong
  <2>6. PICK f : f = [i \in 1..k |-> Share(g[i], w[i])]
    OBVIOUS
  <2>7. RSI(c, n) = f
    <3>1. ~(Len(c) < n + 1) /\ DOMAIN g = 1..k
      BY <1>1, <1>3, <2>5, SequenceIs
    <3> QED BY <2>2, <2>6, <3>1 DEF RSI
  <2>8. f = [i \in 1..k |-> f[i]]
    BY <2>6
  <2> QED BY <1>1, <1>3, <2>1, <2>7, <2>8, Listed
<1> QED BY <1>2, <1>3

\* An RSI never looks ahead.
LEMMA RSIAlike ==
    ASSUME NEW c, NEW d, NEW m, Agree(c, d, m), NEW n \in Nat \ {0}, n < m
    PROVE  Agree(RSI(c, n), RSI(d, n), m - n)
<1>1. /\ Sequence(c) /\ Sequence(d) /\ m \in Nat /\ m <= Len(c) /\ m <= Len(d)
      /\ Len(c) \in Nat /\ Len(d) \in Nat
  BY SequenceIs DEF Agree
<1>2. ~(Len(c) < n + 1) /\ ~(Len(d) < n + 1) /\ 1 <= m /\ n <= m - 1 /\ m - 1 - n + 1 = m - n
  BY <1>1
<1>3. PICK g, w : g = Wilder(Gains(c), n) /\ w = Wilder(Losses(c), n)
  OBVIOUS
<1>4. PICK h, x : h = Wilder(Gains(d), n) /\ x = Wilder(Losses(d), n)
  OBVIOUS
<1>5. PICK e \in Nat : e = m - n
  BY <1>1, <1>2
<1>6. Agree(Gains(c), Gains(d), m - 1) /\ Agree(Losses(c), Losses(d), m - 1)
  BY <1>2, PairsAlike
<1>7. Agree(g, h, m - 1 - n + 1) /\ Agree(w, x, m - 1 - n + 1)
  BY <1>2, <1>3, <1>4, <1>6, SmoothedAlike
<1>8. Agree(g, h, e) /\ Agree(w, x, e)
  BY <1>2, <1>5, <1>7
<1>9. RSI(c, n) = [i \in DOMAIN g |-> Share(g[i], w[i])] /\ RSI(d, n) = [i \in DOMAIN h |-> Share(h[i], x[i])]
  BY <1>2, <1>3, <1>4 DEF RSI
<1>10. Sequence(g) /\ Sequence(h) /\ e <= Len(g) /\ e <= Len(h)
  BY <1>8 DEF Agree
<1>11. DOMAIN g = 1..Len(g) /\ Len(g) \in Nat /\ DOMAIN h = 1..Len(h) /\ Len(h) \in Nat
  BY <1>10, SequenceIs
<1>12. PICK r, s : r = RSI(c, n) /\ s = RSI(d, n)
  OBVIOUS
<1>13. r = [i \in 1..Len(g) |-> r[i]] /\ s = [i \in 1..Len(h) |-> s[i]]
  BY <1>9, <1>11, <1>12
<1>14. \A i \in 1..e : r[i] = s[i]
  <2>1. \A i \in 1..e : g[i] = h[i] /\ w[i] = x[i] /\ i \in 1..Len(g) /\ i \in 1..Len(h)
    BY <1>8, <1>10, <1>11 DEF Agree
  <2> QED BY <1>9, <1>11, <1>12, <2>1
<1> QED BY <1>5, <1>10, <1>11, <1>12, <1>13, <1>14, ListsAgree

\* The line a fast average minus a slow one, h values shorter.
LEMMA DifferenceLong ==
    ASSUME NEW a, NEW b, Sequence(b), NEW k
    PROVE  Sequence(Difference(a, b, k)) /\ Len(Difference(a, b, k)) = Len(b)
<1>1. PICK l \in Nat : l = Len(b) /\ DOMAIN b = 1..l
  BY SequenceIs
<1>2. Difference(a, b, k) = [i \in 1..l |-> Difference(a, b, k)[i]]
  BY <1>1 DEF Difference
<1> QED BY <1>1, <1>2, Listed

\* Nor does the difference of two series that end together.
LEMMA DifferenceAlike ==
    ASSUME NEW a, NEW b, NEW x, NEW y, NEW h \in Nat, NEW m, Agree(b, y, m), Agree(a, x, m + h),
           Len(a) = Len(b) + h, Len(x) = Len(y) + h, NEW k
    PROVE  Agree(Difference(a, b, k), Difference(x, y, k), m)
<1>1. /\ Sequence(b) /\ Sequence(y) /\ m \in Nat /\ m <= Len(b) /\ m <= Len(y)
      /\ \A i \in 1..m : b[i] = y[i]
  BY DEF Agree
<1>2. PICK l \in Nat, o \in Nat : l = Len(b) /\ DOMAIN b = 1..l /\ o = Len(y) /\ DOMAIN y = 1..o
  BY <1>1, SequenceIs
<1>3. PICK r, s : r = Difference(a, b, k) /\ s = Difference(x, y, k)
  OBVIOUS
<1>4. /\ r = [i \in 1..l |-> k * a[i + Len(a) - Len(b)] - b[i]]
      /\ s = [i \in 1..o |-> k * x[i + Len(x) - Len(y)] - y[i]]
  BY <1>2, <1>3 DEF Difference
<1>5. r = [i \in 1..l |-> r[i]] /\ s = [i \in 1..o |-> s[i]]
  BY <1>4
<1>6. ASSUME NEW i \in 1..m PROVE r[i] = s[i]
  <2>1. i \in 1..l /\ i \in 1..o /\ i + h \in 1..(m + h)
    BY <1>1, <1>2
  <2>2. i + Len(a) - Len(b) = i + h /\ i + Len(x) - Len(y) = i + h
    BY <1>2
  <2>3. a[i + h] = x[i + h]
    BY <2>1 DEF Agree
  <2>4. b[i] = y[i]
    BY <1>1
  <2>5. r[i] = k * a[i + Len(a) - Len(b)] - b[i]
    BY ONLY <1>4, <2>1
  <2>6. s[i] = k * x[i + Len(x) - Len(y)] - y[i]
    BY ONLY <1>4, <2>1
  <2> QED BY ONLY <2>2, <2>3, <2>4, <2>5, <2>6, Zenon
<1>7. m \in Nat /\ m <= l /\ m <= o
  BY <1>1, <1>2
<1>8. Agree(r, s, m)
  BY ONLY l \in Nat, o \in Nat, <1>5, <1>6, <1>7, ListsAgree
<1> QED BY ONLY <1>3, <1>8, Zenon

Line(c, fast, slow, k) == Difference(EMA(Closes(c), fast), EMA(Closes(c), slow), k)

\* A fast average minus a slow one, and where the two are there.
LEMMA LineLong ==
    ASSUME NEW c, Sequence(c), NEW fast \in Nat \ {0}, NEW slow \in Nat \ {0}, fast <= slow, NEW k
    PROVE  /\ Sequence(Line(c, fast, slow, k))
           /\ Len(Line(c, fast, slow, k)) = IF Len(c) < slow THEN 0 ELSE Len(c) - slow + 1
           /\ EMA(Closes(c), fast) = <<>> \/ EMA(Closes(c), slow) = <<>> <=> Len(c) < slow
           /\ Len(EMA(Closes(c), fast)) = IF Len(c) < fast THEN 0 ELSE Len(c) - fast + 1
           /\ Len(EMA(Closes(c), slow)) = IF Len(c) < slow THEN 0 ELSE Len(c) - slow + 1
<1>1. PICK f, s : f = EMA(Closes(c), fast) /\ s = EMA(Closes(c), slow)
  OBVIOUS
<1>2. PICK l \in Nat : l = Len(c) /\ Sequence(Closes(c)) /\ Len(Closes(c)) = l
  BY SequenceIs, ClosesAre
<1>3. /\ Sequence(f) /\ Len(f) = IF l < fast THEN 0 ELSE l - fast + 1
      /\ Sequence(s) /\ Len(s) = IF l < slow THEN 0 ELSE l - slow + 1
  BY <1>1, <1>2, EMALong
<1>4. (f = <<>> <=> l < fast) /\ (s = <<>> <=> l < slow)
  <2>1. (f = <<>> <=> Len(f) = 0) /\ (s = <<>> <=> Len(s) = 0)
    BY <1>3, SequenceIs
  <2>2. (l < fast <=> Len(f) = 0) /\ (l < slow <=> Len(s) = 0)
    BY <1>3
  <2> QED BY <2>1, <2>2
<1>5. f = <<>> \/ s = <<>> <=> l < slow
  BY <1>4
<1>6. Sequence(Difference(f, s, k)) /\ Len(Difference(f, s, k)) = Len(s)
  BY <1>3, DifferenceLong
<1> QED BY <1>1, <1>2, <1>3, <1>5, <1>6 DEF Line

\* The difference of two EMAs never looks ahead.
LEMMA LineAlike ==
    ASSUME NEW c, NEW d, NEW m, Agree(c, d, m), NEW fast \in Nat \ {0}, NEW slow \in Nat \ {0},
           fast <= slow, slow <= m, NEW k
    PROVE  Agree(Line(c, fast, slow, k), Line(d, fast, slow, k), m - slow + 1)
<1>1. /\ Sequence(c) /\ Sequence(d) /\ m \in Nat /\ m <= Len(c) /\ m <= Len(d)
      /\ Len(c) \in Nat /\ Len(d) \in Nat
  BY SequenceIs DEF Agree
<1>2. PICK l \in Nat, o \in Nat : l = Len(c) /\ o = Len(d)
  BY <1>1
<1>3. fast <= m /\ ~(l < fast) /\ ~(o < fast) /\ ~(l < slow) /\ ~(o < slow)
  BY <1>1, <1>2
<1>4. Agree(Closes(c), Closes(d), m)
  BY ClosesAgree
<1>5. PICK a, x : a = EMA(Closes(c), fast) /\ x = EMA(Closes(d), fast)
  OBVIOUS
<1>6. PICK b, y : b = EMA(Closes(c), slow) /\ y = EMA(Closes(d), slow)
  OBVIOUS
<1>7. Agree(a, x, m - fast + 1) /\ Agree(b, y, m - slow + 1)
  BY <1>3, <1>4, <1>5, <1>6, EMAAlike
<1>8. Len(a) = l - fast + 1 /\ Len(b) = l - slow + 1 /\ Len(x) = o - fast + 1 /\ Len(y) = o - slow + 1
  BY <1>1, <1>2, <1>3, <1>5, <1>6, LineLong
<1>9. PICK h \in Nat : h = slow - fast
  OBVIOUS
<1>10. PICK e \in Nat : e = m - slow + 1
  <2>1. m - slow + 1 \in Nat
    BY <1>1
  <2> QED BY <2>1
<1>11. Len(a) = Len(b) + h /\ Len(x) = Len(y) + h /\ m - fast + 1 = e + h
  BY <1>1, <1>2, <1>8, <1>9, <1>10
<1>12. Agree(b, y, e) /\ Agree(a, x, e + h)
  BY <1>7, <1>10, <1>11
<1>13. Agree(Difference(a, b, k), Difference(x, y, k), e)
  BY <1>11, <1>12, DifferenceAlike
<1> QED BY <1>5, <1>6, <1>10, <1>13 DEF Line

\* The MACD, from the line and the average of it.
MACDOn(line, sig) ==
    [i \in DOMAIN sig |-> [macd |-> line[i + Len(line) - Len(sig)], signal |-> sig[i],
                           histogram |-> line[i + Len(line) - Len(sig)] - sig[i]]]

\* The MACD, given its line.
LEMMA MACDIs ==
    ASSUME NEW c, Sequence(c), NEW fast \in Nat \ {0}, NEW slow \in Nat \ {0}, fast <= slow, NEW n
    PROVE  /\ Len(c) < slow => MACD(c, fast, slow, n) = <<>>
           /\ ~(Len(c) < slow) =>
                 MACD(c, fast, slow, n) = MACDOn(Line(c, fast, slow, 1), EMA(Line(c, fast, slow, 1), n))
BY LineLong DEF MACD, MACDOn, Line

\* With enough candles the MACD is of a line as long as the slow EMA.
LEMMA MACDOnLine ==
    ASSUME NEW c, Sequence(c), NEW fast \in Nat \ {0}, NEW slow \in Nat \ {0}, fast <= slow, NEW n,
           ~(Len(c) < slow), NEW line, line = Line(c, fast, slow, 1), NEW sig, sig = EMA(line, n)
    PROVE  /\ MACD(c, fast, slow, n) = MACDOn(line, sig)
           /\ Sequence(line) /\ Len(line) = Len(c) - slow + 1
<1>1. MACD(c, fast, slow, n) = MACDOn(line, sig)
  <2>1. MACD(c, fast, slow, n) = MACDOn(Line(c, fast, slow, 1), EMA(Line(c, fast, slow, 1), n))
    BY MACDIs
  <2> QED BY ONLY <2>1, line = Line(c, fast, slow, 1), sig = EMA(line, n), Zenon
<1>2. Sequence(line) /\ Len(line) = IF Len(c) < slow THEN 0 ELSE Len(c) - slow + 1
  <2>1. /\ Sequence(Line(c, fast, slow, 1))
        /\ Len(Line(c, fast, slow, 1)) = IF Len(c) < slow THEN 0 ELSE Len(c) - slow + 1
    BY LineLong
  <2> QED BY ONLY <2>1, line = Line(c, fast, slow, 1), Zenon
<1> QED BY <1>1, <1>2

\* The MACD begins when its slow EMA and then its signal have warmed up.
LEMMA MACDLong ==
    ASSUME NEW c, Sequence(c), NEW fast \in Nat \ {0}, NEW slow \in Nat \ {0}, fast <= slow,
           NEW signal \in Nat \ {0}
    PROVE  /\ Sequence(MACD(c, fast, slow, signal))
           /\ Len(MACD(c, fast, slow, signal))
                = IF Len(c) <= slow + signal - 2 THEN 0 ELSE Len(c) - (slow + signal - 2)
<1>1. PICK l \in Nat : l = Len(c)
  BY SequenceIs
<1>2. CASE l < slow
  <2>1. MACD(c, fast, slow, signal) = <<>>
    BY <1>1, <1>2, MACDIs
  <2>2. l <= slow + signal - 2
    BY <1>2
  <2> QED BY <1>1, <2>1, <2>2, Empty
<1>3. CASE ~(l < slow)
  <2>1. PICK line : line = Line(c, fast, slow, 1)
    OBVIOUS
  <2>2. PICK sig : sig = EMA(line, signal)
    OBVIOUS
  <2>3. /\ MACD(c, fast, slow, signal) = MACDOn(line, sig)
        /\ Sequence(line) /\ Len(line) = l - slow + 1
    BY <1>1, <1>3, <2>1, <2>2, MACDOnLine
  <2>4. Sequence(sig) /\ Len(sig) = IF Len(line) < signal THEN 0 ELSE Len(line) - signal + 1
    BY <2>2, <2>3, EMALong
  <2>5. PICK k \in Nat : k = Len(sig) /\ DOMAIN sig = 1..k
    BY <2>4, SequenceIs
  <2>6. MACDOn(line, sig) = [i \in 1..k |-> MACDOn(line, sig)[i]]
    BY <2>5 DEF MACDOn
  <2>7. Sequence(MACDOn(line, sig)) /\ Len(MACDOn(line, sig)) = k
    BY <2>6, Listed
  <2>8. k = IF l <= slow + signal - 2 THEN 0 ELSE l - (slow + signal - 2)
    BY <1>3, <2>3, <2>4, <2>5
  <2> QED BY <1>1, <2>3, <2>7, <2>8
<1> QED BY <1>2, <1>3

\* A value of the MACD is of its own bar and earlier ones.
LEMMA MACDKept ==
    ASSUME NEW c, NEW d, NEW m, Agree(c, d, m), NEW fast \in Nat \ {0}, NEW slow \in Nat \ {0},
           fast <= slow, NEW signal \in Nat \ {0}, NEW i \in 1..(m - (slow + signal - 2))
    PROVE  MACD(c, fast, slow, signal)[i] = MACD(d, fast, slow, signal)[i]
<1>1. /\ Sequence(c) /\ Sequence(d) /\ m \in Nat /\ m <= Len(c) /\ m <= Len(d)
      /\ Len(c) \in Nat /\ Len(d) \in Nat
  BY SequenceIs DEF Agree
<1>2. PICK l \in Nat, o \in Nat : l = Len(c) /\ o = Len(d)
  BY <1>1
<1>3. slow + signal - 1 <= m /\ m <= l /\ m <= o
  BY <1>1, <1>2
<1>4. ~(l < slow) /\ ~(o < slow) /\ slow <= m /\ fast <= m
  BY <1>1, <1>3
<1>5. PICK line, line2 : line = Line(c, fast, slow, 1) /\ line2 = Line(d, fast, slow, 1)
  OBVIOUS
<1>6. PICK sig, sig2 : sig = EMA(line, signal) /\ sig2 = EMA(line2, signal)
  OBVIOUS
<1>7. /\ MACD(c, fast, slow, signal) = MACDOn(line, sig)
      /\ Sequence(line) /\ Len(line) = l - slow + 1
  <2>1. ~(Len(c) < slow) /\ line = Line(c, fast, slow, 1) /\ sig = EMA(line, signal)
    BY <1>2, <1>4, <1>5, <1>6
  <2>2. /\ MACD(c, fast, slow, signal) = MACDOn(line, sig)
        /\ Sequence(line) /\ Len(line) = Len(c) - slow + 1
    BY ONLY <1>1, <2>1, fast \in Nat \ {0}, slow \in Nat \ {0}, fast <= slow, MACDOnLine
  <2> QED BY <1>2, <2>2
<1>8. /\ MACD(d, fast, slow, signal) = MACDOn(line2, sig2)
      /\ Sequence(line2) /\ Len(line2) = o - slow + 1
  <2>1. ~(Len(d) < slow) /\ line2 = Line(d, fast, slow, 1) /\ sig2 = EMA(line2, signal)
    BY <1>2, <1>4, <1>5, <1>6
  <2>2. /\ MACD(d, fast, slow, signal) = MACDOn(line2, sig2)
        /\ Sequence(line2) /\ Len(line2) = Len(d) - slow + 1
    BY ONLY <1>1, <2>1, fast \in Nat \ {0}, slow \in Nat \ {0}, fast <= slow, MACDOnLine
  <2> QED BY <1>2, <2>2
<1>9. PICK e \in Nat \ {0} : e = m - slow + 1
  <2>1. m - slow + 1 \in Nat \ {0}
    BY <1>1, <1>4
  <2> QED BY <2>1
<1>10. Agree(line, line2, e)
  BY <1>4, <1>5, <1>9, LineAlike
<1>11. signal <= e /\ Len(line) \in Nat /\ Len(line2) \in Nat /\ e <= Len(line) /\ e <= Len(line2)
  BY <1>1, <1>2, <1>3, <1>4, <1>7, <1>8, <1>9
<1>12. Agree(sig, sig2, e - signal + 1)
  BY <1>6, <1>10, <1>11, EMAAlike
<1>13. Len(sig) = Len(line) - signal + 1 /\ Len(sig2) = Len(line2) - signal + 1 /\ Sequence(sig) /\ Sequence(sig2)
  <2>1. ~(Len(line) < signal) /\ ~(Len(line2) < signal)
    BY <1>11
  <2> QED BY <1>6, <1>7, <1>8, <2>1, EMALong
<1>14. i \in 1..(e - signal + 1) /\ i \in 1..Len(sig) /\ i \in 1..Len(sig2)
  BY <1>1, <1>3, <1>9, <1>11, <1>13
<1>15. sig[i] = sig2[i]
  BY <1>12, <1>14 DEF Agree
<1>16. PICK j \in 1..e : j = i + signal - 1
  <2>1. i + signal - 1 \in 1..e
    BY <1>9, <1>14
  <2> QED BY <2>1
<1>17. i + Len(line) - Len(sig) = j /\ i + Len(line2) - Len(sig2) = j
  BY <1>11, <1>13, <1>16
<1>18. line[j] = line2[j]
  BY <1>10, <1>16 DEF Agree
<1>19. DOMAIN sig = 1..Len(sig) /\ DOMAIN sig2 = 1..Len(sig2)
  BY <1>13, SequenceIs
<1>20. MACDOn(line, sig)[i] = MACDOn(line2, sig2)[i]
  BY <1>14, <1>15, <1>17, <1>18, <1>19 DEF MACDOn
<1> QED BY <1>7, <1>8, <1>20

\* The Hull average is an average of such a line.
LEMMA HullIs ==
    ASSUME NEW c, Sequence(c), NEW n \in Nat \ {0}, NEW half \in Nat \ {0}, half <= n, NEW root
    PROVE  HullMA(c, n, half, root) = IF Len(c) < n THEN <<>> ELSE EMA(Line(c, half, n, 2), root)
BY LineLong DEF HullMA, Line

\* The Hull average begins when its two averages have warmed up.
LEMMA HullLong ==
    ASSUME NEW c, Sequence(c), NEW n \in Nat \ {0}, NEW half \in Nat \ {0}, half <= n,
           NEW root \in Nat \ {0}
    PROVE  /\ Sequence(HullMA(c, n, half, root))
           /\ Len(HullMA(c, n, half, root)) = IF Len(c) <= n + root - 2 THEN 0 ELSE Len(c) - (n + root - 2)
<1>1. PICK l \in Nat : l = Len(c)
  BY SequenceIs
<1>2. CASE l < n
  <2>1. HullMA(c, n, half, root) = <<>> /\ l <= n + root - 2
    BY <1>1, <1>2, HullIs
  <2> QED BY <1>1, <2>1, Empty
<1>3. CASE ~(l < n)
  <2>1. PICK line : line = Line(c, half, n, 2)
    OBVIOUS
  <2>2. HullMA(c, n, half, root) = EMA(line, root)
    BY <1>1, <1>3, <2>1, HullIs
  <2>3. Sequence(line) /\ Len(line) = l - n + 1
    BY <1>1, <1>3, <2>1, LineLong
  <2>4. /\ Sequence(EMA(line, root))
        /\ Len(EMA(line, root)) = IF Len(line) < root THEN 0 ELSE Len(line) - root + 1
    BY <2>3, EMALong
  <2>5. Len(EMA(line, root)) = IF l <= n + root - 2 THEN 0 ELSE l - (n + root - 2)
    BY <1>3, <2>3, <2>4
  <2> QED BY <1>1, <2>2, <2>4, <2>5
<1> QED BY <1>2, <1>3

\* A value of the Hull average is of its own bar and earlier ones.
LEMMA HullKept ==
    ASSUME NEW c, NEW d, NEW m, Agree(c, d, m), NEW n \in Nat \ {0}, NEW half \in Nat \ {0}, half <= n,
           NEW root \in Nat \ {0}, NEW i \in 1..(m - (n + root - 2))
    PROVE  HullMA(c, n, half, root)[i] = HullMA(d, n, half, root)[i]
<1>1. /\ Sequence(c) /\ Sequence(d) /\ m \in Nat /\ m <= Len(c) /\ m <= Len(d)
      /\ Len(c) \in Nat /\ Len(d) \in Nat
  BY SequenceIs DEF Agree
<1>2. n + root - 1 <= m /\ n <= m /\ ~(Len(c) < n) /\ ~(Len(d) < n)
  BY <1>1
<1>3. PICK e \in Nat : e = m - n + 1
  <2>1. m - n + 1 \in Nat
    BY <1>1, <1>2
  <2> QED BY <2>1
<1>4. PICK a, b : a = Line(c, half, n, 2) /\ b = Line(d, half, n, 2)
  OBVIOUS
<1>5. Agree(a, b, e)
  BY <1>2, <1>3, <1>4, LineAlike
<1>6. root <= e /\ i \in 1..(e - root + 1)
  BY <1>1, <1>2, <1>3
<1>7. Agree(EMA(a, root), EMA(b, root), e - root + 1)
  BY <1>5, <1>6, EMAAlike
<1>8. EMA(a, root)[i] = EMA(b, root)[i]
  BY <1>6, <1>7 DEF Agree
<1>9. HullMA(c, n, half, root) = EMA(a, root) /\ HullMA(d, n, half, root) = EMA(b, root)
  BY <1>1, <1>2, <1>4, HullIs
<1> QED BY <1>8, <1>9

\* The Keltner channel is about the average, one value shorter than that is.
LEMMA KeltnerLong ==
    ASSUME NEW c, Sequence(c), NEW n \in Nat \ {0}, NEW halves
    PROVE  /\ Sequence(KeltnerChannel(c, n, halves))
           /\ Len(KeltnerChannel(c, n, halves)) = IF Len(c) <= n THEN 0 ELSE Len(c) - n
<1>1. PICK atr : atr = ATR(c, n)
  OBVIOUS
<1>2. Sequence(atr) /\ Len(atr) = IF Len(c) <= n THEN 0 ELSE Len(c) - n
  BY <1>1, ATRLong
<1>3. PICK k \in Nat : k = Len(atr) /\ DOMAIN atr = 1..k
  BY <1>2, SequenceIs
<1>4. KeltnerChannel(c, n, halves) = [i \in 1..k |-> KeltnerChannel(c, n, halves)[i]]
  BY <1>1, <1>3 DEF KeltnerChannel
<1> QED BY <1>2, <1>3, <1>4, Listed

\* A Keltner band is of its own bar and earlier ones.
LEMMA KeltnerKept ==
    ASSUME NEW c, NEW d, NEW m, Agree(c, d, m), NEW n \in Nat \ {0}, NEW halves, NEW i \in 1..(m - n)
    PROVE  KeltnerChannel(c, n, halves)[i] = KeltnerChannel(d, n, halves)[i]
<1>1. /\ Sequence(c) /\ Sequence(d) /\ m \in Nat /\ m <= Len(c) /\ m <= Len(d)
      /\ Len(c) \in Nat /\ Len(d) \in Nat
  BY SequenceIs DEF Agree
<1>2. PICK l \in Nat, o \in Nat : l = Len(c) /\ o = Len(d)
  BY <1>1
<1>3. n < m /\ n <= m /\ ~(l <= n) /\ ~(o <= n) /\ ~(l < n) /\ ~(o < n)
  BY <1>1, <1>2
<1>4. PICK a, b : a = ATR(c, n) /\ b = ATR(d, n)
  OBVIOUS
<1>5. PICK x, y : x = EMA(Closes(c), n) /\ y = EMA(Closes(d), n)
  OBVIOUS
<1>6. Agree(a, b, m - n)
  BY <1>3, <1>4, ATRAlike
<1>7. Agree(x, y, m - n + 1)
  BY <1>3, <1>5, ClosesAgree, EMAAlike
<1>8. Len(a) = l - n /\ Len(b) = o - n /\ Sequence(a) /\ Sequence(b)
  BY <1>1, <1>2, <1>3, <1>4, ATRLong
<1>9. Len(x) = l - n + 1 /\ Len(y) = o - n + 1
  <2>1. Sequence(Closes(c)) /\ Len(Closes(c)) = l /\ Sequence(Closes(d)) /\ Len(Closes(d)) = o
    BY <1>1, <1>2, ClosesAre
  <2> QED BY <1>3, <1>5, <2>1, EMALong
<1>10. i \in 1..Len(a) /\ i \in 1..Len(b) /\ i + 1 \in 1..(m - n + 1)
  BY <1>1, <1>2, <1>8
<1>11. a[i] = b[i] /\ x[i + 1] = y[i + 1]
  BY <1>6, <1>7, <1>10 DEF Agree
<1>12. i + Len(x) - Len(a) = i + 1 /\ i + Len(y) - Len(b) = i + 1
  BY <1>8, <1>9
<1>13. i \in DOMAIN a /\ i \in DOMAIN b
  BY <1>8, <1>10, SequenceIs
<1>14. KeltnerChannel(c, n, halves)[i]
         = [upper |-> x[i + 1] + Over(halves * a[i], 2), middle |-> x[i + 1],
            lower |-> x[i + 1] - Over(halves * a[i], 2)]
  BY <1>4, <1>5, <1>12, <1>13 DEF KeltnerChannel
<1>15. KeltnerChannel(d, n, halves)[i]
         = [upper |-> y[i + 1] + Over(halves * b[i], 2), middle |-> y[i + 1],
            lower |-> y[i + 1] - Over(halves * b[i], 2)]
  BY <1>4, <1>5, <1>12, <1>13 DEF KeltnerChannel
<1> QED BY <1>11, <1>14, <1>15

\* The stochastic of the RSI: windows of windows.
StochLag(n, k, d) == n + k + d - 2

\* The stochastic RSI begins when its three windows are full.
LEMMA StochRSILong ==
    ASSUME NEW c, Sequence(c), NEW n \in Nat \ {0}, NEW k \in Nat \ {0}, NEW d \in Nat \ {0}
    PROVE  /\ Sequence(StochRSI(c, n, k, d))
           /\ Len(StochRSI(c, n, k, d))
                = IF Len(c) <= StochLag(n, k, d) THEN 0 ELSE Len(c) - StochLag(n, k, d)
<1>1. PICK l \in Nat : l = Len(c)
  BY SequenceIs
<1>2. PICK r, s : r = RSI(c, n) /\ s = Viewed("stoch", r, k)
  OBVIOUS
<1>3. Sequence(r) /\ Len(r) = IF l <= n THEN 0 ELSE l - n
  BY <1>1, <1>2, RSILong
<1>4. Sequence(s) /\ Len(s) = IF Len(r) < k THEN 0 ELSE Len(r) - k + 1
  BY <1>2, <1>3, ViewedLong
<1>5. /\ Sequence(Viewed("kd", s, d))
      /\ Len(Viewed("kd", s, d)) = IF Len(s) < d THEN 0 ELSE Len(s) - d + 1
  BY <1>4, ViewedLong
<1>6. Len(Viewed("kd", s, d)) = IF l <= StochLag(n, k, d) THEN 0 ELSE l - StochLag(n, k, d)
  BY <1>3, <1>4, <1>5 DEF StochLag
<1> QED BY <1>1, <1>2, <1>5, <1>6, StochRSIIs

\* A value of the stochastic RSI is of its own bar and earlier ones.
LEMMA StochRSIKept ==
    ASSUME NEW c, NEW e, NEW m, Agree(c, e, m), NEW n \in Nat \ {0}, NEW k \in Nat \ {0},
           NEW d \in Nat \ {0}, NEW i \in 1..(m - (n + k + d - 2))
    PROVE  StochRSI(c, n, k, d)[i] = StochRSI(e, n, k, d)[i]
<1>1. m \in Nat
  BY DEF Agree
<1>2. n < m /\ k <= m - n /\ d <= m - n - k + 1 /\ i \in 1..(m - n - k + 1 - d + 1)
  BY <1>1
<1>3. Agree(RSI(c, n), RSI(e, n), m - n)
  BY <1>2, RSIAlike
<1>4. PICK r, s : r = Viewed("stoch", RSI(c, n), k) /\ s = Viewed("stoch", RSI(e, n), k)
  OBVIOUS
<1>5. Agree(r, s, m - n - k + 1)
  BY <1>2, <1>3, <1>4, ViewedAlike
<1>6. Agree(Viewed("kd", r, d), Viewed("kd", s, d), m - n - k + 1 - d + 1)
  <2>1. PICK j \in Nat : j = m - n - k + 1
    BY <1>5 DEF Agree
  <2>2. Agree(r, s, j) /\ d <= j
    BY <1>2, <1>5, <2>1
  <2>3. Agree(Viewed("kd", r, d), Viewed("kd", s, d), j - d + 1)
    BY <2>2, ViewedAlike
  <2>4. j - d + 1 = m - n - k + 1 - d + 1
    BY <1>1, <2>1
  <2> QED BY <2>3, <2>4
<1>7. Viewed("kd", r, d)[i] = Viewed("kd", s, d)[i]
  BY <1>2, <1>6 DEF Agree
<1> QED BY <1>4, <1>7, StochRSIIs

\* What the ADX averages.
DX(c, n) ==
    [i \in DOMAIN Smooth(TrueRanges(c), n) |->
       IF Smooth(TrueRanges(c), n)[i] = 0 \/ Smooth(PlusMoves(c), n)[i] + Smooth(MinusMoves(c), n)[i] = 0
       THEN Zero
       ELSE Frac(Distance(Smooth(PlusMoves(c), n)[i], Smooth(MinusMoves(c), n)[i]),
                 Smooth(PlusMoves(c), n)[i] + Smooth(MinusMoves(c), n)[i])]

\* The ADX, given the directional indices.
LEMMA ADXIs ==
    ASSUME NEW c, NEW n, ~(Len(c) < 2 * n)
    PROVE  ADX(c, n) = [i \in DOMAIN AverageDX(DX(c, n), n) |->
                          [adx |-> AverageDX(DX(c, n), n)[i],
                           plusDI |-> Smooth(PlusMoves(c), n)[i + n - 1],
                           minusDI |-> Smooth(MinusMoves(c), n)[i + n - 1]]]
BY DEF ADX, DX

\* A directional index for every smoothed range.
LEMMA DXLong ==
    ASSUME NEW c, Sequence(c), NEW n \in Nat \ {0}, 2 * n <= Len(c)
    PROVE  /\ DX(c, n) = [i \in 1..(Len(c) - n) |-> DX(c, n)[i]]
           /\ Sequence(DX(c, n)) /\ Len(DX(c, n)) = Len(c) - n
           /\ Sequence(AverageDX(DX(c, n), n)) /\ Len(AverageDX(DX(c, n), n)) = Len(c) - (2 * n - 1)
           /\ DOMAIN Smooth(TrueRanges(c), n) = 1..(Len(c) - n)
<1>1. PICK l \in Nat : l = Len(c)
  BY SequenceIs
<1>2. 1 <= Len(c) /\ n <= l - 1 /\ l - 1 - n + 1 = l - n
  BY <1>1
<1>3. Sequence(TrueRanges(c)) /\ Len(TrueRanges(c)) = l - 1
  BY <1>1, <1>2, PairsLong
<1>4. Sequence(Smooth(TrueRanges(c), n)) /\ Len(Smooth(TrueRanges(c), n)) = l - 1 - n + 1
  BY <1>2, <1>3, SmoothedLong
<1>5. PICK k \in Nat : k = l - n /\ n <= k
  <2>1. l - n \in Nat /\ n <= l - n
    BY <1>1, <1>2
  <2> QED BY <2>1
<1>6. DOMAIN Smooth(TrueRanges(c), n) = 1..k
  BY <1>2, <1>4, <1>5, SequenceIs
<1>7. DX(c, n) = [i \in 1..k |-> DX(c, n)[i]]
  BY <1>6 DEF DX
<1>8. Sequence(DX(c, n)) /\ Len(DX(c, n)) = k
  BY <1>7, Listed
<1>9. Sequence(AverageDX(DX(c, n), n)) /\ Len(AverageDX(DX(c, n), n)) = k - n + 1
  BY <1>5, <1>8, SmoothedLong
<1>10. k - n + 1 = l - (2 * n - 1)
  BY <1>5
<1> QED BY <1>1, <1>5, <1>6, <1>7, <1>8, <1>9, <1>10

\* The ADX begins when it has been smoothed twice.
LEMMA ADXLong ==
    ASSUME NEW c, Sequence(c), NEW n \in Nat \ {0}
    PROVE  /\ Sequence(ADX(c, n))
           /\ Len(ADX(c, n)) = IF Len(c) <= 2 * n - 1 THEN 0 ELSE Len(c) - (2 * n - 1)
<1>1. PICK l \in Nat : l = Len(c)
  BY SequenceIs
<1>2. CASE l < 2 * n
  <2>1. ADX(c, n) = <<>> /\ l <= 2 * n - 1
    BY <1>1, <1>2 DEF ADX
  <2> QED BY <1>1, <2>1, Empty
<1>3. CASE ~(l < 2 * n)
  <2>1. 2 * n <= l /\ ~(l <= 2 * n - 1)
    BY <1>3
  <2>2. PICK a : a = AverageDX(DX(c, n), n)
    OBVIOUS
  <2>3. Sequence(a) /\ Len(a) = l - (2 * n - 1)
    BY <1>1, <2>1, <2>2, DXLong
  <2>4. PICK k \in Nat : k = Len(a) /\ DOMAIN a = 1..k
    BY <2>3, SequenceIs
  <2>5. ADX(c, n) = [i \in 1..k |-> ADX(c, n)[i]]
    BY <1>1, <1>3, <2>2, <2>4, ADXIs
  <2> QED BY <1>1, <2>1, <2>3, <2>4, <2>5, Listed
<1> QED BY <1>2, <1>3

\* A value of the ADX is of its own bar and earlier ones.
LEMMA ADXKept ==
    ASSUME NEW c, NEW d, NEW m, Agree(c, d, m), NEW n \in Nat \ {0}, NEW i \in 1..(m - (2 * n - 1))
    PROVE  ADX(c, n)[i] = ADX(d, n)[i]
<1>1. /\ Sequence(c) /\ Sequence(d) /\ m \in Nat /\ m <= Len(c) /\ m <= Len(d)
      /\ Len(c) \in Nat /\ Len(d) \in Nat
  BY SequenceIs DEF Agree
<1>2. PICK l \in Nat, o \in Nat : l = Len(c) /\ o = Len(d)
  BY <1>1
<1>3. 2 * n <= m /\ ~(l < 2 * n) /\ ~(o < 2 * n) /\ 2 * n <= l /\ 2 * n <= o /\ 1 <= m /\ n <= m - 1
  BY <1>1, <1>2
<1>4. PICK e \in Nat : e = m - n /\ m - 1 - n + 1 = e /\ n <= e
  <2>1. m - n \in Nat /\ m - 1 - n + 1 = m - n /\ n <= m - n
    BY <1>1, <1>3
  <2> QED BY <2>1
<1>5. /\ Agree(TrueRanges(c), TrueRanges(d), m - 1)
      /\ Agree(PlusMoves(c), PlusMoves(d), m - 1)
      /\ Agree(MinusMoves(c), MinusMoves(d), m - 1)
  BY <1>3, PairsAlike
<1>6. /\ Agree(Smooth(TrueRanges(c), n), Smooth(TrueRanges(d), n), e)
      /\ Agree(Smooth(PlusMoves(c), n), Smooth(PlusMoves(d), n), e)
      /\ Agree(Smooth(MinusMoves(c), n), Smooth(MinusMoves(d), n), e)
  BY <1>3, <1>4, <1>5, SmoothedAlike
<1>7. PICK x, y : x = DX(c, n) /\ y = DX(d, n)
  OBVIOUS
<1>8. /\ x = [j \in 1..(l - n) |-> x[j]] /\ Sequence(AverageDX(x, n))
      /\ Len(AverageDX(x, n)) = l - (2 * n - 1) /\ DOMAIN Smooth(TrueRanges(c), n) = 1..(l - n)
  <2>1. Sequence(c) /\ 2 * n <= Len(c)
    BY <1>1, <1>2, <1>3
  <2>2. /\ DX(c, n) = [j \in 1..(Len(c) - n) |-> DX(c, n)[j]]
        /\ Sequence(AverageDX(DX(c, n), n))
        /\ Len(AverageDX(DX(c, n), n)) = Len(c) - (2 * n - 1)
        /\ DOMAIN Smooth(TrueRanges(c), n) = 1..(Len(c) - n)
    BY ONLY <2>1, n \in Nat \ {0}, DXLong
  <2> QED BY <1>2, <1>7, <2>2
<1>9. /\ y = [j \in 1..(o - n) |-> y[j]] /\ Sequence(AverageDX(y, n))
      /\ Len(AverageDX(y, n)) = o - (2 * n - 1) /\ DOMAIN Smooth(TrueRanges(d), n) = 1..(o - n)
  <2>1. Sequence(d) /\ 2 * n <= Len(d)
    BY <1>1, <1>2, <1>3
  <2>2. /\ DX(d, n) = [j \in 1..(Len(d) - n) |-> DX(d, n)[j]]
        /\ Sequence(AverageDX(DX(d, n), n))
        /\ Len(AverageDX(DX(d, n), n)) = Len(d) - (2 * n - 1)
        /\ DOMAIN Smooth(TrueRanges(d), n) = 1..(Len(d) - n)
    BY ONLY <2>1, n \in Nat \ {0}, DXLong
  <2> QED BY <1>2, <1>7, <2>2
<1>10. \A j \in 1..e : x[j] = y[j]
  <2>1. \A j \in 1..e : j \in 1..(l - n) /\ j \in 1..(o - n)
    BY <1>1, <1>2, <1>4
  <2>2. \A j \in 1..e : /\ Smooth(TrueRanges(c), n)[j] = Smooth(TrueRanges(d), n)[j]
                        /\ Smooth(PlusMoves(c), n)[j] = Smooth(PlusMoves(d), n)[j]
                        /\ Smooth(MinusMoves(c), n)[j] = Smooth(MinusMoves(d), n)[j]
    BY <1>6 DEF Agree
  <2> QED BY <1>7, <1>8, <1>9, <2>1, <2>2 DEF DX
<1>11. Agree(x, y, e)
  <2>1. PICK a \in Nat, b \in Nat : a = l - n /\ b = o - n /\ e <= a /\ e <= b
    <3>1. l - n \in Nat /\ o - n \in Nat /\ e <= l - n /\ e <= o - n
      BY <1>1, <1>2, <1>3, <1>4
    <3> QED BY <3>1
  <2> QED BY <1>8, <1>9, <1>10, <2>1, ListsAgree
<1>12. Agree(AverageDX(x, n), AverageDX(y, n), e - n + 1)
  BY <1>4, <1>11, SmoothedAlike
<1>13. /\ i \in 1..(e - n + 1) /\ i + n - 1 \in 1..e
       /\ i \in 1..(l - (2 * n - 1)) /\ i \in 1..(o - (2 * n - 1))
  BY <1>1, <1>2, <1>3, <1>4
<1>14. i \in DOMAIN AverageDX(x, n) /\ i \in DOMAIN AverageDX(y, n)
  BY <1>8, <1>9, <1>13, SequenceIs
<1>15. AverageDX(x, n)[i] = AverageDX(y, n)[i]
  BY <1>12, <1>13 DEF Agree
<1>16. PICK j \in 1..e : j = i + n - 1
  BY <1>13
<1>17. /\ Smooth(PlusMoves(c), n)[j] = Smooth(PlusMoves(d), n)[j]
       /\ Smooth(MinusMoves(c), n)[j] = Smooth(MinusMoves(d), n)[j]
  BY <1>6 DEF Agree
<1>18. ADX(c, n)[i] = [adx |-> AverageDX(x, n)[i], plusDI |-> Smooth(PlusMoves(c), n)[j],
                       minusDI |-> Smooth(MinusMoves(c), n)[j]]
  BY <1>2, <1>3, <1>7, <1>14, <1>16, ADXIs
<1>19. ADX(d, n)[i] = [adx |-> AverageDX(y, n)[i], plusDI |-> Smooth(PlusMoves(d), n)[j],
                       minusDI |-> Smooth(MinusMoves(d), n)[j]]
  BY <1>2, <1>3, <1>7, <1>14, <1>16, ADXIs
<1> QED BY <1>15, <1>17, <1>18, <1>19

\* Ichimoku has lines from the kijun-th candle on, once there are senkou candles.
IchimokuAt(c, tenkan, kijun, senkou, i) ==
    [tenkan |-> IF i >= tenkan THEN Midpoint(c, i - tenkan + 1, i) ELSE 0,
     kijun |-> Midpoint(c, i - kijun + 1, i),
     senkouA |-> IF i >= tenkan
                 THEN Over((IF i >= tenkan THEN Midpoint(c, i - tenkan + 1, i) ELSE 0)
                             + Midpoint(c, i - kijun + 1, i), 2)
                 ELSE 0,
     senkouB |-> IF i >= senkou THEN Midpoint(c, i - senkou + 1, i) ELSE 0,
     chikou |-> Scale * c[i].close]

\* The cloud begins late, and then with all the bars that have a kijun.
LEMMA IchimokuLong ==
    ASSUME NEW c, Sequence(c), NEW t, NEW k \in Nat \ {0}, NEW s \in Nat \ {0}, k <= s
    PROVE  /\ Sequence(Ichimoku(c, t, k, s))
           /\ Len(Ichimoku(c, t, k, s)) = IF Len(c) <= s - 1 THEN 0 ELSE Len(c) - (k - 1)
           /\ ~(Len(c) < s) => \A j \in 1..(Len(c) - k + 1) :
                                  Ichimoku(c, t, k, s)[j] = IchimokuAt(c, t, k, s, j + k - 1)
<1>1. PICK l \in Nat : l = Len(c)
  BY SequenceIs
<1>2. CASE l < s
  <2>1. Ichimoku(c, t, k, s) = <<>> /\ l <= s - 1
    BY <1>1, <1>2 DEF Ichimoku
  <2> QED BY <1>1, <1>2, <2>1, Empty
<1>3. CASE ~(l < s)
  <2>1. PICK o \in Nat : o = l - k + 1
    <3>1. l - k + 1 \in Nat
      BY <1>3
    <3> QED BY <3>1
  <2>2. PICK f : f = [j \in 1..o |-> IchimokuAt(c, t, k, s, j + k - 1)]
    OBVIOUS
  <2>3. Ichimoku(c, t, k, s) = f
    BY <1>1, <1>3, <2>1, <2>2 DEF Ichimoku, IchimokuAt
  <2>4. f = [j \in 1..o |-> f[j]] /\ \A j \in 1..o : f[j] = IchimokuAt(c, t, k, s, j + k - 1)
    BY <2>2
  <2>5. Sequence(f) /\ Len(f) = o
    BY <2>4, Listed
  <2>6. ~(l <= s - 1) /\ o = l - (k - 1)
    BY <1>3, <2>1
  <2> QED BY <1>1, <1>3, <2>1, <2>3, <2>4, <2>5, <2>6
<1> QED BY <1>2, <1>3

\* A value of the cloud is of its own bar and earlier ones.
LEMMA IchimokuKept ==
    ASSUME NEW c, NEW d, NEW m, Agree(c, d, m), NEW t \in Nat \ {0}, NEW k \in Nat \ {0},
           NEW s \in Nat \ {0}, k <= s, ~(Len(c) < s), ~(Len(d) < s), NEW j \in 1..(m - (k - 1))
    PROVE  Ichimoku(c, t, k, s)[j] = Ichimoku(d, t, k, s)[j]
<1>1. /\ Sequence(c) /\ Sequence(d) /\ m \in Nat /\ m <= Len(c) /\ m <= Len(d)
      /\ Len(c) \in Nat /\ Len(d) \in Nat /\ \A i \in 1..m : c[i] = d[i]
  BY SequenceIs DEF Agree
<1>2. PICK i \in 1..m : i = j + k - 1
  <2>1. j + k - 1 \in 1..m
    BY <1>1
  <2> QED BY <2>1
<1>3. ASSUME NEW n \in Nat \ {0}, i >= n
      PROVE  Midpoint(c, i - n + 1, i) = Midpoint(d, i - n + 1, i)
  <2>1. PICK a \in Nat \ {0} : a = i - n + 1
    <3>1. i - n + 1 \in Nat \ {0}
      BY <1>1, <1>3
    <3> QED BY <3>1
  <2>2. i \in Nat /\ i <= m /\ a <= i + 1 /\ m \in Nat
    BY <1>1, <1>3, <2>1
  <2>3. SubSeq(c, a, i) = SubSeq(d, a, i)
    BY <2>2, FirstWindow
  <2> QED BY <2>1, <2>3 DEF Midpoint
<1>4. c[i] = d[i]
  BY <1>1
<1>5. i >= k
  BY <1>2
<1>6. IchimokuAt(c, t, k, s, i) = IchimokuAt(d, t, k, s, i)
  <2>1. Midpoint(c, i - k + 1, i) = Midpoint(d, i - k + 1, i)
    BY <1>3, <1>5
  <2>2. i >= t => Midpoint(c, i - t + 1, i) = Midpoint(d, i - t + 1, i)
    BY <1>3
  <2>3. i >= s => Midpoint(c, i - s + 1, i) = Midpoint(d, i - s + 1, i)
    BY <1>3
  <2> QED BY <1>4, <2>1, <2>2, <2>3 DEF IchimokuAt
<1>7. j \in 1..(Len(c) - k + 1) /\ j \in 1..(Len(d) - k + 1)
  BY <1>1
<1> QED BY <1>1, <1>2, <1>6, <1>7, IchimokuLong

\* Tail, as a part of the sequence.
LEMMA TailIs ==
    ASSUME NEW v, Sequence(v), 1 <= Len(v)
    PROVE  /\ Sequence(Tail(v)) /\ Len(Tail(v)) = Len(v) - 1
           /\ \A i \in 1..(Len(v) - 1) : Tail(v)[i] = v[i + 1]
<1>1. PICK T : v \in Seq(T)
  BY DEF Sequence
<1>2. v # <<>>
  BY <1>1
<1>3. Tail(v) \in Seq(T) /\ Len(Tail(v)) = Len(v) - 1
  BY <1>1, <1>2
<1>4. \A i \in 1..(Len(v) - 1) : Tail(v)[i] = v[i + 1]
  BY <1>1, <1>2
<1> QED BY <1>3, <1>4 DEF Sequence

\* The parabolic SAR has a value for each candle, when there are two.
LEMMA SARGrows ==
    ASSUME NEW c, Sequence(c), NEW par, ~(Len(c) < 2)
    PROVE  /\ Sequence(Tail(c)) /\ Len(Tail(c)) = Len(c) - 1
           /\ Grown("sar", par, Tail(c), SARStart(c[1], c[2], par), ParabolicSAR(c, par))
<1>1. Len(c) \in Nat
  BY SequenceIs
<1>2. 1 <= Len(c)
  BY <1>1
<1>3. Sequence(Tail(c)) /\ Len(Tail(c)) = Len(c) - 1
  BY <1>2, TailIs
<1>4. PICK a, q : a = SARStart(c[1], c[2], par) /\ q = Tail(c)
  OBVIOUS
<1>5. Grown("sar", par, q, a, FoldOf("sar", par, q, <<a>>))
  <2>1. "sar" \notin Plain
    BY DEF Plain
  <2> QED BY <1>3, <1>4, <2>1, GrowsAlong
<1> QED BY <1>3, <1>4, <1>5, SARIs

\* The SAR begins with the second candle, for both.
LEMMA SARLong ==
    ASSUME NEW c, Sequence(c), NEW par
    PROVE  /\ Sequence(ParabolicSAR(c, par))
           /\ Len(ParabolicSAR(c, par)) = IF Len(c) <= 1 THEN 0 ELSE Len(c)
<1>1. PICK l \in Nat : l = Len(c)
  BY SequenceIs
<1>2. CASE l < 2
  <2>1. ParabolicSAR(c, par) = <<>>
    BY <1>1, <1>2 DEF ParabolicSAR
  <2>2. l <= 1
    BY <1>2
  <2> QED BY <1>1, <2>1, <2>2, Empty
<1>3. CASE ~(l < 2)
  <2>1. /\ Len(Tail(c)) = l - 1
        /\ Grown("sar", par, Tail(c), SARStart(c[1], c[2], par), ParabolicSAR(c, par))
    BY <1>1, <1>3, SARGrows
  <2>2. Sequence(ParabolicSAR(c, par)) /\ Len(ParabolicSAR(c, par)) = l - 1 + 1
    BY <2>1 DEF Grown
  <2> QED BY <1>1, <1>3, <2>2
<1> QED BY <1>2, <1>3

\* Once its first side is decided, a SAR is of its own bar and earlier ones.
LEMMA SARKept ==
    ASSUME NEW c, NEW d, NEW m, Agree(c, d, m), 2 <= m, NEW par, NEW i \in 1..m
    PROVE  ParabolicSAR(c, par)[i] = ParabolicSAR(d, par)[i]
<1>1. /\ Sequence(c) /\ Sequence(d) /\ m \in Nat /\ m <= Len(c) /\ m <= Len(d)
      /\ Len(c) \in Nat /\ Len(d) \in Nat /\ \A j \in 1..m : c[j] = d[j]
  BY SequenceIs DEF Agree
<1>2. ~(Len(c) < 2) /\ ~(Len(d) < 2) /\ 1 <= Len(c) /\ 1 <= Len(d)
  BY <1>1
<1>3. PICK r, s : r = ParabolicSAR(c, par) /\ s = ParabolicSAR(d, par)
  OBVIOUS
<1>4. PICK q, p : q = Tail(c) /\ p = Tail(d)
  OBVIOUS
<1>5. PICK a : a = SARStart(c[1], c[2], par)
  OBVIOUS
<1>6. a = SARStart(d[1], d[2], par)
  <2>1. 1 \in 1..m /\ 2 \in 1..m
    BY <1>1
  <2>2. c[1] = d[1] /\ c[2] = d[2]
    BY <1>1, <2>1
  <2> QED BY <1>5, <2>2
<1>7. Sequence(q) /\ Len(q) = Len(c) - 1 /\ Grown("sar", par, q, a, r)
  BY <1>1, <1>2, <1>3, <1>4, <1>5, SARGrows
<1>8. Sequence(p) /\ Len(p) = Len(d) - 1 /\ Grown("sar", par, p, a, s)
  BY <1>1, <1>2, <1>3, <1>4, <1>6, SARGrows
<1>9. PICK e \in Nat : e = m - 1 /\ e <= Len(q) /\ e <= Len(p)
  <2>1. m - 1 \in Nat /\ m - 1 <= Len(q) /\ m - 1 <= Len(p)
    BY <1>1, <1>7, <1>8
  <2> QED BY <2>1
<1>10. \A j \in 1..e : q[j] = p[j]
  <2>1. \A j \in 1..e : j + 1 \in 1..m /\ j \in 1..(Len(c) - 1) /\ j \in 1..(Len(d) - 1)
    BY <1>1, <1>9
  <2>2. \A j \in 1..e : q[j] = c[j + 1] /\ p[j] = d[j + 1]
    BY <1>1, <1>2, <1>4, <2>1, TailIs
  <2> QED BY <1>1, <2>1, <2>2
<1>11. \A j \in 1..e : \A w : Stepped("sar", par, q[j], w) = Stepped("sar", par, p[j], w)
  BY <1>10
<1>12. \A j \in 1..(e + 1) : r[j] = s[j]
  <2>1. PICK k : k = "sar"
    OBVIOUS
  <2>2. Sequence(q) /\ Sequence(p) /\ Grown(k, par, q, a, r) /\ Grown(k, par, p, a, s)
    BY <1>7, <1>8, <2>1
  <2>3. e <= Len(q) /\ e <= Len(p)
    BY <1>9
  <2>4. GoAlike(k, par, par, q, p, e)
    BY <1>11, <2>1 DEF GoAlike
  <2> QED BY <2>2, <2>3, <2>4, GrowAlike
<1>13. i \in 1..(e + 1)
  BY <1>1, <1>9
<1> QED BY <1>3, <1>12, <1>13

\* The Supertrend is as long as the average true range.
LEMMA SupertrendGrows ==
    ASSUME NEW c, Sequence(c), NEW n \in Nat \ {0}, NEW factor, n < Len(c)
    PROVE  /\ Sequence([j \in 1..(Len(c) - n - 1) |-> j + 1])
           /\ Len([j \in 1..(Len(c) - n - 1) |-> j + 1]) = Len(c) - n - 1
           /\ Trend(c, n, factor).offset = n
           /\ Grown("supertrend", Trend(c, n, factor), [j \in 1..(Len(c) - n - 1) |-> j + 1],
                    SupertrendStart(c[1 + n], factor * ATR(c, n)[1]), Supertrend(c, n, factor))
<1>1. PICK l \in Nat : l = Len(c)
  BY SequenceIs
<1>2. ~(l <= n) /\ l - n - 1 \in Nat
  BY <1>1
<1>3. PICK atr : atr = ATR(c, n)
  OBVIOUS
<1>4. Sequence(atr) /\ Len(atr) = l - n
  BY <1>1, <1>2, <1>3, ATRLong
<1>5. atr # <<>>
  BY <1>2, <1>4, SequenceIs
<1>6. Len(c) - Len(atr) = n /\ Len(atr) - 1 = l - n - 1
  BY <1>1, <1>2, <1>4
<1>7. PICK q : q = [j \in 1..(l - n - 1) |-> j + 1]
  OBVIOUS
<1>8. q = [j \in 1..(l - n - 1) |-> q[j]]
  BY <1>7
<1>9. Sequence(q) /\ Len(q) = l - n - 1
  BY <1>2, <1>8, Listed
<1>10. PICK a, d : a = SupertrendStart(c[1 + n], factor * atr[1]) /\ d = Trend(c, n, factor)
  OBVIOUS
<1>11. Supertrend(c, n, factor) = FoldOf("supertrend", d, q, <<a>>)
  BY <1>3, <1>5, <1>6, <1>7, <1>10, SupertrendIs
<1>12. Grown("supertrend", d, q, a, FoldOf("supertrend", d, q, <<a>>))
  <2>1. "supertrend" \notin Plain
    BY DEF Plain
  <2> QED BY <1>9, <2>1, GrowsAlong
<1>13. d.offset = n
  BY <1>3, <1>6, <1>10 DEF Trend
<1> QED BY <1>1, <1>3, <1>7, <1>9, <1>10, <1>11, <1>12, <1>13

\* The Supertrend begins with the first ATR.
LEMMA SupertrendLong ==
    ASSUME NEW c, Sequence(c), NEW n \in Nat \ {0}, NEW factor
    PROVE  /\ Sequence(Supertrend(c, n, factor))
           /\ Len(Supertrend(c, n, factor)) = IF Len(c) <= n THEN 0 ELSE Len(c) - n
<1>1. PICK l \in Nat : l = Len(c)
  BY SequenceIs
<1>2. CASE l <= n
  <2>1. Sequence(ATR(c, n)) /\ Len(ATR(c, n)) = 0
    BY <1>1, <1>2, ATRLong
  <2>2. ATR(c, n) = <<>>
    BY <2>1, SequenceIs
  <2>3. Supertrend(c, n, factor) = <<>>
    BY <2>2 DEF Supertrend
  <2> QED BY <1>1, <1>2, <2>3, Empty
<1>3. CASE ~(l <= n)
  <2>1. n < Len(c)
    BY <1>1, <1>3
  <2>2. PICK q : q = [j \in 1..(Len(c) - n - 1) |-> j + 1]
    OBVIOUS
  <2>3. PICK a, d : a = SupertrendStart(c[1 + n], factor * ATR(c, n)[1]) /\ d = Trend(c, n, factor)
    OBVIOUS
  <2>4. Len(q) = Len(c) - n - 1 /\ Grown("supertrend", d, q, a, Supertrend(c, n, factor))
    BY <2>1, <2>2, <2>3, SupertrendGrows
  <2>5. Sequence(Supertrend(c, n, factor)) /\ Len(Supertrend(c, n, factor)) = l - n - 1 + 1
    BY <1>1, <2>4 DEF Grown
  <2> QED BY <1>1, <1>3, <2>5
<1> QED BY <1>2, <1>3

\* A Supertrend is of its own bar and earlier ones.
LEMMA SupertrendKept ==
    ASSUME NEW c, NEW d, NEW m, Agree(c, d, m), NEW n \in Nat \ {0}, NEW factor, NEW i \in 1..(m - n)
    PROVE  Supertrend(c, n, factor)[i] = Supertrend(d, n, factor)[i]
<1>1. /\ Sequence(c) /\ Sequence(d) /\ m \in Nat /\ m <= Len(c) /\ m <= Len(d)
      /\ Len(c) \in Nat /\ Len(d) \in Nat /\ \A j \in 1..m : c[j] = d[j]
  BY SequenceIs DEF Agree
<1>2. PICK l \in Nat, o \in Nat : l = Len(c) /\ o = Len(d)
  BY <1>1
<1>3. n < m /\ n < Len(c) /\ n < Len(d)
  BY <1>1
<1>4. Agree(ATR(c, n), ATR(d, n), m - n)
  BY <1>3, ATRAlike
<1>5. PICK r, s : r = Supertrend(c, n, factor) /\ s = Supertrend(d, n, factor)
  OBVIOUS
<1>6. PICK q, p : q = [j \in 1..(Len(c) - n - 1) |-> j + 1] /\ p = [j \in 1..(Len(d) - n - 1) |-> j + 1]
  OBVIOUS
<1>7. PICK x, y : x = Trend(c, n, factor) /\ y = Trend(d, n, factor)
  OBVIOUS
<1>8. PICK a : a = SupertrendStart(c[1 + n], factor * ATR(c, n)[1])
  OBVIOUS
<1>9. a = SupertrendStart(d[1 + n], factor * ATR(d, n)[1])
  <2>1. 1 + n \in 1..m /\ 1 \in 1..(m - n)
    BY <1>1, <1>3
  <2>2. c[1 + n] = d[1 + n] /\ ATR(c, n)[1] = ATR(d, n)[1]
    BY <1>1, <1>4, <2>1 DEF Agree
  <2> QED BY <1>8, <2>2
<1>10. Sequence(q) /\ Len(q) = l - n - 1 /\ x.offset = n /\ Grown("supertrend", x, q, a, r)
  BY <1>1, <1>2, <1>3, <1>5, <1>6, <1>7, <1>8, SupertrendGrows
<1>11. Sequence(p) /\ Len(p) = o - n - 1 /\ y.offset = n /\ Grown("supertrend", y, p, a, s)
  BY <1>1, <1>2, <1>3, <1>5, <1>6, <1>7, <1>9, SupertrendGrows
<1>12. PICK e \in Nat : e = m - n - 1 /\ e <= Len(q) /\ e <= Len(p)
  <2>1. m - n - 1 \in Nat /\ m - n - 1 <= Len(q) /\ m - n - 1 <= Len(p)
    BY <1>1, <1>2, <1>3, <1>10, <1>11
  <2> QED BY <2>1
<1>13. ASSUME NEW j \in 1..e
       PROVE  \A w : Stepped("supertrend", x, q[j], w) = Stepped("supertrend", y, p[j], w)
  <2>1. j \in 1..(Len(c) - n - 1) /\ j \in 1..(Len(d) - n - 1)
    BY <1>1, <1>12
  <2>2. PICK k : k = j + 1
    OBVIOUS
  <2>3. q[j] = k /\ p[j] = k
    BY <1>6, <2>1, <2>2
  <2>4. k \in 1..(m - n) /\ k + n \in 1..m /\ k + n - 1 \in 1..m
    BY <1>1, <1>12, <2>2
  <2>5. c[k + n] = d[k + n] /\ c[k + n - 1] = d[k + n - 1] /\ ATR(c, n)[k] = ATR(d, n)[k]
    BY <1>1, <1>4, <2>4 DEF Agree
  <2>6. x.c = c /\ y.c = d /\ x.atr = ATR(c, n) /\ y.atr = ATR(d, n) /\ x.factor = factor /\ y.factor = factor
    BY <1>7 DEF Trend
  <2> QED BY <1>10, <1>11, <2>3, <2>5, <2>6 DEF Stepped
<1>14. \A j \in 1..(e + 1) : r[j] = s[j]
  <2>1. PICK k : k = "supertrend"
    OBVIOUS
  <2>2. Sequence(q) /\ Sequence(p) /\ Grown(k, x, q, a, r) /\ Grown(k, y, p, a, s)
    BY <1>10, <1>11, <2>1
  <2>3. e <= Len(q) /\ e <= Len(p)
    BY <1>12
  <2>4. GoAlike(k, x, y, q, p, e)
    BY <1>13, <2>1 DEF GoAlike
  <2> QED BY <2>2, <2>3, <2>4, GrowAlike
<1>15. i \in 1..(e + 1)
  BY <1>1, <1>3, <1>12
<1> QED BY <1>5, <1>14, <1>15

-----------------------------------------------------------------------------
(* Sums of windows *)

\* s sums up the first elements of v.
SumsUp(v, s) ==
    /\ s \in [0..Len(v) -> Int]
    /\ \A j \in 0..(Len(v) - 1) : s[j + 1] = s[j] + v[j + 1]

\* Every sequence of whole numbers can be summed up.
LEMMA SumsUpExists ==
    ASSUME NEW v \in Seq(Int)
    PROVE  \E s : SumsUp(v, s)
<1>1. PICK l \in Nat : l = Len(v) /\ DOMAIN v = 1..l
  OBVIOUS
<1>2. PICK g : StepByStep("sum", 0, v, 0, l, g)
  BY <1>1, FromTheLeft
<1>3. g[1..0] = 0 /\ \A i \in Nat : i + 1 <= l => g[1..(i + 1)] = g[1..i] + v[i + 1]
  BY <1>2 DEF StepByStep, Combine, Gathered, Plain
<1> DEFINE T == {j \in Nat : j <= l => g[1..j] \in Int}
<1>4. 0 \in T
  BY <1>3
<1>5. ASSUME NEW j \in Nat, j \in T PROVE j + 1 \in T
  <2> SUFFICES ASSUME j + 1 <= l PROVE g[1..(j + 1)] \in Int
    OBVIOUS
  <2>1. PICK k \in 1..l : k = j + 1
    OBVIOUS
  <2>2. v[k] \in Int
    BY <1>1
  <2>3. PICK x \in Int : x = g[1..j]
    BY <1>5
  <2>4. g[1..(j + 1)] = x + v[k]
    BY <1>3, <2>1, <2>3
  <2> QED BY <2>2, <2>4
<1>6. \A j \in Nat : j <= l => g[1..j] \in Int
  <2>1. \A j \in Nat : j \in T
    <3> HIDE DEF T
    <3> QED BY <1>4, <1>5, NatSetInduction
  <2> QED BY <2>1
<1>7. PICK s : s = [j \in 0..l |-> g[1..j]]
  OBVIOUS
<1>8. s \in [0..l -> Int]
  BY <1>6, <1>7
<1>9. \A j \in 0..(l - 1) : s[j + 1] = s[j] + v[j + 1]
  <2>1. \A j \in 0..(l - 1) : j \in Nat /\ j + 1 <= l /\ j \in 0..l /\ j + 1 \in 0..l
    OBVIOUS
  <2> QED BY <1>3, <1>7, <2>1
<1> QED BY <1>1, <1>8, <1>9 DEF SumsUp

\* The sum of a window is the difference of two of them.
LEMMA WindowTotal ==
    ASSUME NEW v \in Seq(Int), NEW s, SumsUp(v, s),
           NEW i \in Nat \ {0}, NEW j \in Nat, j <= Len(v), i <= j + 1
    PROVE  Total(SubSeq(v, i, j)) = s[j] - s[i - 1]
<1>1. PICK l \in Nat : l = Len(v) /\ DOMAIN v = 1..l
  OBVIOUS
<1>2. PICK n \in Nat : n = j - i + 1
  <2>1. j - i + 1 \in Nat
    OBVIOUS
  <2> QED BY <2>1
<1>3. PICK w : w = SubSeq(v, i, j)
  OBVIOUS
<1>4. /\ Sequence(w) /\ Len(w) = n /\ DOMAIN w = 1..n
      /\ \A k \in 1..n : w[k] = v[i + k - 1]
  <2>1. Sequence(v)
    BY DEF Sequence
  <2>2. /\ Sequence(w) /\ Len(w) = j - i + 1
        /\ \A k \in 1..(j - i + 1) : w[k] = v[i + k - 1]
    BY <1>3, <2>1, Part
  <2> QED BY <1>2, <2>2, SequenceIs
<1>5. PICK g : FoldOf("sum", 0, w, 0) = g[1..n] /\ StepByStep("sum", 0, w, 0, n, g)
  BY <1>4, FromTheLeft
<1>6. g[1..0] = 0 /\ \A k \in Nat : k + 1 <= n => g[1..(k + 1)] = g[1..k] + w[k + 1]
  BY <1>5 DEF StepByStep, Combine, Gathered, Plain
<1>7. s \in [0..l -> Int] /\ \A k \in 0..(l - 1) : s[k + 1] = s[k] + v[k + 1]
  BY <1>1 DEF SumsUp
<1> DEFINE T == {k \in Nat : k <= n => g[1..k] = s[i + k - 1] - s[i - 1]}
<1>8. 0 \in T
  <2>1. i + 0 - 1 = i - 1 /\ i - 1 \in 0..l
    BY <1>1
  <2>2. s[i - 1] \in Int
    BY <1>7, <2>1
  <2>3. s[i - 1] - s[i - 1] = 0
    BY <2>2
  <2> QED BY <1>6, <2>1, <2>3
<1>9. ASSUME NEW k \in Nat, k \in T PROVE k + 1 \in T
  <2> SUFFICES ASSUME k + 1 <= n PROVE g[1..(k + 1)] = s[i + (k + 1) - 1] - s[i - 1]
    OBVIOUS
  <2>1. PICK x \in 0..(l - 1) : x = i + k - 1
    <3>1. i + k - 1 \in 0..(l - 1)
      BY <1>1, <1>2
    <3> QED BY <3>1
  <2>2. k + 1 \in 1..n /\ i + (k + 1) - 1 = x + 1 /\ i - 1 \in 0..l /\ x \in 0..l /\ x + 1 \in 1..l
    BY <1>1, <1>2, <2>1
  <2>3. PICK a \in Int, b \in Int, y \in Int : a = s[x] /\ b = s[i - 1] /\ y = v[x + 1]
    <3>1. s[x] \in Int /\ s[i - 1] \in Int
      BY <1>7, <2>2
    <3>2. v[x + 1] \in Int
      BY <1>1, <2>2
    <3> QED BY <3>1, <3>2
  <2>4. s[x + 1] = a + y
    BY <1>7, <2>3
  <2>5. w[k + 1] = y
    BY <1>4, <2>2, <2>3
  <2>6. g[1..k] = a - b
    BY <1>9, <2>1, <2>3
  <2>7. g[1..(k + 1)] = a - b + y
    BY <1>6, <2>5, <2>6
  <2>8. s[i + (k + 1) - 1] - s[i - 1] = a + y - b
    <3>1. i + (k + 1) - 1 = x + 1
      BY <2>2
    <3>2. PICK y1, y2 : y1 = i + (k + 1) - 1 /\ y2 = i - 1
      OBVIOUS
    <3>3. s[y1] = a + y /\ s[y2] = b
      BY <2>3, <2>4, <3>1, <3>2
    <3>4. s[y1] - s[y2] = a + y - b
      BY <3>3
    <3> QED BY <3>2, <3>4
  <2> QED BY <2>7, <2>8
<1>10. n \in T
  <2> HIDE DEF T
  <2> QED BY <1>8, <1>9, NatSetInduction
<1>11. g[1..n] = s[i + n - 1] - s[i - 1] /\ i + n - 1 = j
  BY <1>2, <1>10
<1> QED BY <1>3, <1>5, <1>11, TotalIs

\* The running sum is the sum of the window: the SMA is the mean of its latest n values.
LEMMA SMAIsMean ==
    ASSUME NEW v \in Seq(Int), NEW n \in Nat \ {0}
    PROVE  SMA(v, n) = Viewed("mean", v, n)
<1>1. PICK l \in Nat : l = Len(v) /\ Sequence(v)
  <2>1. Sequence(v)
    BY DEF Sequence
  <2> QED BY <2>1
<1>2. CASE l < n
  BY <1>1, <1>2 DEF SMA, Viewed
<1>3. CASE ~(l < n)
  <2>1. PICK s : SumsUp(v, s)
    BY SumsUpExists
  <2>2. s \in [0..l -> Int] /\ \A k \in 0..(l - 1) : s[k + 1] = s[k] + v[k + 1]
    BY <1>1, <2>1 DEF SumsUp
  <2>3. PICK q : q = [j \in 1..(l - n) |-> n + j]
    OBVIOUS
  <2>4. PICK m \in Nat : m = l - n
    BY <1>3
  <2>5. q = [j \in 1..m |-> q[j]] /\ \A j \in 1..m : q[j] = n + j
    BY <2>3, <2>4
  <2>6. Sequence(q) /\ Len(q) = m
    BY <2>5, Listed
  <2>7. PICK r, d, a : /\ r = RunningSums(v, n) /\ d = [v |-> v, n |-> n]
                       /\ a = Total(SubSeq(v, 1, n))
    OBVIOUS
  <2>8. r = FoldOf("sma", d, q, <<a>>)
    BY <1>1, <2>3, <2>7, SumsAre
  <2>9. Grown("sma", d, q, a, r)
    <3>1. "sma" \notin Plain
      BY DEF Plain
    <3> QED BY <2>6, <2>8, <3>1, GrowsAlong
  <2>10. d.v = v /\ d.n = n
    BY <2>7
  <2>11. /\ Sequence(r) /\ Len(r) = m + 1 /\ r[1] = a
         /\ \A i \in 1..m : r[i + 1] = r[i] + v[q[i]] - v[q[i] - n]
    BY <2>6, <2>9, <2>10 DEF Grown, Stepped
  <2> DEFINE T == {i \in Nat : i <= m => r[i + 1] = s[n + i] - s[i]}
  <2>12. 0 \in T
    <3>1. 1 \in Nat \ {0} /\ n \in Nat /\ n <= Len(v) /\ 1 <= n + 1 /\ 1 - 1 = 0
      BY <1>1, <1>3
    <3>2. a = s[n] - s[0]
      BY <2>1, <2>7, <3>1, WindowTotal
    <3>3. 0 + 1 = 1 /\ n + 0 = n
      OBVIOUS
    <3> QED BY <2>11, <3>2, <3>3
  <2>13. ASSUME NEW i \in Nat, i \in T PROVE i + 1 \in T
    <3> SUFFICES ASSUME i + 1 <= m PROVE r[i + 1 + 1] = s[n + (i + 1)] - s[i + 1]
      OBVIOUS
    <3>1. PICK k \in 1..m : k = i + 1
      OBVIOUS
    <3>2. q[k] = n + k /\ n + k - n = k
      BY <2>5
    <3>3. /\ i \in 0..(l - 1) /\ n + i \in 0..(l - 1) /\ n + i + 1 = n + k
          /\ k \in 1..l /\ n + k \in 1..l /\ k \in 0..l /\ n + k \in 0..l /\ i \in 0..l /\ n + i \in 0..l
      BY <1>3, <2>4, <3>1
    <3>4. PICK e \in Int, f \in Int, x \in Int, y \in Int :
              e = s[n + i] /\ f = s[i] /\ x = v[n + k] /\ y = v[k]
      <4>1. s[n + i] \in Int /\ s[i] \in Int
        BY <2>2, <3>3
      <4>2. v[n + k] \in Int /\ v[k] \in Int
        BY <1>1, <3>3
      <4> QED BY <4>1, <4>2
    <3>5. r[k] = e - f
      BY <2>13, <3>1, <3>4
    <3>6. r[k + 1] = e - f + x - y
      <4>1. r[k + 1] = r[k] + v[q[k]] - v[q[k] - n]
        BY <2>11
      <4>2. v[q[k]] = x /\ v[q[k] - n] = y
        BY <3>2, <3>4
      <4> QED BY <3>5, <4>1, <4>2
    <3>7. s[n + k] = e + x /\ s[k] = f + y
      BY <2>2, <3>1, <3>3, <3>4
    <3>8. e - f + x - y = e + x - (f + y)
      OBVIOUS
    <3> QED BY <3>1, <3>6, <3>7, <3>8
  <2>14. \A i \in Nat : i <= m => r[i + 1] = s[n + i] - s[i]
    <3>1. \A i \in Nat : i \in T
      <4> HIDE DEF T
      <4> QED BY <2>12, <2>13, NatSetInduction
    <3> QED BY <3>1
  <2>15. ASSUME NEW i \in 1..(l - n + 1) PROVE r[i] = Total(SubSeq(v, i, i + n - 1))
    <3>1. PICK k \in Nat : k = i - 1 /\ k <= m
      <4>1. i - 1 \in Nat /\ i - 1 <= m
        BY <2>4
      <4> QED BY <4>1
    <3>2. PICK j \in Nat : j = i + n - 1
      <4>1. i + n - 1 \in Nat
        OBVIOUS
      <4> QED BY <4>1
    <3>3. k + 1 = i /\ n + k = j /\ j <= Len(v) /\ i <= j + 1 /\ i \in Nat \ {0} /\ i - 1 = k
      BY <1>1, <3>1, <3>2
    <3>4. Total(SubSeq(v, i, j)) = s[j] - s[i - 1]
      BY <2>1, <3>3, WindowTotal
    <3>5. r[k + 1] = s[n + k] - s[k]
      BY <2>14, <3>1
    <3> QED BY <3>2, <3>3, <3>4, <3>5
  <2>16. DOMAIN r = 1..(l - n + 1)
    BY <2>4, <2>11, SequenceIs
  <2>17. SMA(v, n) = [i \in 1..(l - n + 1) |-> Over(r[i], n)]
    BY <1>1, <1>3, <2>7, <2>16 DEF SMA
  <2>18. Viewed("mean", v, n) = [i \in 1..(l - n + 1) |-> Over(Total(SubSeq(v, i, i + n - 1)), n)]
    BY <1>1, <1>3 DEF Viewed, View
  <2> QED BY <2>15, <2>17, <2>18
<1> QED BY <1>2, <1>3

\* A sum of amounts is only nothing when all of them are.
LEMMA NothingInTotal ==
    ASSUME NEW v \in Seq(Nat)
    PROVE  Total(v) \in Nat /\ (Total(v) = 0 => \A i \in 1..Len(v) : v[i] = 0)
<1>1. PICK l \in Nat : l = Len(v) /\ Sequence(v) /\ DOMAIN v = 1..l
  <2>1. Sequence(v)
    BY DEF Sequence
  <2> QED BY <2>1
<1>2. PICK g : Total(v) = g[1..l] /\ StepByStep("sum", 0, v, 0, l, g)
  BY <1>1, FromTheLeft, TotalIs
<1>3. g[1..0] = 0 /\ \A k \in Nat : k + 1 <= l => g[1..(k + 1)] = g[1..k] + v[k + 1]
  BY <1>2 DEF StepByStep, Combine, Gathered, Plain
<1> DEFINE T == {k \in Nat : k <= l => g[1..k] \in Nat /\ \A i \in 1..k : v[i] <= g[1..k]}
<1>4. 0 \in T
  BY <1>3
<1>5. ASSUME NEW k \in Nat, k \in T PROVE k + 1 \in T
  <2> SUFFICES ASSUME k + 1 <= l
               PROVE  g[1..(k + 1)] \in Nat /\ \A i \in 1..(k + 1) : v[i] <= g[1..(k + 1)]
    OBVIOUS
  <2>1. PICK a \in Nat, x \in Nat : a = g[1..k] /\ x = v[k + 1] /\ \A i \in 1..k : v[i] <= a
    <3>1. k + 1 \in 1..l
      BY <1>1
    <3>2. v[k + 1] \in Nat
      BY <1>1, <3>1
    <3>3. g[1..k] \in Nat /\ \A i \in 1..k : v[i] <= g[1..k]
      <4>1. k <= l
        BY <1>1
      <4> QED BY <1>5, <4>1
    <3> QED BY <3>2, <3>3
  <2>2. g[1..(k + 1)] = a + x
    BY <1>3, <2>1
  <2>3. \A i \in 1..(k + 1) : i = k + 1 \/ i \in 1..k
    OBVIOUS
  <2>4. \A i \in 1..k : v[i] \in Nat
    BY <1>1
  <2>5. ASSUME NEW i \in 1..(k + 1) PROVE v[i] <= a + x
    <3>1. CASE i = k + 1
      BY <2>1, <3>1
    <3>2. CASE i \in 1..k
      <4>1. PICK y \in Nat : y = v[i] /\ y <= a
        BY <2>1, <2>4, <3>2
      <4> QED BY <4>1
    <3> QED BY <2>3, <3>1, <3>2
  <2> QED BY <2>2, <2>5
<1>6. l \in T
  <2> HIDE DEF T
  <2> QED BY <1>4, <1>5, NatSetInduction
<1>7. Total(v) \in Nat /\ \A i \in 1..l : v[i] <= Total(v) /\ v[i] \in Nat
  BY <1>1, <1>2, <1>6
<1>8. Total(v) = 0 => \A i \in 1..l : v[i] <= 0 /\ v[i] \in Nat
  BY <1>7
<1> QED BY <1>1, <1>7, <1>8

-----------------------------------------------------------------------------
(* The series of the strategies *)

Names == {"ichimoku", "rsi_mean_revert", "macd_cross", "bollinger_bands",
          "ema_fast", "ema_slow", "sma", "atr",
          "supertrend", "williams_r", "stoch_rsi", "dmi_adx",
          "parabolic_sar", "hull_ma", "keltner_channel", "donchian"}


\* Which series is which.
LEMMA SeriesAre ==
    ASSUME NEW c
    PROVE  /\ DOMAIN Series(c) = Names
           /\ Series(c)["ichimoku"] = Ichimoku(c, P.ichimoku.tenkan, P.ichimoku.kijun, P.ichimoku.senkou)
           /\ Series(c)["rsi_mean_revert"] = RSI(c, P.rsi_mean_revert.period)
           /\ Series(c)["macd_cross"] = MACD(c, P.macd_cross.fast, P.macd_cross.slow, P.macd_cross.signal)
           /\ Series(c)["bollinger_bands"] = BollingerBands(c, P.bollinger_bands.period)
           /\ Series(c)["ema_fast"] = EMA(Closes(c), P.ema_cross.fast)
           /\ Series(c)["ema_slow"] = EMA(Closes(c), P.ema_cross.slow)
           /\ Series(c)["sma"] = SMA(Closes(c), P.bollinger_bands.period)
           /\ Series(c)["atr"] = ATR(c, P.trend_follow.period)
           /\ Series(c)["supertrend"] = Supertrend(c, P.supertrend.period, P.supertrend.factor)
           /\ Series(c)["williams_r"] = WilliamsR(c, P.williams_r.period)
           /\ Series(c)["stoch_rsi"] = StochRSI(c, P.stoch_rsi.period, P.stoch_rsi.k, P.stoch_rsi.d)
           /\ Series(c)["dmi_adx"] = ADX(c, P.dmi_adx.period)
           /\ Series(c)["parabolic_sar"] = ParabolicSAR(c, P.parabolic_sar)
           /\ Series(c)["hull_ma"] = HullMA(c, P.hull_ma.period, P.hull_ma.half, P.hull_ma.root)
           /\ Series(c)["keltner_channel"] = KeltnerChannel(c, P.keltner_channel.period, P.keltner_channel.halves)
           /\ Series(c)["donchian"] = DonchianChannel(c, P.donchian.period)
BY DEF Series, Names

\* The candles that each one needs.
LEMMA WarmUpIs ==
    /\ DOMAIN WarmUp = Names /\ DOMAIN Start = Names
    /\ WarmUp["ichimoku"] = P.ichimoku.kijun - 1
    /\ WarmUp["rsi_mean_revert"] = P.rsi_mean_revert.period
    /\ WarmUp["macd_cross"] = P.macd_cross.slow + P.macd_cross.signal - 2
    /\ WarmUp["bollinger_bands"] = P.bollinger_bands.period - 1
    /\ WarmUp["ema_fast"] = P.ema_cross.fast - 1
    /\ WarmUp["ema_slow"] = P.ema_cross.slow - 1
    /\ WarmUp["sma"] = P.bollinger_bands.period - 1
    /\ WarmUp["atr"] = P.trend_follow.period
    /\ WarmUp["supertrend"] = P.supertrend.period
    /\ WarmUp["williams_r"] = P.williams_r.period - 1
    /\ WarmUp["stoch_rsi"] = P.stoch_rsi.period + P.stoch_rsi.k + P.stoch_rsi.d - 2
    /\ WarmUp["dmi_adx"] = 2 * P.dmi_adx.period - 1
    /\ WarmUp["parabolic_sar"] = 0
    /\ WarmUp["hull_ma"] = P.hull_ma.period + P.hull_ma.root - 2
    /\ WarmUp["keltner_channel"] = P.keltner_channel.period
    /\ WarmUp["donchian"] = P.donchian.period - 1
BY DEF WarmUp, Start, Names

\* Two series wait longer than their windows are.
LEMMA StartIs ==
    /\ Start["ichimoku"] = P.ichimoku.senkou - 1 /\ Start["parabolic_sar"] = 1
    /\ \A s \in Names \ {"ichimoku", "parabolic_sar"} : Start[s] = WarmUp[s]
<1>1. PICK w : w = WarmUp
  OBVIOUS
<1>2. DOMAIN w = Names /\ "ichimoku" \in Names /\ "parabolic_sar" \in Names
  BY <1>1, WarmUpIs DEF Names
<1>3. Start = [w EXCEPT !.ichimoku = P.ichimoku.senkou - 1, !.parabolic_sar = 1]
  BY <1>1 DEF Start
<1> QED BY <1>1, <1>2, <1>3

\* The parameters, one by one.
LEMMA PeriodsOK ==
    /\ P.ichimoku.tenkan \in Nat \ {0} /\ P.ichimoku.kijun \in Nat \ {0}
    /\ P.ichimoku.senkou \in Nat \ {0} /\ P.rsi_mean_revert.period \in Nat \ {0}
    /\ P.macd_cross.fast \in Nat \ {0} /\ P.macd_cross.slow \in Nat \ {0}
    /\ P.macd_cross.signal \in Nat \ {0} /\ P.bollinger_bands.period \in Nat \ {0}
    /\ P.ema_cross.fast \in Nat \ {0} /\ P.ema_cross.slow \in Nat \ {0}
    /\ P.trend_follow.period \in Nat \ {0} /\ P.supertrend.period \in Nat \ {0}
    /\ P.williams_r.period \in Nat \ {0} /\ P.stoch_rsi.period \in Nat \ {0}
    /\ P.stoch_rsi.k \in Nat \ {0} /\ P.stoch_rsi.d \in Nat \ {0}
    /\ P.dmi_adx.period \in Nat \ {0} /\ P.hull_ma.period \in Nat \ {0}
    /\ P.hull_ma.half \in Nat \ {0} /\ P.hull_ma.root \in Nat \ {0}
    /\ P.keltner_channel.period \in Nat \ {0} /\ P.donchian.period \in Nat \ {0}
    /\ P.ichimoku.kijun <= P.ichimoku.senkou /\ P.macd_cross.fast <= P.macd_cross.slow
    /\ P.hull_ma.half <= P.hull_ma.period
    /\ P.momentum.period \in Nat \ {0}
BY ParametersOK DEF ParametersOK

\* No series begins before the first candle.
LEMMA LagsAreNatural == \A s \in Names : WarmUp[s] \in Nat /\ Start[s] \in Nat /\ WarmUp[s] <= Start[s] + 1
<1>1. \A s \in Names : WarmUp[s] \in Nat
  BY WarmUpIs, PeriodsOK DEF Names
<1>2. Start["ichimoku"] \in Nat /\ WarmUp["ichimoku"] <= Start["ichimoku"] + 1
  BY WarmUpIs, StartIs, PeriodsOK
<1>3. Start["parabolic_sar"] \in Nat /\ WarmUp["parabolic_sar"] <= Start["parabolic_sar"] + 1
  BY WarmUpIs, StartIs
<1>4. ASSUME NEW s \in Names \ {"ichimoku", "parabolic_sar"}
      PROVE  Start[s] \in Nat /\ WarmUp[s] <= Start[s] + 1
  BY <1>1, StartIs
<1> QED BY <1>1, <1>2, <1>3, <1>4

\* The windows of a Bollinger band are over the closes.
Prices(c) == [i \in DOMAIN c |-> c[i].close]
\* Candles that go on alike have closes that do.
LEMMA PricesLater ==
    ASSUME NEW c, NEW d, NEW h, NEW m, Later(c, d, h, m)
    PROVE  Later(Prices(c), Prices(d), h, m) /\ Later(Closes(c), Closes(d), h, m)
<1>1. /\ Sequence(c) /\ Sequence(d) /\ h \in Nat /\ m \in Nat /\ h + m <= Len(c) /\ m <= Len(d)
      /\ \A i \in 1..m : c[h + i] = d[i]
  BY DEF Later
<1>2. PICK l \in Nat, o \in Nat : l = Len(c) /\ DOMAIN c = 1..l /\ o = Len(d) /\ DOMAIN d = 1..o
  BY <1>1, SequenceIs
<1>3. ASSUME NEW i \in 1..m PROVE h + i \in 1..l /\ i \in 1..o
  BY <1>1, <1>2
<1>4. Later(Prices(c), Prices(d), h, m)
  <2>1. PICK f, g : f = Prices(c) /\ g = Prices(d)
    OBVIOUS
  <2>2. f = [i \in 1..l |-> c[i].close] /\ g = [i \in 1..o |-> d[i].close]
    BY <1>2, <2>1 DEF Prices
  <2>3. f = [i \in 1..l |-> f[i]] /\ g = [i \in 1..o |-> g[i]]
    BY <2>2
  <2>4. Sequence(f) /\ Len(f) = l /\ Sequence(g) /\ Len(g) = o
    BY <2>3, Listed
  <2>5. \A i \in 1..m : f[h + i] = g[i]
    BY <1>1, <1>3, <2>2
  <2> QED BY <1>1, <1>2, <2>1, <2>4, <2>5 DEF Later
<1>5. Later(Closes(c), Closes(d), h, m)
  <2>1. PICK f, g : f = Closes(c) /\ g = Closes(d)
    OBVIOUS
  <2>2. f = [i \in 1..l |-> Scale * c[i].close] /\ g = [i \in 1..o |-> Scale * d[i].close]
    BY <1>2, <2>1 DEF Closes
  <2>3. f = [i \in 1..l |-> f[i]] /\ g = [i \in 1..o |-> g[i]]
    BY <2>2
  <2>4. Sequence(f) /\ Len(f) = l /\ Sequence(g) /\ Len(g) = o
    BY <2>3, Listed
  <2>5. \A i \in 1..m : f[h + i] = g[i]
    BY <1>1, <1>3, <2>2
  <2> QED BY <1>1, <1>2, <2>1, <2>4, <2>5 DEF Later
<1> QED BY <1>4, <1>5

\* A price for every candle.
LEMMA PricesAre ==
    ASSUME NEW c, Sequence(c)
    PROVE  Sequence(Prices(c)) /\ Len(Prices(c)) = Len(c)
<1>1. PICK l \in Nat : l = Len(c) /\ DOMAIN c = 1..l
  BY SequenceIs
<1>2. Prices(c) = [i \in 1..l |-> Prices(c)[i]]
  BY <1>1 DEF Prices
<1> QED BY <1>1, <1>2, Listed

\* The closes of candles are whole numbers, so that the SMA is a mean of a window.
LEMMA ClosesAreWhole ==
    ASSUME NEW c \in Seq(Candle)
    PROVE  /\ Sequence(c) /\ Closes(c) \in Seq(Int)
           /\ SMA(Closes(c), P.bollinger_bands.period)
                = Viewed("mean", Closes(c), P.bollinger_bands.period)
<1>1. Sequence(c)
  BY DEF Sequence
<1>2. PICK l \in Nat : l = Len(c) /\ DOMAIN c = 1..l
  OBVIOUS
<1>3. \A i \in 1..l : c[i] \in Candle
  BY <1>2
<1>4. \A i \in 1..l : Scale * c[i].close \in Int
  BY <1>3, ScaleAssumption DEF Candle, ScaleAssumption
<1>5. Closes(c) \in [1..l -> Int]
  BY <1>2, <1>4 DEF Closes
<1>6. Closes(c) \in Seq(Int)
  BY <1>5
<1> QED BY <1>1, <1>6, SMAIsMean, PeriodsOK

\* How long each series is.
IsLong(s, c) == /\ Sequence(Series(c)[s])
                /\ Len(Series(c)[s]) = IF Len(c) <= Start[s] THEN 0 ELSE Len(c) - WarmUp[s]

\* Every series ends at the latest candle.
LEMMA SeriesLong ==
    ASSUME NEW c \in Seq(Candle)
    PROVE  \A s \in Names : IsLong(s, c)
<1> DEFINE l == Len(c)
<1>0. Sequence(c) /\ l \in Nat
  BY ClosesAreWhole
<1>1. IsLong("ichimoku", c)
  <2>1. PICK x : x = Ichimoku(c, P.ichimoku.tenkan, P.ichimoku.kijun, P.ichimoku.senkou)
    OBVIOUS
  <2>2. PICK t \in Nat \ {0}, k \in Nat \ {0}, s \in Nat \ {0} : t = P.ichimoku.tenkan /\ k = P.ichimoku.kijun /\ s = P.ichimoku.senkou
    BY PeriodsOK
  <2>3. x = Ichimoku(c, t, k, s)
    BY <2>1, <2>2
  <2>4. Sequence(x) /\ Len(x) = IF l <= s - 1 THEN 0 ELSE l - (k - 1)
    <3>1. k <= s
      BY <2>2, PeriodsOK
    <3> QED BY <1>0, <2>3, <3>1, IchimokuLong
  <2> QED BY <1>0, <2>1, <2>2, <2>4, SeriesAre, WarmUpIs, StartIs DEF IsLong
<1>2. IsLong("rsi_mean_revert", c)
  <2>1. PICK x : x = RSI(c, P.rsi_mean_revert.period)
    OBVIOUS
  <2>2. Sequence(x) /\ Len(x) = IF l <= P.rsi_mean_revert.period THEN 0 ELSE l - P.rsi_mean_revert.period
    BY <1>0, <2>1, PeriodsOK, RSILong
  <2> QED BY <1>0, <2>1, <2>2, SeriesAre, WarmUpIs, StartIs DEF IsLong, Names
<1>3. IsLong("macd_cross", c)
  <2>1. PICK x : x = MACD(c, P.macd_cross.fast, P.macd_cross.slow, P.macd_cross.signal)
    OBVIOUS
  <2>2. PICK f \in Nat \ {0}, s \in Nat \ {0}, g \in Nat \ {0} : f = P.macd_cross.fast /\ s = P.macd_cross.slow /\ g = P.macd_cross.signal
    BY PeriodsOK
  <2>3. x = MACD(c, f, s, g)
    BY <2>1, <2>2
  <2>4. Sequence(x) /\ Len(x) = IF l <= s + g - 2 THEN 0 ELSE l - (s + g - 2)
    <3>1. f <= s
      BY <2>2, PeriodsOK
    <3> QED BY <1>0, <2>3, <3>1, MACDLong, ZenonT(60)
  <2> QED BY <1>0, <2>1, <2>2, <2>4, SeriesAre, WarmUpIs, StartIs DEF IsLong, Names
<1>4. IsLong("bollinger_bands", c)
  <2>1. PICK x : x = BollingerBands(c, P.bollinger_bands.period)
    OBVIOUS
  <2>2. x = Viewed("band", Prices(c), P.bollinger_bands.period)
    BY <1>0, <2>1, BandsAre DEF Prices
  <2>3. Sequence(Prices(c)) /\ Len(Prices(c)) = l /\ P.bollinger_bands.period \in Nat \ {0}
    BY <1>0, PeriodsOK, PricesAre, ClosesAre
  <2>4. Sequence(x) /\ Len(x) = IF l < P.bollinger_bands.period THEN 0 ELSE l - P.bollinger_bands.period + 1
    BY <2>2, <2>3, ViewedLong
  <2>5. Sequence(x) /\ Len(x) = IF l <= P.bollinger_bands.period - 1 THEN 0 ELSE l - (P.bollinger_bands.period - 1)
    BY <1>0, <2>3, <2>4
  <2> QED BY <1>0, <2>1, <2>5, SeriesAre, WarmUpIs, StartIs DEF IsLong, Names
<1>5. IsLong("ema_fast", c)
  <2>1. PICK x : x = EMA(Closes(c), P.ema_cross.fast)
    OBVIOUS
  <2>2. Sequence(Closes(c)) /\ Len(Closes(c)) = l /\ P.ema_cross.fast \in Nat \ {0}
    BY <1>0, PeriodsOK, ClosesAre
  <2>3. Sequence(x) /\ Len(x) = IF l < P.ema_cross.fast THEN 0 ELSE l - P.ema_cross.fast + 1
    BY <2>1, <2>2, EMALong
  <2>4. Sequence(x) /\ Len(x) = IF l <= P.ema_cross.fast - 1 THEN 0 ELSE l - (P.ema_cross.fast - 1)
    BY <1>0, <2>2, <2>3
  <2> QED BY <1>0, <2>1, <2>4, SeriesAre, WarmUpIs, StartIs DEF IsLong, Names
<1>6. IsLong("ema_slow", c)
  <2>1. PICK x : x = EMA(Closes(c), P.ema_cross.slow)
    OBVIOUS
  <2>2. Sequence(Closes(c)) /\ Len(Closes(c)) = l /\ P.ema_cross.slow \in Nat \ {0}
    BY <1>0, PeriodsOK, ClosesAre
  <2>3. Sequence(x) /\ Len(x) = IF l < P.ema_cross.slow THEN 0 ELSE l - P.ema_cross.slow + 1
    BY <2>1, <2>2, EMALong
  <2>4. Sequence(x) /\ Len(x) = IF l <= P.ema_cross.slow - 1 THEN 0 ELSE l - (P.ema_cross.slow - 1)
    BY <1>0, <2>2, <2>3
  <2> QED BY <1>0, <2>1, <2>4, SeriesAre, WarmUpIs, StartIs DEF IsLong, Names
<1>7. IsLong("sma", c)
  <2>1. PICK x : x = SMA(Closes(c), P.bollinger_bands.period)
    OBVIOUS
  <2>2. x = Viewed("mean", Closes(c), P.bollinger_bands.period)
    BY <1>0, <2>1, ClosesAreWhole
  <2>3. Sequence(Closes(c)) /\ Len(Closes(c)) = l /\ P.bollinger_bands.period \in Nat \ {0}
    BY <1>0, PeriodsOK, PricesAre, ClosesAre
  <2>4. Sequence(x) /\ Len(x) = IF l < P.bollinger_bands.period THEN 0 ELSE l - P.bollinger_bands.period + 1
    BY <2>2, <2>3, ViewedLong
  <2>5. Sequence(x) /\ Len(x) = IF l <= P.bollinger_bands.period - 1 THEN 0 ELSE l - (P.bollinger_bands.period - 1)
    BY <1>0, <2>3, <2>4
  <2> QED BY <1>0, <2>1, <2>5, SeriesAre, WarmUpIs, StartIs DEF IsLong, Names
<1>8. IsLong("atr", c)
  <2>1. PICK x : x = ATR(c, P.trend_follow.period)
    OBVIOUS
  <2>2. Sequence(x) /\ Len(x) = IF l <= P.trend_follow.period THEN 0 ELSE l - P.trend_follow.period
    BY <1>0, <2>1, PeriodsOK, ATRLong
  <2> QED BY <1>0, <2>1, <2>2, SeriesAre, WarmUpIs, StartIs DEF IsLong, Names
<1>9. IsLong("supertrend", c)
  <2>1. PICK x : x = Supertrend(c, P.supertrend.period, P.supertrend.factor)
    OBVIOUS
  <2>2. Sequence(x) /\ Len(x) = IF l <= P.supertrend.period THEN 0 ELSE l - P.supertrend.period
    BY <1>0, <2>1, PeriodsOK, SupertrendLong
  <2> QED BY <1>0, <2>1, <2>2, SeriesAre, WarmUpIs, StartIs DEF IsLong, Names
<1>10. IsLong("williams_r", c)
  <2>1. PICK x : x = WilliamsR(c, P.williams_r.period)
    OBVIOUS
  <2>2. x = Viewed("range", c, P.williams_r.period)
    BY <1>0, <2>1, ChannelsAre
  <2>3. Sequence(c) /\ Len(c) = l /\ P.williams_r.period \in Nat \ {0}
    BY <1>0, PeriodsOK, PricesAre, ClosesAre
  <2>4. Sequence(x) /\ Len(x) = IF l < P.williams_r.period THEN 0 ELSE l - P.williams_r.period + 1
    BY <2>2, <2>3, ViewedLong
  <2>5. Sequence(x) /\ Len(x) = IF l <= P.williams_r.period - 1 THEN 0 ELSE l - (P.williams_r.period - 1)
    BY <1>0, <2>3, <2>4
  <2> QED BY <1>0, <2>1, <2>5, SeriesAre, WarmUpIs, StartIs DEF IsLong, Names
<1>11. IsLong("stoch_rsi", c)
  <2>1. PICK x : x = StochRSI(c, P.stoch_rsi.period, P.stoch_rsi.k, P.stoch_rsi.d)
    OBVIOUS
  <2>2. PICK n \in Nat \ {0}, k \in Nat \ {0}, d \in Nat \ {0} : n = P.stoch_rsi.period /\ k = P.stoch_rsi.k /\ d = P.stoch_rsi.d
    BY PeriodsOK
  <2>3. x = StochRSI(c, n, k, d)
    BY <2>1, <2>2
  <2>4. Sequence(x) /\ Len(x) = IF l <= n + k + d - 2 THEN 0 ELSE l - (n + k + d - 2)
    <3>1. Sequence(c)
      BY <1>0
    <3>2. Sequence(x) /\ Len(x) = IF Len(c) <= StochLag(n, k, d) THEN 0 ELSE Len(c) - StochLag(n, k, d)
      BY <2>3, <3>1, StochRSILong
    <3> QED BY <3>2 DEF StochLag
  <2> QED BY <1>0, <2>1, <2>2, <2>4, SeriesAre, WarmUpIs, StartIs DEF IsLong, Names
<1>12. IsLong("dmi_adx", c)
  <2>1. PICK x : x = ADX(c, P.dmi_adx.period)
    OBVIOUS
  <2>2. Sequence(x) /\ Len(x) = IF l <= 2 * P.dmi_adx.period - 1 THEN 0 ELSE l - (2 * P.dmi_adx.period - 1)
    BY <1>0, <2>1, PeriodsOK, ADXLong
  <2> QED BY <1>0, <2>1, <2>2, SeriesAre, WarmUpIs, StartIs DEF IsLong, Names
<1>13. IsLong("parabolic_sar", c)
  <2>1. PICK x : x = ParabolicSAR(c, P.parabolic_sar)
    OBVIOUS
  <2>2. Sequence(x) /\ Len(x) = IF l <= 1 THEN 0 ELSE l
    BY <1>0, <2>1, PeriodsOK, SARLong
  <2> QED BY <1>0, <2>1, <2>2, SeriesAre, WarmUpIs, StartIs DEF IsLong
<1>14. IsLong("hull_ma", c)
  <2>1. PICK x : x = HullMA(c, P.hull_ma.period, P.hull_ma.half, P.hull_ma.root)
    OBVIOUS
  <2>2. Sequence(x) /\ Len(x) = IF l <= P.hull_ma.period + P.hull_ma.root - 2 THEN 0 ELSE l - (P.hull_ma.period + P.hull_ma.root - 2)
    BY <1>0, <2>1, PeriodsOK, HullLong
  <2> QED BY <1>0, <2>1, <2>2, SeriesAre, WarmUpIs, StartIs DEF IsLong, Names
<1>15. IsLong("keltner_channel", c)
  <2>1. PICK x : x = KeltnerChannel(c, P.keltner_channel.period, P.keltner_channel.halves)
    OBVIOUS
  <2>2. Sequence(x) /\ Len(x) = IF l <= P.keltner_channel.period THEN 0 ELSE l - P.keltner_channel.period
    BY <1>0, <2>1, PeriodsOK, KeltnerLong
  <2> QED BY <1>0, <2>1, <2>2, SeriesAre, WarmUpIs, StartIs DEF IsLong, Names
<1>16. IsLong("donchian", c)
  <2>1. PICK x : x = DonchianChannel(c, P.donchian.period)
    OBVIOUS
  <2>2. x = Viewed("channel", c, P.donchian.period)
    BY <1>0, <2>1, ChannelsAre
  <2>3. Sequence(c) /\ Len(c) = l /\ P.donchian.period \in Nat \ {0}
    BY <1>0, PeriodsOK, PricesAre, ClosesAre
  <2>4. Sequence(x) /\ Len(x) = IF l < P.donchian.period THEN 0 ELSE l - P.donchian.period + 1
    BY <2>2, <2>3, ViewedLong
  <2>5. Sequence(x) /\ Len(x) = IF l <= P.donchian.period - 1 THEN 0 ELSE l - (P.donchian.period - 1)
    BY <1>0, <2>3, <2>4
  <2> QED BY <1>0, <2>1, <2>5, SeriesAre, WarmUpIs, StartIs DEF IsLong, Names
<1> QED BY <1>1, <1>2, <1>3, <1>4, <1>5, <1>6, <1>7, <1>8, <1>9, <1>10, <1>11, <1>12, <1>13, <1>14, <1>15, <1>16 DEF Names


\* A value that is there, of the series that smooth or look at windows.
LEMMA EMAKept ==
    ASSUME NEW v, NEW u, NEW m, Agree(v, u, m), NEW n \in Nat \ {0}, NEW i \in 1..(m - (n - 1))
    PROVE  EMA(v, n)[i] = EMA(u, n)[i]
<1>1. m \in Nat
  BY DEF Agree
<1>2. n <= m /\ i \in 1..(m - n + 1)
  BY <1>1
<1>3. Agree(EMA(v, n), EMA(u, n), m - n + 1)
  BY <1>2, EMAAlike
<1> QED BY <1>2, <1>3 DEF Agree

\* A value of a window is of its own bar and earlier ones.
LEMMA ViewedKept ==
    ASSUME NEW k, NEW v, NEW u, NEW m, Agree(v, u, m), NEW n \in Nat \ {0}, NEW i \in 1..(m - (n - 1))
    PROVE  Viewed(k, v, n)[i] = Viewed(k, u, n)[i]
<1>1. m \in Nat
  BY DEF Agree
<1>2. n <= m /\ i \in 1..(m - n + 1)
  BY <1>1
<1>3. Agree(Viewed(k, v, n), Viewed(k, u, n), m - n + 1)
  BY <1>2, ViewedAlike
<1> QED BY <1>2, <1>3 DEF Agree

\* A value of the ATR and the RSI is of its own bar and earlier ones.
LEMMA RangesKept ==
    ASSUME NEW c, NEW d, NEW m, Agree(c, d, m), NEW n \in Nat \ {0}, NEW i \in 1..(m - n)
    PROVE  ATR(c, n)[i] = ATR(d, n)[i] /\ RSI(c, n)[i] = RSI(d, n)[i]
<1>1. m \in Nat
  BY DEF Agree
<1>2. n < m
  BY <1>1
<1>3. Agree(ATR(c, n), ATR(d, n), m - n) /\ Agree(RSI(c, n), RSI(d, n), m - n)
  BY <1>2, ATRAlike, RSIAlike
<1> QED BY <1>3 DEF Agree

\* The values of the bars that c and d have in common.
IsKept(s, c, d, m) == \A i \in 1..(m - WarmUp[s]) : Series(c)[s][i] = Series(d)[s][i]
\* There are enough candles for the two series that begin with several values.
Begun(s, c, d, m) ==
    /\ s = "parabolic_sar" => 2 <= m
    /\ s = "ichimoku" => ~(Len(c) < P.ichimoku.senkou) /\ ~(Len(d) < P.ichimoku.senkou)

\* No series has a value of a bar that depends on a later one.
LEMMA SeriesKept ==
    ASSUME NEW c \in Seq(Candle), NEW d \in Seq(Candle), NEW m, Agree(c, d, m)
    PROVE  \A s \in Names : Begun(s, c, d, m) => IsKept(s, c, d, m)
<1>0. Agree(Closes(c), Closes(d), m) /\ Agree(Prices(c), Prices(d), m)
  BY AgreeIsLater, PricesLater, LaterIsAgree
<1>1. ASSUME Begun("ichimoku", c, d, m) PROVE IsKept("ichimoku", c, d, m)
  <2> SUFFICES ASSUME NEW i \in 1..(m - WarmUp["ichimoku"])
               PROVE  Series(c)["ichimoku"][i] = Series(d)["ichimoku"][i]
    BY DEF IsKept
  <2>1. i \in 1..(m - (P.ichimoku.kijun - 1))
    BY WarmUpIs
  <2>2. PICK x, y : x = Ichimoku(c, P.ichimoku.tenkan, P.ichimoku.kijun, P.ichimoku.senkou)
                    /\ y = Ichimoku(d, P.ichimoku.tenkan, P.ichimoku.kijun, P.ichimoku.senkou)
    OBVIOUS
  <2>3. PICK t \in Nat \ {0}, k \in Nat \ {0}, s \in Nat \ {0} :
            t = P.ichimoku.tenkan /\ k = P.ichimoku.kijun /\ s = P.ichimoku.senkou
    BY PeriodsOK
  <2>4. x = Ichimoku(c, t, k, s) /\ y = Ichimoku(d, t, k, s) /\ i \in 1..(m - (k - 1))
    BY <2>1, <2>2, <2>3
  <2>5. x[i] = y[i]
    <3>1. k <= s /\ ~(Len(c) < s) /\ ~(Len(d) < s)
      BY <1>1, <2>3, PeriodsOK DEF Begun
    <3> QED BY <2>4, <3>1, IchimokuKept
  <2> QED BY <2>2, <2>5, SeriesAre
<1>2. IsKept("rsi_mean_revert", c, d, m)
  <2> SUFFICES ASSUME NEW i \in 1..(m - WarmUp["rsi_mean_revert"])
               PROVE  Series(c)["rsi_mean_revert"][i] = Series(d)["rsi_mean_revert"][i]
    BY DEF IsKept
  <2>1. i \in 1..(m - P.rsi_mean_revert.period)
    BY WarmUpIs
  <2>2. PICK x, y : x = RSI(c, P.rsi_mean_revert.period)
                    /\ y = RSI(d, P.rsi_mean_revert.period)
    OBVIOUS
  <2>3. PICK n \in Nat \ {0} : n = P.rsi_mean_revert.period
    BY PeriodsOK
  <2>4. x = RSI(c, n) /\ y = RSI(d, n) /\ i \in 1..(m - n)
    BY <2>1, <2>2, <2>3
  <2>5. x[i] = y[i]
    BY <2>4, RangesKept
  <2> QED BY <2>2, <2>5, SeriesAre
<1>3. IsKept("macd_cross", c, d, m)
  <2> SUFFICES ASSUME NEW i \in 1..(m - WarmUp["macd_cross"])
               PROVE  Series(c)["macd_cross"][i] = Series(d)["macd_cross"][i]
    BY DEF IsKept
  <2>1. i \in 1..(m - (P.macd_cross.slow + P.macd_cross.signal - 2))
    BY WarmUpIs
  <2>2. PICK x, y : x = MACD(c, P.macd_cross.fast, P.macd_cross.slow, P.macd_cross.signal)
                    /\ y = MACD(d, P.macd_cross.fast, P.macd_cross.slow, P.macd_cross.signal)
    OBVIOUS
  <2>3. PICK f \in Nat \ {0}, s \in Nat \ {0}, g \in Nat \ {0} :
            f = P.macd_cross.fast /\ s = P.macd_cross.slow /\ g = P.macd_cross.signal
    BY PeriodsOK
  <2>4. x = MACD(c, f, s, g) /\ y = MACD(d, f, s, g) /\ i \in 1..(m - (s + g - 2))
    BY <2>1, <2>2, <2>3
  <2>5. x[i] = y[i]
    <3>1. f <= s
      BY <2>3, PeriodsOK
    <3> QED BY <2>4, <3>1, MACDKept
  <2> QED BY <2>2, <2>5, SeriesAre
<1>4. IsKept("bollinger_bands", c, d, m)
  <2> SUFFICES ASSUME NEW i \in 1..(m - WarmUp["bollinger_bands"])
               PROVE  Series(c)["bollinger_bands"][i] = Series(d)["bollinger_bands"][i]
    BY DEF IsKept
  <2>1. i \in 1..(m - (P.bollinger_bands.period - 1))
    BY WarmUpIs
  <2>2. PICK x, y : x = BollingerBands(c, P.bollinger_bands.period)
                    /\ y = BollingerBands(d, P.bollinger_bands.period)
    OBVIOUS
  <2>3. x = Viewed("band", Prices(c), P.bollinger_bands.period) /\ y = Viewed("band", Prices(d), P.bollinger_bands.period)
    BY <2>2, BandsAre DEF Prices
  <2>4. PICK n \in Nat \ {0} : n = P.bollinger_bands.period
    BY PeriodsOK
  <2>5. PICK k, v, u : k = "band" /\ v = Prices(c) /\ u = Prices(d)
    OBVIOUS
  <2>6. x = Viewed(k, v, n) /\ y = Viewed(k, u, n)
    BY <2>3, <2>4, <2>5
  <2>7. i \in 1..(m - (n - 1)) /\ Agree(v, u, m)
    BY <1>0, <2>1, <2>4, <2>5
  <2>8. x[i] = y[i]
    <3>1. Viewed(k, v, n)[i] = Viewed(k, u, n)[i]
      BY <2>7, ViewedKept
    <3> QED BY <2>6, <3>1
  <2> QED BY <2>2, <2>8, SeriesAre
<1>5. IsKept("ema_fast", c, d, m)
  <2> SUFFICES ASSUME NEW i \in 1..(m - WarmUp["ema_fast"])
               PROVE  Series(c)["ema_fast"][i] = Series(d)["ema_fast"][i]
    BY DEF IsKept
  <2>1. i \in 1..(m - (P.ema_cross.fast - 1))
    BY WarmUpIs
  <2>2. PICK x, y : x = EMA(Closes(c), P.ema_cross.fast)
                    /\ y = EMA(Closes(d), P.ema_cross.fast)
    OBVIOUS
  <2>3. PICK n \in Nat \ {0} : n = P.ema_cross.fast
    BY PeriodsOK
  <2>4. PICK v, u : v = Closes(c) /\ u = Closes(d)
    OBVIOUS
  <2>5. x = EMA(v, n) /\ y = EMA(u, n) /\ i \in 1..(m - (n - 1)) /\ Agree(v, u, m)
    BY <1>0, <2>1, <2>2, <2>3, <2>4
  <2>6. x[i] = y[i]
    BY <2>5, EMAKept
  <2> QED BY <2>2, <2>6, SeriesAre
<1>6. IsKept("ema_slow", c, d, m)
  <2> SUFFICES ASSUME NEW i \in 1..(m - WarmUp["ema_slow"])
               PROVE  Series(c)["ema_slow"][i] = Series(d)["ema_slow"][i]
    BY DEF IsKept
  <2>1. i \in 1..(m - (P.ema_cross.slow - 1))
    BY WarmUpIs
  <2>2. PICK x, y : x = EMA(Closes(c), P.ema_cross.slow)
                    /\ y = EMA(Closes(d), P.ema_cross.slow)
    OBVIOUS
  <2>3. PICK n \in Nat \ {0} : n = P.ema_cross.slow
    BY PeriodsOK
  <2>4. PICK v, u : v = Closes(c) /\ u = Closes(d)
    OBVIOUS
  <2>5. x = EMA(v, n) /\ y = EMA(u, n) /\ i \in 1..(m - (n - 1)) /\ Agree(v, u, m)
    BY <1>0, <2>1, <2>2, <2>3, <2>4
  <2>6. x[i] = y[i]
    BY <2>5, EMAKept
  <2> QED BY <2>2, <2>6, SeriesAre
<1>7. IsKept("sma", c, d, m)
  <2> SUFFICES ASSUME NEW i \in 1..(m - WarmUp["sma"])
               PROVE  Series(c)["sma"][i] = Series(d)["sma"][i]
    BY DEF IsKept
  <2>1. i \in 1..(m - (P.bollinger_bands.period - 1))
    BY WarmUpIs
  <2>2. PICK x, y : x = SMA(Closes(c), P.bollinger_bands.period)
                    /\ y = SMA(Closes(d), P.bollinger_bands.period)
    OBVIOUS
  <2>3. x = Viewed("mean", Closes(c), P.bollinger_bands.period) /\ y = Viewed("mean", Closes(d), P.bollinger_bands.period)
    BY <2>2, ClosesAreWhole
  <2>4. PICK n \in Nat \ {0} : n = P.bollinger_bands.period
    BY PeriodsOK
  <2>5. PICK k, v, u : k = "mean" /\ v = Closes(c) /\ u = Closes(d)
    OBVIOUS
  <2>6. x = Viewed(k, v, n) /\ y = Viewed(k, u, n)
    BY <2>3, <2>4, <2>5
  <2>7. i \in 1..(m - (n - 1)) /\ Agree(v, u, m)
    BY <1>0, <2>1, <2>4, <2>5
  <2>8. x[i] = y[i]
    <3>1. Viewed(k, v, n)[i] = Viewed(k, u, n)[i]
      BY <2>7, ViewedKept
    <3> QED BY <2>6, <3>1
  <2> QED BY <2>2, <2>8, SeriesAre
<1>8. IsKept("atr", c, d, m)
  <2> SUFFICES ASSUME NEW i \in 1..(m - WarmUp["atr"])
               PROVE  Series(c)["atr"][i] = Series(d)["atr"][i]
    BY DEF IsKept
  <2>1. i \in 1..(m - P.trend_follow.period)
    BY WarmUpIs
  <2>2. PICK x, y : x = ATR(c, P.trend_follow.period)
                    /\ y = ATR(d, P.trend_follow.period)
    OBVIOUS
  <2>3. PICK n \in Nat \ {0} : n = P.trend_follow.period
    BY PeriodsOK
  <2>4. x = ATR(c, n) /\ y = ATR(d, n) /\ i \in 1..(m - n)
    BY <2>1, <2>2, <2>3
  <2>5. x[i] = y[i]
    BY <2>4, RangesKept
  <2> QED BY <2>2, <2>5, SeriesAre
<1>9. IsKept("supertrend", c, d, m)
  <2> SUFFICES ASSUME NEW i \in 1..(m - WarmUp["supertrend"])
               PROVE  Series(c)["supertrend"][i] = Series(d)["supertrend"][i]
    BY DEF IsKept
  <2>1. i \in 1..(m - P.supertrend.period)
    BY WarmUpIs
  <2>2. PICK x, y : x = Supertrend(c, P.supertrend.period, P.supertrend.factor)
                    /\ y = Supertrend(d, P.supertrend.period, P.supertrend.factor)
    OBVIOUS
  <2>3. PICK n \in Nat \ {0} : n = P.supertrend.period
    BY PeriodsOK
  <2>4. x = Supertrend(c, n, P.supertrend.factor) /\ y = Supertrend(d, n, P.supertrend.factor) /\ i \in 1..(m - n)
    BY <2>1, <2>2, <2>3
  <2>5. x[i] = y[i]
    BY <2>4, SupertrendKept
  <2> QED BY <2>2, <2>5, SeriesAre
<1>10. IsKept("williams_r", c, d, m)
  <2> SUFFICES ASSUME NEW i \in 1..(m - WarmUp["williams_r"])
               PROVE  Series(c)["williams_r"][i] = Series(d)["williams_r"][i]
    BY DEF IsKept
  <2>1. i \in 1..(m - (P.williams_r.period - 1))
    BY WarmUpIs
  <2>2. PICK x, y : x = WilliamsR(c, P.williams_r.period)
                    /\ y = WilliamsR(d, P.williams_r.period)
    OBVIOUS
  <2>3. x = Viewed("range", c, P.williams_r.period) /\ y = Viewed("range", d, P.williams_r.period)
    BY <2>2, ChannelsAre
  <2>4. PICK n \in Nat \ {0} : n = P.williams_r.period
    BY PeriodsOK
  <2>5. PICK k, v, u : k = "range" /\ v = c /\ u = d
    OBVIOUS
  <2>6. x = Viewed(k, v, n) /\ y = Viewed(k, u, n)
    BY <2>3, <2>4, <2>5
  <2>7. i \in 1..(m - (n - 1)) /\ Agree(v, u, m)
    BY <1>0, <2>1, <2>4, <2>5
  <2>8. x[i] = y[i]
    <3>1. Viewed(k, v, n)[i] = Viewed(k, u, n)[i]
      BY <2>7, ViewedKept
    <3> QED BY <2>6, <3>1
  <2> QED BY <2>2, <2>8, SeriesAre
<1>11. IsKept("stoch_rsi", c, d, m)
  <2> SUFFICES ASSUME NEW i \in 1..(m - WarmUp["stoch_rsi"])
               PROVE  Series(c)["stoch_rsi"][i] = Series(d)["stoch_rsi"][i]
    BY DEF IsKept
  <2>1. i \in 1..(m - (P.stoch_rsi.period + P.stoch_rsi.k + P.stoch_rsi.d - 2))
    BY WarmUpIs
  <2>2. PICK x, y : x = StochRSI(c, P.stoch_rsi.period, P.stoch_rsi.k, P.stoch_rsi.d)
                    /\ y = StochRSI(d, P.stoch_rsi.period, P.stoch_rsi.k, P.stoch_rsi.d)
    OBVIOUS
  <2>3. PICK n \in Nat \ {0}, k \in Nat \ {0}, e \in Nat \ {0} :
            n = P.stoch_rsi.period /\ k = P.stoch_rsi.k /\ e = P.stoch_rsi.d
    BY PeriodsOK
  <2>4. x = StochRSI(c, n, k, e) /\ y = StochRSI(d, n, k, e) /\ i \in 1..(m - (n + k + e - 2))
    BY <2>1, <2>2, <2>3
  <2>5. x[i] = y[i]
    BY <2>4, StochRSIKept
  <2> QED BY <2>2, <2>5, SeriesAre
<1>12. IsKept("dmi_adx", c, d, m)
  <2> SUFFICES ASSUME NEW i \in 1..(m - WarmUp["dmi_adx"])
               PROVE  Series(c)["dmi_adx"][i] = Series(d)["dmi_adx"][i]
    BY DEF IsKept
  <2>1. i \in 1..(m - (2 * P.dmi_adx.period - 1))
    BY WarmUpIs
  <2>2. PICK x, y : x = ADX(c, P.dmi_adx.period)
                    /\ y = ADX(d, P.dmi_adx.period)
    OBVIOUS
  <2>3. PICK n \in Nat \ {0} : n = P.dmi_adx.period
    BY PeriodsOK
  <2>4. x = ADX(c, n) /\ y = ADX(d, n) /\ i \in 1..(m - (2 * n - 1))
    BY <2>1, <2>2, <2>3
  <2>5. x[i] = y[i]
    BY <2>4, ADXKept
  <2> QED BY <2>2, <2>5, SeriesAre
<1>13. ASSUME Begun("parabolic_sar", c, d, m) PROVE IsKept("parabolic_sar", c, d, m)
  <2> SUFFICES ASSUME NEW i \in 1..(m - WarmUp["parabolic_sar"])
               PROVE  Series(c)["parabolic_sar"][i] = Series(d)["parabolic_sar"][i]
    BY DEF IsKept
  <2>1. i \in 1..m /\ 2 <= m
    BY <1>13, WarmUpIs DEF Begun, Agree
  <2>2. PICK x, y : x = ParabolicSAR(c, P.parabolic_sar)
                    /\ y = ParabolicSAR(d, P.parabolic_sar)
    OBVIOUS
  <2>3. PICK p : p = P.parabolic_sar
    OBVIOUS
  <2>4. x = ParabolicSAR(c, p) /\ y = ParabolicSAR(d, p)
    BY <2>2, <2>3
  <2>5. x[i] = y[i]
    BY <2>1, <2>4, SARKept
  <2> QED BY <2>2, <2>5, SeriesAre
<1>14. IsKept("hull_ma", c, d, m)
  <2> SUFFICES ASSUME NEW i \in 1..(m - WarmUp["hull_ma"])
               PROVE  Series(c)["hull_ma"][i] = Series(d)["hull_ma"][i]
    BY DEF IsKept
  <2>1. i \in 1..(m - (P.hull_ma.period + P.hull_ma.root - 2))
    BY WarmUpIs
  <2>2. PICK x, y : x = HullMA(c, P.hull_ma.period, P.hull_ma.half, P.hull_ma.root)
                    /\ y = HullMA(d, P.hull_ma.period, P.hull_ma.half, P.hull_ma.root)
    OBVIOUS
  <2>3. PICK n \in Nat \ {0}, f \in Nat \ {0}, r \in Nat \ {0} :
            n = P.hull_ma.period /\ f = P.hull_ma.half /\ r = P.hull_ma.root
    BY PeriodsOK
  <2>4. x = HullMA(c, n, f, r) /\ y = HullMA(d, n, f, r) /\ i \in 1..(m - (n + r - 2))
    BY <2>1, <2>2, <2>3
  <2>5. x[i] = y[i]
    <3>1. f <= n
      BY <2>3, PeriodsOK
    <3> QED BY <2>4, <3>1, HullKept
  <2> QED BY <2>2, <2>5, SeriesAre
<1>15. IsKept("keltner_channel", c, d, m)
  <2> SUFFICES ASSUME NEW i \in 1..(m - WarmUp["keltner_channel"])
               PROVE  Series(c)["keltner_channel"][i] = Series(d)["keltner_channel"][i]
    BY DEF IsKept
  <2>1. i \in 1..(m - P.keltner_channel.period)
    BY WarmUpIs
  <2>2. PICK x, y : x = KeltnerChannel(c, P.keltner_channel.period, P.keltner_channel.halves)
                    /\ y = KeltnerChannel(d, P.keltner_channel.period, P.keltner_channel.halves)
    OBVIOUS
  <2>3. PICK n \in Nat \ {0} : n = P.keltner_channel.period
    BY PeriodsOK
  <2>4. x = KeltnerChannel(c, n, P.keltner_channel.halves) /\ y = KeltnerChannel(d, n, P.keltner_channel.halves) /\ i \in 1..(m - n)
    BY <2>1, <2>2, <2>3
  <2>5. x[i] = y[i]
    BY <2>4, KeltnerKept
  <2> QED BY <2>2, <2>5, SeriesAre
<1>16. IsKept("donchian", c, d, m)
  <2> SUFFICES ASSUME NEW i \in 1..(m - WarmUp["donchian"])
               PROVE  Series(c)["donchian"][i] = Series(d)["donchian"][i]
    BY DEF IsKept
  <2>1. i \in 1..(m - (P.donchian.period - 1))
    BY WarmUpIs
  <2>2. PICK x, y : x = DonchianChannel(c, P.donchian.period)
                    /\ y = DonchianChannel(d, P.donchian.period)
    OBVIOUS
  <2>3. x = Viewed("channel", c, P.donchian.period) /\ y = Viewed("channel", d, P.donchian.period)
    BY <2>2, ChannelsAre
  <2>4. PICK n \in Nat \ {0} : n = P.donchian.period
    BY PeriodsOK
  <2>5. PICK k, v, u : k = "channel" /\ v = c /\ u = d
    OBVIOUS
  <2>6. x = Viewed(k, v, n) /\ y = Viewed(k, u, n)
    BY <2>3, <2>4, <2>5
  <2>7. i \in 1..(m - (n - 1)) /\ Agree(v, u, m)
    BY <1>0, <2>1, <2>4, <2>5
  <2>8. x[i] = y[i]
    <3>1. Viewed(k, v, n)[i] = Viewed(k, u, n)[i]
      BY <2>7, ViewedKept
    <3> QED BY <2>6, <3>1
  <2> QED BY <2>2, <2>8, SeriesAre
<1> QED BY <1>1, <1>2, <1>3, <1>4, <1>5, <1>6, <1>7, <1>8, <1>9, <1>10, <1>11, <1>12, <1>13, <1>14, <1>15, <1>16 DEF Names

\* When the oldest candle drops out, the series of windows lose their oldest value.
IsSlid(s, c, d, m) == \A i \in 1..(m - WarmUp[s]) : Series(c)[s][1 + i] = Series(d)[s][i]

\* A window does not know how many elements are before it.
LEMMA ViewedSlides ==
    ASSUME NEW k, NEW v, NEW u, NEW m, Later(v, u, 1, m), NEW n \in Nat \ {0}, NEW i \in 1..(m - (n - 1))
    PROVE  Viewed(k, v, n)[1 + i] = Viewed(k, u, n)[i]
<1>1. m \in Nat
  BY DEF Later
<1>2. n <= m /\ i \in 1..(m - n + 1)
  BY <1>1
<1>3. Later(Viewed(k, v, n), Viewed(k, u, n), 1, m - n + 1)
  BY <1>2, ViewedLater
<1> QED BY <1>2, <1>3 DEF Later

\* So it is with the series of the strategies.
LEMMA SeriesSlide ==
    ASSUME NEW c \in Seq(Candle), NEW d \in Seq(Candle), NEW m, Later(c, d, 1, m)
    PROVE  \A s \in Windowed : IsSlid(s, c, d, m)
<1>0. Later(Closes(c), Closes(d), 1, m) /\ Later(Prices(c), Prices(d), 1, m)
  BY PricesLater
<1>1. IsSlid("bollinger_bands", c, d, m)
  <2> SUFFICES ASSUME NEW i \in 1..(m - WarmUp["bollinger_bands"])
               PROVE  Series(c)["bollinger_bands"][1 + i] = Series(d)["bollinger_bands"][i]
    BY DEF IsSlid
  <2>1. i \in 1..(m - (P.bollinger_bands.period - 1))
    BY WarmUpIs
  <2>2. PICK x, y : x = BollingerBands(c, P.bollinger_bands.period)
                    /\ y = BollingerBands(d, P.bollinger_bands.period)
    OBVIOUS
  <2>3. x = Viewed("band", Prices(c), P.bollinger_bands.period) /\ y = Viewed("band", Prices(d), P.bollinger_bands.period)
    BY <2>2, BandsAre DEF Prices
  <2>4. PICK n \in Nat \ {0} : n = P.bollinger_bands.period
    BY PeriodsOK
  <2>5. PICK k, v, u : k = "band" /\ v = Prices(c) /\ u = Prices(d)
    OBVIOUS
  <2>6. x = Viewed(k, v, n) /\ y = Viewed(k, u, n)
    BY <2>3, <2>4, <2>5
  <2>7. i \in 1..(m - (n - 1)) /\ Later(v, u, 1, m)
    BY <1>0, <2>1, <2>4, <2>5
  <2>8. x[1 + i] = y[i]
    <3>1. Viewed(k, v, n)[1 + i] = Viewed(k, u, n)[i]
      BY <2>7, ViewedSlides
    <3> QED BY <2>6, <3>1
  <2> QED BY <2>2, <2>8, SeriesAre
<1>2. IsSlid("sma", c, d, m)
  <2> SUFFICES ASSUME NEW i \in 1..(m - WarmUp["sma"])
               PROVE  Series(c)["sma"][1 + i] = Series(d)["sma"][i]
    BY DEF IsSlid
  <2>1. i \in 1..(m - (P.bollinger_bands.period - 1))
    BY WarmUpIs
  <2>2. PICK x, y : x = SMA(Closes(c), P.bollinger_bands.period)
                    /\ y = SMA(Closes(d), P.bollinger_bands.period)
    OBVIOUS
  <2>3. x = Viewed("mean", Closes(c), P.bollinger_bands.period) /\ y = Viewed("mean", Closes(d), P.bollinger_bands.period)
    BY <2>2, ClosesAreWhole
  <2>4. PICK n \in Nat \ {0} : n = P.bollinger_bands.period
    BY PeriodsOK
  <2>5. PICK k, v, u : k = "mean" /\ v = Closes(c) /\ u = Closes(d)
    OBVIOUS
  <2>6. x = Viewed(k, v, n) /\ y = Viewed(k, u, n)
    BY <2>3, <2>4, <2>5
  <2>7. i \in 1..(m - (n - 1)) /\ Later(v, u, 1, m)
    BY <1>0, <2>1, <2>4, <2>5
  <2>8. x[1 + i] = y[i]
    <3>1. Viewed(k, v, n)[1 + i] = Viewed(k, u, n)[i]
      BY <2>7, ViewedSlides
    <3> QED BY <2>6, <3>1
  <2> QED BY <2>2, <2>8, SeriesAre
<1>3. IsSlid("williams_r", c, d, m)
  <2> SUFFICES ASSUME NEW i \in 1..(m - WarmUp["williams_r"])
               PROVE  Series(c)["williams_r"][1 + i] = Series(d)["williams_r"][i]
    BY DEF IsSlid
  <2>1. i \in 1..(m - (P.williams_r.period - 1))
    BY WarmUpIs
  <2>2. PICK x, y : x = WilliamsR(c, P.williams_r.period)
                    /\ y = WilliamsR(d, P.williams_r.period)
    OBVIOUS
  <2>3. x = Viewed("range", c, P.williams_r.period) /\ y = Viewed("range", d, P.williams_r.period)
    BY <2>2, ChannelsAre
  <2>4. PICK n \in Nat \ {0} : n = P.williams_r.period
    BY PeriodsOK
  <2>5. PICK k, v, u : k = "range" /\ v = c /\ u = d
    OBVIOUS
  <2>6. x = Viewed(k, v, n) /\ y = Viewed(k, u, n)
    BY <2>3, <2>4, <2>5
  <2>7. i \in 1..(m - (n - 1)) /\ Later(v, u, 1, m)
    BY <1>0, <2>1, <2>4, <2>5
  <2>8. x[1 + i] = y[i]
    <3>1. Viewed(k, v, n)[1 + i] = Viewed(k, u, n)[i]
      BY <2>7, ViewedSlides
    <3> QED BY <2>6, <3>1
  <2> QED BY <2>2, <2>8, SeriesAre
<1>4. IsSlid("donchian", c, d, m)
  <2> SUFFICES ASSUME NEW i \in 1..(m - WarmUp["donchian"])
               PROVE  Series(c)["donchian"][1 + i] = Series(d)["donchian"][i]
    BY DEF IsSlid
  <2>1. i \in 1..(m - (P.donchian.period - 1))
    BY WarmUpIs
  <2>2. PICK x, y : x = DonchianChannel(c, P.donchian.period)
                    /\ y = DonchianChannel(d, P.donchian.period)
    OBVIOUS
  <2>3. x = Viewed("channel", c, P.donchian.period) /\ y = Viewed("channel", d, P.donchian.period)
    BY <2>2, ChannelsAre
  <2>4. PICK n \in Nat \ {0} : n = P.donchian.period
    BY PeriodsOK
  <2>5. PICK k, v, u : k = "channel" /\ v = c /\ u = d
    OBVIOUS
  <2>6. x = Viewed(k, v, n) /\ y = Viewed(k, u, n)
    BY <2>3, <2>4, <2>5
  <2>7. i \in 1..(m - (n - 1)) /\ Later(v, u, 1, m)
    BY <1>0, <2>1, <2>4, <2>5
  <2>8. x[1 + i] = y[i]
    <3>1. Viewed(k, v, n)[1 + i] = Viewed(k, u, n)[i]
      BY <2>7, ViewedSlides
    <3> QED BY <2>6, <3>1
  <2> QED BY <2>2, <2>8, SeriesAre
<1> QED BY <1>1, <1>2, <1>3, <1>4 DEF Windowed


-----------------------------------------------------------------------------
(* The votes *)

Registered == {"ichimoku", "rsi_mean_revert", "macd_cross", "bollinger_bands", "ema_cross",
               "vwap_revert", "momentum", "scalp_ob", "grid", "trend_follow", "breakout",
               "mean_revert_z", "dual_thrust", "supertrend", "williams_r", "stoch_rsi",
               "dmi_adx", "parabolic_sar", "hull_ma", "keltner_channel", "donchian", "arb_spread"}
Sides == {Long, Short, Flat}

\* Which vote is which.
LEMMA VotesAre ==
    ASSUME NEW c, NEW x, NEW b
    PROVE  /\ DOMAIN Votes(c, x, b) = Registered
           /\ Votes(c, x, b)["ichimoku"] = IchimokuVote(c, x.ichimoku)
           /\ Votes(c, x, b)["rsi_mean_revert"] = RSIVote(x.rsi_mean_revert)
           /\ Votes(c, x, b)["macd_cross"] = MACDVote(x.macd_cross)
           /\ Votes(c, x, b)["bollinger_bands"] = BollingerVote(c, x.bollinger_bands)
           /\ Votes(c, x, b)["ema_cross"] = EMACrossVote(x.ema_fast, x.ema_slow)
           /\ Votes(c, x, b)["vwap_revert"] = VWAPRevertVote(c)
           /\ Votes(c, x, b)["momentum"] = MomentumVote(c)
           /\ Votes(c, x, b)["scalp_ob"] = ScalpVote(b)
           /\ Votes(c, x, b)["grid"] = GridVote(c)
           /\ Votes(c, x, b)["trend_follow"] = TrendFollowVote(c, x.atr)
           /\ Votes(c, x, b)["breakout"] = BreakoutVote(c)
           /\ Votes(c, x, b)["mean_revert_z"] = MeanRevertZVote(c)
           /\ Votes(c, x, b)["dual_thrust"] = DualThrustVote(c)
           /\ Votes(c, x, b)["supertrend"] = SupertrendVote(x.supertrend)
           /\ Votes(c, x, b)["williams_r"] = WilliamsVote(x.williams_r)
           /\ Votes(c, x, b)["stoch_rsi"] = StochRSIVote(x.stoch_rsi)
           /\ Votes(c, x, b)["dmi_adx"] = ADXVote(x.dmi_adx)
           /\ Votes(c, x, b)["parabolic_sar"] = ParabolicSARVote(x.parabolic_sar)
           /\ Votes(c, x, b)["hull_ma"] = HullVote(x.hull_ma)
           /\ Votes(c, x, b)["keltner_channel"] = KeltnerVote(c, x.keltner_channel)
           /\ Votes(c, x, b)["donchian"] = DonchianVote(c, x.donchian)
           /\ Votes(c, x, b)["arb_spread"] = ArbVote(b)
BY DEF Votes, Registered

\* Every registered strategy has a confidence.
LEMMA AllWeighed ==
    ASSUME NEW b
    PROVE  DOMAIN Confidence(b) = Registered
BY DEF Confidence, Registered

\* A vote that needs nothing but its data is no panic.
LEMMA VoteIs ==
    ASSUME NEW e, NEW l, NEW s
    PROVE  Vote(e, l, s) \in Sides
BY DEF Vote, Sides

\* The sides and the panic are different votes.
LEMMA NoSideIsPanic == Panic \notin Sides /\ Flat \in Sides
BY DEF Panic, Sides, Long, Short, Flat

\* What a strategy may die of: no candle has traded, or one closed at 0.
Wanting(c) == (\A i \in DOMAIN c : c[i].volume = 0) \/ (\E i \in DOMAIN c : c[i].close = 0)

\* A VWAP of 0 is one of candles that have not traded, or of prices of 0.
LEMMA NoVolume ==
    ASSUME NEW c \in Seq(Candle), VWAP(c).vol = 0 \/ VWAP(c).pv = 0
    PROVE  Wanting(c)
<1>1. PICK l \in Nat : l = Len(c) /\ DOMAIN c = 1..l /\ \A i \in 1..l : c[i] \in Candle
  OBVIOUS
<1>2. CASE VWAP(c).vol = 0
  <2>1. PICK v : v = [i \in DOMAIN c |-> c[i].volume]
    OBVIOUS
  <2>2. v \in [1..l -> Nat]
    BY <1>1, <2>1 DEF Candle
  <2>3. v \in Seq(Nat) /\ Len(v) = l
    BY <2>2
  <2>4. Total(v) = 0
    <3>1. PICK t \in Nat : t = Total(v)
      BY <2>3, NothingInTotal
    <3>2. 3 * t = 0
      BY <1>2, <2>1, <3>1 DEF VWAP
    <3> QED BY <3>1, <3>2
  <2>5. \A i \in 1..l : v[i] = 0
    BY <2>3, <2>4, NothingInTotal
  <2> QED BY <1>1, <2>1, <2>5 DEF Wanting
<1>3. CASE VWAP(c).pv = 0
  <2>1. PICK v : v = [i \in DOMAIN c |-> (c[i].high + c[i].low + c[i].close) * c[i].volume]
    OBVIOUS
  <2>2. ASSUME NEW i \in 1..l
        PROVE  v[i] \in Nat /\ (v[i] = 0 => c[i].volume = 0 \/ c[i].close = 0)
    <3>1. PICK h \in Nat, m \in Nat, k \in Nat, q \in Nat :
            h = c[i].high /\ m = c[i].low /\ k = c[i].close /\ q = c[i].volume
      BY <1>1 DEF Candle
    <3>2. PICK s \in Nat : s = h + m + k
      OBVIOUS
    <3>3. v[i] = s * q
      BY <1>1, <2>1, <3>1, <3>2
    <3>4. s * q \in Nat /\ (s * q = 0 => s = 0 \/ q = 0)
      BY ONLY s \in Nat, q \in Nat, SMTT(30)
    <3>5. s = 0 => k = 0
      BY <3>2
    <3> QED BY <3>1, <3>3, <3>4, <3>5
  <2>3. v \in [1..l -> Nat]
    BY <1>1, <2>1, <2>2
  <2>4. v \in Seq(Nat) /\ Len(v) = l
    BY <2>3
  <2>5. Total(v) = 0
    BY <1>3, <2>1 DEF VWAP
  <2>6. \A i \in 1..l : v[i] = 0
    BY <2>4, <2>5, NothingInTotal
  <2> QED BY <1>1, <2>2, <2>6 DEF Wanting
<1> QED BY <1>2, <1>3

\* Only three strategies can panic, and only for want of data.
LEMMA OnlyWithoutData ==
    ASSUME NEW c \in Seq(Candle), NEW x, NEW b, NEW s \in Registered
    PROVE  /\ Votes(c, x, b)[s] \in Sides \cup {Panic}
           /\ Votes(c, x, b)[s] = Panic => Wanting(c)
<1> DEFINE Sound(v) == /\ v \in Sides \cup {Panic}
                       /\ v = Panic => Wanting(c)
<1>1. ASSUME NEW v \in Sides PROVE Sound(v)
  BY NoSideIsPanic
<1>2. Sound(IchimokuVote(c, x.ichimoku))
  <2>1. CASE c = <<>>
    <3>1. Wanting(c)
      BY <2>1 DEF Wanting
    <3> QED BY <2>1, <3>1, NoSideIsPanic DEF IchimokuVote
  <2>2. CASE c # <<>>
    <3>1. IchimokuVote(c, x.ichimoku) \in Sides
      BY <2>2, VoteIs DEF IchimokuVote
    <3> QED BY <1>1, <3>1
  <2> QED BY <2>1, <2>2
<1>3. Sound(RSIVote(x.rsi_mean_revert))
  <2>1. RSIVote(x.rsi_mean_revert) \in Sides
    BY VoteIs DEF RSIVote
  <2> QED BY <1>1, <2>1
<1>4. Sound(MACDVote(x.macd_cross))
  <2>1. MACDVote(x.macd_cross) \in Sides
    BY VoteIs DEF MACDVote
  <2> QED BY <1>1, <2>1
<1>5. Sound(BollingerVote(c, x.bollinger_bands))
  <2>1. BollingerVote(c, x.bollinger_bands) \in Sides
    BY VoteIs DEF BollingerVote
  <2> QED BY <1>1, <2>1
<1>6. Sound(EMACrossVote(x.ema_fast, x.ema_slow))
  <2>1. EMACrossVote(x.ema_fast, x.ema_slow) \in Sides
    BY VoteIs DEF EMACrossVote
  <2> QED BY <1>1, <2>1
<1>7. Sound(VWAPRevertVote(c))
  <2>1. CASE ~(Len(c) < P.vwap_revert.bars) /\ (VWAP(c).vol = 0 \/ VWAP(c).pv = 0)
    BY <2>1, NoVolume DEF VWAPRevertVote
  <2>2. CASE ~(~(Len(c) < P.vwap_revert.bars) /\ (VWAP(c).vol = 0 \/ VWAP(c).pv = 0))
    <3>1. VWAPRevertVote(c) \in Sides
      BY <2>2 DEF VWAPRevertVote, Sides
    <3> QED BY <1>1, <3>1
  <2> QED BY <2>1, <2>2
<1>8. Sound(MomentumVote(c))
  <2>1. PICK n \in Nat \ {0} : n = P.momentum.period
    BY PeriodsOK
  <2>2. CASE Len(c) > n /\ c[Len(c) - n].close = 0
    <3>1. Len(c) - n \in DOMAIN c
      BY <2>2
    <3> QED BY <2>1, <2>2, <3>1 DEF MomentumVote, Wanting
  <2>3. CASE ~(Len(c) > n /\ c[Len(c) - n].close = 0)
    <3>1. MomentumVote(c) \in Sides
      BY <2>1, <2>3, VoteIs DEF MomentumVote
    <3> QED BY <1>1, <3>1
  <2> QED BY <2>2, <2>3
<1>9. Sound(ScalpVote(b))
  <2>1. ScalpVote(b) \in Sides
    BY VoteIs DEF ScalpVote
  <2> QED BY <1>1, <2>1
<1>10. Sound(GridVote(c))
  <2>1. GridVote(c) \in Sides
    BY VoteIs DEF GridVote
  <2> QED BY <1>1, <2>1
<1>11. Sound(TrendFollowVote(c, x.atr))
  <2>1. TrendFollowVote(c, x.atr) \in Sides
    BY VoteIs DEF TrendFollowVote
  <2> QED BY <1>1, <2>1
<1>12. Sound(BreakoutVote(c))
  <2>1. BreakoutVote(c) \in Sides
    BY VoteIs DEF BreakoutVote
  <2> QED BY <1>1, <2>1
<1>13. Sound(MeanRevertZVote(c))
  <2>1. MeanRevertZVote(c) \in Sides
    BY VoteIs DEF MeanRevertZVote
  <2> QED BY <1>1, <2>1
<1>14. Sound(DualThrustVote(c))
  <2>1. DualThrustVote(c) \in Sides
    BY VoteIs DEF DualThrustVote
  <2> QED BY <1>1, <2>1
<1>15. Sound(SupertrendVote(x.supertrend))
  <2>1. SupertrendVote(x.supertrend) \in Sides
    BY VoteIs DEF SupertrendVote, FlipVote
  <2> QED BY <1>1, <2>1
<1>16. Sound(WilliamsVote(x.williams_r))
  <2>1. WilliamsVote(x.williams_r) \in Sides
    BY VoteIs DEF WilliamsVote
  <2> QED BY <1>1, <2>1
<1>17. Sound(StochRSIVote(x.stoch_rsi))
  <2>1. StochRSIVote(x.stoch_rsi) \in Sides
    BY VoteIs DEF StochRSIVote
  <2> QED BY <1>1, <2>1
<1>18. Sound(ADXVote(x.dmi_adx))
  <2>1. ADXVote(x.dmi_adx) \in Sides
    BY VoteIs DEF ADXVote
  <2> QED BY <1>1, <2>1
<1>19. Sound(ParabolicSARVote(x.parabolic_sar))
  <2>1. ParabolicSARVote(x.parabolic_sar) \in Sides
    BY VoteIs DEF ParabolicSARVote, FlipVote
  <2> QED BY <1>1, <2>1
<1>20. Sound(HullVote(x.hull_ma))
  <2>1. HullVote(x.hull_ma) \in Sides
    BY VoteIs DEF HullVote
  <2> QED BY <1>1, <2>1
<1>21. Sound(KeltnerVote(c, x.keltner_channel))
  <2>1. KeltnerVote(c, x.keltner_channel) \in Sides
    BY VoteIs DEF KeltnerVote
  <2> QED BY <1>1, <2>1
<1>22. Sound(DonchianVote(c, x.donchian))
  <2>1. DonchianVote(c, x.donchian) \in Sides
    BY VoteIs DEF DonchianVote
  <2> QED BY <1>1, <2>1
<1>23. Sound(ArbVote(b))
  <2>1. ArbVote(b) \in Sides
    BY VoteIs DEF ArbVote
  <2> QED BY <1>1, <2>1
<1> HIDE DEF Sound
<1>30. Sound(Votes(c, x, b)[s])
  BY <1>2, <1>3, <1>4, <1>5, <1>6, <1>7, <1>8, <1>9, <1>10, <1>11, <1>12, <1>13, <1>14, <1>15, <1>16, <1>17, <1>18, <1>19, <1>20, <1>21, <1>22, <1>23, VotesAre DEF Registered
<1> QED BY <1>30 DEF Sound

\* The consensus is a side, or none.
LEMMA ConsensusIs ==
    ASSUME NEW v, NEW b
    PROVE  Aggregate(v, b) \subseteq Sides
<1> DEFINE l == Weight(v, Long, b)
           s == Weight(v, Short, b)
<1>1. Aggregate(v, b) = IF l = 0 /\ s = 0 THEN {Flat}
                        ELSE (IF l >= s THEN {Long} ELSE {}) \cup (IF s >= l THEN {Short} ELSE {})
  BY DEF Aggregate
<1> HIDE DEF l, s
<1> QED BY <1>1 DEF Sides


-----------------------------------------------------------------------------
(* What a tick does to the candles *)

\* The first elements of a sequence, all but the last.
LEMMA FrontIs ==
    ASSUME NEW s, Sequence(s), Len(s) # 0
    PROVE  /\ Sequence(Front(s)) /\ Len(Front(s)) = Len(s) - 1
           /\ \A i \in 1..(Len(s) - 1) : Front(s)[i] = s[i]
<1>1. PICK l \in Nat : l = Len(s) /\ l - 1 \in Nat
  BY SequenceIs
<1>2. 1 \in Nat \ {0} /\ l - 1 <= Len(s) /\ 1 <= (l - 1) + 1
  BY <1>1
<1>3. /\ Sequence(SubSeq(s, 1, l - 1)) /\ Len(SubSeq(s, 1, l - 1)) = (l - 1) - 1 + 1
      /\ \A k \in 1..((l - 1) - 1 + 1) : SubSeq(s, 1, l - 1)[k] = s[1 + k - 1]
  BY <1>1, <1>2, Part
<1>4. (l - 1) - 1 + 1 = l - 1 /\ \A k \in 1..(l - 1) : 1 + k - 1 = k
  BY <1>1
<1> QED BY <1>1, <1>3, <1>4 DEF Front

\* All elements of a sequence but the first.
LEMMA TailOf ==
    ASSUME NEW s, Sequence(s), Len(s) # 0
    PROVE  /\ Sequence(Tail(s)) /\ Len(Tail(s)) = Len(s) - 1
           /\ \A i \in 1..(Len(s) - 1) : Tail(s)[i] = s[1 + i]
<1>1. PICK T : s \in Seq(T)
  BY DEF Sequence
<1>2. s # <<>>
  BY <1>1
<1>3. Tail(s) \in Seq(T) /\ Len(Tail(s)) = Len(s) - 1
  BY <1>1, <1>2
<1>4. \A i \in 1..(Len(s) - 1) : Tail(s)[i] = s[i + 1]
  BY <1>1, <1>2
<1>5. \A i \in 1..(Len(s) - 1) : 1 + i = i + 1
  OBVIOUS
<1> QED BY <1>3, <1>4, <1>5 DEF Sequence

\* A sequence that another one goes on from is its prefix.
LEMMA PrefixIs ==
    ASSUME NEW s, NEW t, Sequence(s), Sequence(t), Len(s) <= Len(t),
           \A i \in 1..Len(s) : s[i] = t[i]
    PROVE  IsPrefix(s, t)
<1>1. PICK l \in Nat, k \in Nat : l = Len(s) /\ k = Len(t)
  BY SequenceIs
<1>2. Agree(s, t, l)
  BY <1>1 DEF Agree
<1>3. SubSeq(s, 1, l) = SubSeq(t, 1, l)
  <2>1. 1 \in Nat \ {0} /\ l <= l /\ 1 <= l + 1
    BY <1>1
  <2> QED BY <1>1, <1>2, <2>1, FirstWindow
<1> QED BY <1>1, <1>3 DEF IsPrefix

\* Sequences that differ in their last element, at most.
LEMMA FrontsAlike ==
    ASSUME NEW s, NEW t, Sequence(s), Sequence(t), Len(s) = Len(t), Len(s) # 0,
           \A i \in 1..(Len(s) - 1) : s[i] = t[i]
    PROVE  Front(s) = Front(t)
<1>1. PICK l : l = Len(s) /\ l = Len(t) /\ l # 0
  OBVIOUS
<1>2. /\ Sequence(Front(s)) /\ Len(Front(s)) = l - 1
      /\ \A i \in 1..(l - 1) : Front(s)[i] = s[i]
  BY <1>1, FrontIs
<1>3. /\ Sequence(Front(t)) /\ Len(Front(t)) = l - 1
      /\ \A i \in 1..(l - 1) : Front(t)[i] = t[i]
  BY <1>1, FrontIs
<1>4. \A i \in 1..(l - 1) : Front(s)[i] = Front(t)[i]
  BY <1>1, <1>2, <1>3
<1> QED BY <1>2, <1>3, <1>4, SameElements

\* Sequences of the same length with the same front agree but for the last element.
LEMMA FrontsAgree ==
    ASSUME NEW s, NEW t, Sequence(s), Sequence(t), Len(s) = Len(t), Len(s) # 0, Front(s) = Front(t)
    PROVE  Agree(s, t, Len(s) - 1)
<1>1. PICK l \in Nat : l = Len(s) /\ l = Len(t) /\ l # 0
  BY SequenceIs
<1>2. \A i \in 1..(l - 1) : Front(s)[i] = s[i]
  BY <1>1, FrontIs
<1>3. \A i \in 1..(l - 1) : Front(t)[i] = t[i]
  BY <1>1, FrontIs
<1>4. \A i \in 1..(l - 1) : s[i] = t[i]
  BY <1>2, <1>3
<1>5. l - 1 \in Nat /\ l - 1 <= l
  BY <1>1
<1> QED BY <1>1, <1>4, <1>5 DEF Agree

\* A bar more, at most MaxBars of them.
LEMMA Added ==
    ASSUME NEW c \in Seq(Candle), NEW k \in Candle
    PROVE  LET d == Append(c, k) IN
           /\ d \in Seq(Candle) /\ Len(d) = Len(c) + 1 /\ Front(d) = c /\ Agree(c, d, Len(c))
<1>1. PICK T, l : l \in Nat /\ T = Candle /\ c \in Seq(T) /\ k \in T /\ l = Len(c)
  OBVIOUS
<1>2. PICK d : d = Append(c, k)
  OBVIOUS
<1>3. d \in Seq(T) /\ Len(d) = l + 1 /\ \A i \in 1..l : d[i] = c[i]
  BY <1>1, <1>2
<1>4. Sequence(c) /\ Sequence(d)
  BY <1>1, <1>3 DEF Sequence
<1>5. Agree(c, d, l)
  <2>1. l <= Len(c) /\ l <= Len(d) /\ \A i \in 1..l : c[i] = d[i]
    BY <1>1, <1>3
  <2> QED BY <1>1, <1>4, <2>1 DEF Agree
<1>6. Front(d) = c
  <2>1. Len(d) # 0 /\ Len(d) - 1 = l
    BY <1>1, <1>3
  <2>2. Sequence(Front(d)) /\ Len(Front(d)) = l /\ \A i \in 1..l : Front(d)[i] = d[i]
    BY <1>4, <2>1, FrontIs
  <2>3. \A i \in 1..l : Front(d)[i] = c[i]
    BY <1>3, <2>2
  <2> QED BY <1>1, <1>4, <2>2, <2>3, SameElements
<1> QED BY <1>1, <1>2, <1>3, <1>5, <1>6

\* The latest bar replaced.
LEMMA Moved ==
    ASSUME NEW c \in Seq(Candle), c # <<>>, NEW k \in Candle
    PROVE  LET d == Front(c) \o <<k>> IN
           d \in Seq(Candle) /\ Len(d) = Len(c) /\ Front(d) = Front(c)
<1>1. PICK T, l : l \in Nat /\ T = Candle /\ c \in Seq(T) /\ k \in T /\ l = Len(c) /\ l # 0
  OBVIOUS
<1>2. PICK f : f = Front(c)
  OBVIOUS
<1>3. f \in Seq(T) /\ Len(f) = l - 1
  <2>1. f = SubSeq(c, 1, l - 1) /\ l - 1 \in Nat
    BY <1>1, <1>2 DEF Front
  <2> QED BY <1>1, <2>1
<1>4. f \o <<k>> = Append(f, k)
  BY <1>1, <1>3
<1>5. Append(f, k) \in Seq(Candle) /\ Len(Append(f, k)) = Len(f) + 1 /\ Front(Append(f, k)) = f
  BY <1>1, <1>3, Added
<1>6. Len(f) + 1 = l
  BY <1>1, <1>3
<1> QED BY <1>1, <1>2, <1>4, <1>5, <1>6

\* A bar more, and the oldest one dropped.
LEMMA Slid ==
    ASSUME NEW c \in Seq(Candle), c # <<>>, NEW k \in Candle
    PROVE  LET d == Append(Tail(c), k) IN
           d \in Seq(Candle) /\ Len(d) = Len(c) /\ Later(c, d, 1, Len(c) - 1)
<1>1. PICK T, l : l \in Nat /\ T = Candle /\ c \in Seq(T) /\ k \in T /\ l = Len(c) /\ l # 0
  OBVIOUS
<1>2. PICK t : t = Tail(c)
  OBVIOUS
<1>3. Sequence(c)
  BY <1>1 DEF Sequence
<1>4. t \in Seq(T) /\ Len(t) = l - 1 /\ \A i \in 1..(l - 1) : t[i] = c[1 + i]
  BY <1>1, <1>2, <1>3, TailOf
<1>5. PICK d : d = Append(t, k)
  OBVIOUS
<1>6. d \in Seq(T) /\ Len(d) = l /\ \A i \in 1..(l - 1) : d[i] = t[i]
  BY <1>1, <1>4, <1>5
<1>7. Sequence(d) /\ 1 \in Nat /\ l - 1 \in Nat /\ 1 + (l - 1) <= Len(c) /\ l - 1 <= Len(d)
  BY <1>1, <1>6 DEF Sequence
<1>8. \A i \in 1..(l - 1) : c[1 + i] = d[i]
  BY <1>4, <1>6
<1>9. Later(c, d, 1, l - 1)
  BY <1>3, <1>7, <1>8 DEF Later
<1> QED BY <1>1, <1>2, <1>5, <1>6, <1>9

-----------------------------------------------------------------------------
(* What a tick does to the series *)

\* With another bar, a series goes on.
LEMMA GoesOn ==
    ASSUME NEW c \in Seq(Candle), NEW d \in Seq(Candle), Agree(c, d, Len(c)), Len(d) = Len(c) + 1,
           NEW s \in Names
    PROVE  IsPrefix(Series(c)[s], Series(d)[s])
<1>1. PICK x, y : x = Series(c)[s] /\ y = Series(d)[s]
  OBVIOUS
<1>2. PICK l \in Nat, b \in Nat, w \in Nat :
          l = Len(c) /\ b = Start[s] /\ w = WarmUp[s] /\ w <= b + 1
  <2>1. Len(c) \in Nat
    OBVIOUS
  <2> QED BY <2>1, LagsAreNatural
<1>3. /\ Sequence(x) /\ Len(x) = IF l <= b THEN 0 ELSE l - w
      /\ Sequence(y) /\ Len(y) = IF l + 1 <= b THEN 0 ELSE l + 1 - w
  <2>1. Sequence(x) /\ Len(x) = IF Len(c) <= b THEN 0 ELSE Len(c) - w
    BY <1>1, <1>2, SeriesLong DEF IsLong
  <2>2. Sequence(y) /\ Len(y) = IF Len(d) <= b THEN 0 ELSE Len(d) - w
    BY <1>1, <1>2, SeriesLong DEF IsLong
  <2>3. Len(d) = l + 1
    BY <1>2
  <2> QED BY <1>2, <2>1, <2>2, <2>3
<1>4. Len(x) <= Len(y)
  BY <1>2, <1>3
<1>5. \A i \in 1..Len(x) : x[i] = y[i]
  <2>1. CASE l <= b
    BY <1>3, <2>1
  <2>2. CASE ~(l <= b)
    <3>1. Begun(s, c, d, l)
      <4>1. s = "parabolic_sar" => 2 <= l
        BY <1>2, <2>2, StartIs
      <4>2. s = "ichimoku" => l >= P.ichimoku.senkou
        <5>1. PICK e \in Nat : e = P.ichimoku.senkou
          BY PeriodsOK
        <5>2. s = "ichimoku" => b = e - 1
          BY <1>2, <5>1, StartIs
        <5>3. b = e - 1 => l >= e
          BY <1>2, <2>2, <5>1
        <5> QED BY <5>1, <5>2, <5>3
      <4> QED BY <1>2, <4>1, <4>2, PeriodsOK DEF Begun
    <3>2. IsKept(s, c, d, l)
      BY <1>2, <3>1, SeriesKept
    <3> QED BY <1>1, <1>2, <1>3, <2>2, <3>2 DEF IsKept
  <2> QED BY <2>1, <2>2
<1>6. IsPrefix(x, y)
  BY <1>3, <1>4, <1>5, PrefixIs
<1> QED BY <1>1, <1>6

\* With another price of the latest bar, a series differs in its latest value.
LEMMA OnlyTheLatest ==
    ASSUME NEW c \in Seq(Candle), NEW d \in Seq(Candle), Len(c) = Len(d), c # <<>>,
           Agree(c, d, Len(c) - 1), NEW s \in Names, s = "parabolic_sar" => Len(d) # 2,
           Series(c)[s] # <<>>
    PROVE  Front(Series(c)[s]) = Front(Series(d)[s])
<1>1. PICK x, y : x = Series(c)[s] /\ y = Series(d)[s]
  OBVIOUS
<1>2. PICK l \in Nat, b \in Nat, w \in Nat :
          l = Len(c) /\ b = Start[s] /\ w = WarmUp[s] /\ w <= b + 1
  <2>1. Len(c) \in Nat
    OBVIOUS
  <2> QED BY <2>1, LagsAreNatural
<1>3. /\ Sequence(x) /\ Len(x) = IF l <= b THEN 0 ELSE l - w
      /\ Sequence(y) /\ Len(y) = IF l <= b THEN 0 ELSE l - w
  BY <1>1, <1>2, SeriesLong DEF IsLong
<1>4. Len(x) # 0
  BY <1>1, <1>3, SequenceIs
<1>5. ~(l <= b) /\ Len(x) = l - w /\ Len(y) = l - w
  BY <1>3, <1>4
<1>6. Begun(s, c, d, l - 1)
  <2>1. s = "parabolic_sar" => 2 <= l - 1
    <3>1. ASSUME s = "parabolic_sar" PROVE l # 2 /\ b = 1
      BY <1>2, <3>1, StartIs
    <3> QED BY <1>2, <1>5, <3>1
  <2>2. s = "ichimoku" => l >= P.ichimoku.senkou
    <3>1. PICK e \in Nat : e = P.ichimoku.senkou
      BY PeriodsOK
    <3>2. s = "ichimoku" => b = e - 1
      BY <1>2, <3>1, StartIs
    <3>3. b = e - 1 => l >= e
      BY <1>2, <1>5, <3>1
    <3> QED BY <3>1, <3>2, <3>3
  <2> QED BY <1>2, <2>1, <2>2, PeriodsOK DEF Begun
<1>7. IsKept(s, c, d, l - 1)
  <2>1. Agree(c, d, l - 1)
    BY <1>2
  <2> QED BY ONLY c \in Seq(Candle), d \in Seq(Candle), s \in Names, <1>6, <2>1, SeriesKept
<1>8. \A i \in 1..(Len(x) - 1) : x[i] = y[i]
  <2>1. Len(x) - 1 = l - 1 - w
    BY <1>2, <1>5, SMTT(60)
  <2>2. \A i \in 1..(l - 1 - WarmUp[s]) : Series(c)[s][i] = Series(d)[s][i]
    BY ONLY <1>7 DEF IsKept
  <2>3. \A i \in 1..(l - 1 - w) : x[i] = y[i]
    BY ONLY <1>1, <1>2, <2>2
  <2> QED BY ONLY <2>1, <2>3
<1>9. Front(x) = Front(y)
  BY <1>3, <1>4, <1>8, FrontsAlike
<1> QED BY <1>1, <1>9

\* Without the oldest bar, a series of windows lacks its oldest value.
LEMMA OldestDrops ==
    ASSUME NEW c \in Seq(Candle), NEW d \in Seq(Candle), Len(c) = Len(d),
           Later(c, d, 1, Len(c) - 1), NEW s \in Windowed, Series(c)[s] # <<>>
    PROVE  IsPrefix(Tail(Series(c)[s]), Series(d)[s])
<1>1. PICK x, y : x = Series(c)[s] /\ y = Series(d)[s]
  OBVIOUS
<1>2. s \in Names /\ s # "ichimoku" /\ s # "parabolic_sar"
  BY DEF Windowed, Names
<1>3. PICK l \in Nat, w \in Nat : l = Len(c) /\ w = Start[s] /\ w = WarmUp[s]
  <2>1. Len(c) \in Nat
    OBVIOUS
  <2> QED BY <1>2, <2>1, LagsAreNatural, StartIs
<1>4. /\ Sequence(x) /\ Len(x) = IF l <= w THEN 0 ELSE l - w
      /\ Sequence(y) /\ Len(y) = IF l <= w THEN 0 ELSE l - w
  BY <1>1, <1>2, <1>3, SeriesLong DEF IsLong
<1>5. Len(x) # 0
  BY <1>1, <1>4, SequenceIs
<1>6. ~(l <= w) /\ Len(x) = l - w /\ Len(y) = l - w
  BY <1>4, <1>5
<1>7. IsSlid(s, c, d, l - 1)
  BY <1>3, SeriesSlide
<1>8. \A i \in 1..(Len(x) - 1) : x[1 + i] = y[i]
  <2>1. Len(x) - 1 = l - 1 - w
    BY <1>3, <1>6
  <2> QED BY <1>1, <1>3, <1>7, <2>1 DEF IsSlid
<1>9. PICK t : t = Tail(x)
  OBVIOUS
<1>10. Sequence(t) /\ Len(t) = Len(x) - 1 /\ \A i \in 1..(Len(x) - 1) : t[i] = x[1 + i]
  BY <1>4, <1>5, <1>9, TailOf
<1>11. Len(t) <= Len(y) /\ \A i \in 1..Len(t) : t[i] = y[i]
  <2>1. Len(t) <= Len(y)
    BY <1>3, <1>6, <1>10
  <2>2. PICK e : e = Len(t) /\ e = Len(x) - 1
    BY <1>10
  <2>3. \A i \in 1..e : t[i] = y[i]
    BY <1>8, <1>10, <2>2
  <2> QED BY <2>1, <2>2, <2>3
<1>12. IsPrefix(t, y)
  BY <1>4, <1>10, <1>11, PrefixIs
<1> QED BY <1>1, <1>9, <1>12

-----------------------------------------------------------------------------
(* The specification *)

\* What is true after every tick: the series and the votes are those of the candles.
Invariant ==
    /\ candles \in Seq(Candle) /\ Len(candles) <= MaxBars
    /\ series = Series(candles)
    /\ \/ votes = Votes(candles, series, book)
       \/ votes = [s \in DOMAIN Confidence(book) |-> Flat]
    /\ up = (\A s \in DOMAIN votes : votes[s] # Panic)
    /\ consensus \in Sides

\* How a tick may change the candles: a bar more, or as many bars.
AddsABar == candles' \in Seq(Candle) /\ Len(candles') = Len(candles) + 1
            /\ Front(candles') = candles /\ Agree(candles, candles', Len(candles))
MovesABar == candles # <<>> /\ candles' \in Seq(Candle) /\ Len(candles') = Len(candles)
             /\ Front(candles') = Front(candles)
DropsABar == candles # <<>> /\ candles' \in Seq(Candle) /\ Len(candles') = Len(candles)
             /\ Later(candles, candles', 1, Len(candles) - 1)

\* Every step is a tick that does one of these.
LEMMA EveryStepTicks ==
    ASSUME Invariant, Next
    PROVE  /\ \E k \in Sights : Tick(candles', k.book)
           /\ Len(candles') <= MaxBars
           /\ AddsABar \/ MovesABar \/ DropsABar \/ candles' = <<>>
<1>1. candles \in Seq(Candle) /\ Len(candles) \in Nat /\ Len(candles) <= MaxBars
  BY DEF Invariant
<1>2. MaxBars \in Nat \ {0} /\ \A k \in Sights : k.candle \in Candle
  BY SignalsConstantsOK
<1>3. CASE NewBar
  <2>1. PICK k \in Sights : Tick(Append(candles, k.candle), k.book)
    BY <1>3 DEF NewBar
  <2>2. candles' = Append(candles, k.candle)
    BY <2>1 DEF Tick
  <2>3. AddsABar
    BY <1>1, <1>2, <2>2, Added DEF AddsABar
  <2>4. Len(candles') <= MaxBars
    BY <1>1, <1>2, <1>3, <2>3 DEF NewBar, AddsABar
  <2> QED BY <2>1, <2>2, <2>3, <2>4
<1>4. CASE Slide
  <2>1. PICK k \in Sights : Tick(Append(Tail(candles), k.candle), k.book)
    BY <1>4 DEF Slide
  <2>2. candles' = Append(Tail(candles), k.candle)
    BY <2>1 DEF Tick
  <2>3. candles # <<>>
    BY <1>1, <1>2, <1>4 DEF Slide
  <2>4. DropsABar
    BY <1>1, <1>2, <2>2, <2>3, Slid DEF DropsABar
  <2>5. Len(candles') <= MaxBars
    BY <1>1, <2>4 DEF DropsABar
  <2> QED BY <2>1, <2>2, <2>4, <2>5
<1>5. CASE BarMoves
  <2>1. PICK k \in Sights : Tick(Front(candles) \o <<k.candle>>, k.book) /\ candles # <<>>
    BY <1>5 DEF BarMoves
  <2>2. candles' = Front(candles) \o <<k.candle>>
    BY <2>1 DEF Tick
  <2>3. MovesABar
    BY <1>1, <1>2, <2>1, <2>2, Moved DEF MovesABar
  <2>4. Len(candles') <= MaxBars
    BY <1>1, <2>3 DEF MovesABar
  <2> QED BY <2>1, <2>2, <2>3, <2>4
<1>6. CASE EmptyAnswer
  <2>1. PICK k \in Sights : Tick(<<>>, k.book)
    BY <1>6 DEF EmptyAnswer
  <2>2. candles' = <<>>
    BY <2>1 DEF Tick
  <2>3. Len(candles') <= MaxBars
    BY <1>2, <2>2
  <2> QED BY <2>1, <2>2, <2>3
<1> QED BY <1>3, <1>4, <1>5, <1>6 DEF Next

\* The invariant is one.
THEOREM InvariantHolds == Spec => []Invariant
<1>1. Init => Invariant
  <2> SUFFICES ASSUME Init PROVE Invariant
    OBVIOUS
  <2>1. candles \in Seq(Candle) /\ Len(candles) <= MaxBars
    <3>1. <<>> \in Seq(Candle) /\ Len(<<>>) = 0
      OBVIOUS
    <3> QED BY <3>1, SignalsConstantsOK DEF Init
  <2>2. \A s \in DOMAIN votes : votes[s] # Panic
    BY NoSideIsPanic DEF Init
  <2> QED BY <2>1, <2>2, NoSideIsPanic DEF Init, Invariant
<1>2. Invariant /\ [Next]_vars => Invariant'
  <2> SUFFICES ASSUME Invariant, [Next]_vars PROVE Invariant'
    OBVIOUS
  <2>1. CASE Next
    <3>1. PICK k \in Sights : Tick(candles', k.book)
      BY <2>1, EveryStepTicks
    <3>2. candles' \in Seq(Candle) /\ Len(candles') <= MaxBars
      <4>1. <<>> \in Seq(Candle)
        OBVIOUS
      <4> QED BY <2>1, <4>1, EveryStepTicks DEF AddsABar, MovesABar, DropsABar
    <3>3. /\ series' = Series(candles') /\ votes' = Votes(candles', series', book')
          /\ up' = (\A s \in DOMAIN votes' : votes'[s] # Panic)
          /\ consensus' \in IF up' THEN Aggregate(votes', book') ELSE {consensus}
      BY <3>1 DEF Tick
    <3>4. consensus' \in Sides
      <4>1. consensus \in Sides
        BY DEF Invariant
      <4>2. Aggregate(votes', book') \subseteq Sides
        BY ConsensusIs
      <4> QED BY <3>3, <4>1, <4>2
    <3> QED BY <3>2, <3>3, <3>4 DEF Invariant
  <2>2. CASE UNCHANGED vars
    BY <2>2 DEF vars, Invariant
  <2> QED BY <2>1, <2>2
<1> QED BY <1>1, <1>2, PTL DEF Spec

\* What the strategies are given is of the same bars: every series ends at the latest
\* candle and is as long as its windows allow; every registered strategy has a vote.
THEOREM TypeCorrect == Spec => []TypeOK
<1>1. Invariant => TypeOK
  <2> SUFFICES ASSUME Invariant PROVE TypeOK
    OBVIOUS
  <2>1. candles \in Seq(Candle) /\ Len(candles) <= MaxBars /\ series = Series(candles)
        /\ up = (\A s \in DOMAIN votes : votes[s] # Panic) /\ consensus \in Sides
    BY DEF Invariant
  <2>2. \A s \in DOMAIN series :
           Len(series[s]) = IF Len(candles) <= Start[s] THEN 0 ELSE Len(candles) - WarmUp[s]
    <3>1. DOMAIN series = Names
      BY <2>1, SeriesAre
    <3> QED BY <2>1, <3>1, SeriesLong DEF IsLong
  <2>3. votes \in [DOMAIN Confidence(book) -> Sides \cup {Panic}]
    <3>1. DOMAIN Confidence(book) = Registered
      BY AllWeighed
    <3>2. CASE votes = Votes(candles, series, book)
      <4>1. votes = [s \in Registered |-> votes[s]]
        <5>1. DOMAIN Votes(candles, series, book) = Registered
          BY VotesAre
        <5>2. Votes(candles, series, book)
                = [s \in DOMAIN Votes(candles, series, book) |-> Votes(candles, series, book)[s]]
          BY DEF Votes
        <5> QED BY <3>2, <5>1, <5>2
      <4>2. \A s \in Registered : votes[s] \in Sides \cup {Panic}
        BY <2>1, <3>2, OnlyWithoutData
      <4> QED BY <3>1, <4>1, <4>2
    <3>3. CASE votes = [s \in DOMAIN Confidence(book) |-> Flat]
      BY <3>3, NoSideIsPanic
    <3> QED BY <3>2, <3>3 DEF Invariant
  <2>4. votes \in [DOMAIN Confidence(book) -> {Long, Short, Flat, Panic}]
    <3>1. Sides \cup {Panic} = {Long, Short, Flat, Panic}
      BY DEF Sides
    <3> QED BY <2>3, <3>1
  <2> QED BY <2>1, <2>2, <2>4 DEF TypeOK, Sides
<1> QED BY <1>1, InvariantHolds, PTL

\* A strategy panics, and takes the bot with it, for want of data only: as long as a candle
\* has traded and none closed at 0, each of the 22 votes is a side, whatever else the
\* prices, the periods and the book are.
THEOREM NoOtherPanic == Spec => []DiesOnlyWithoutData
<1>1. Invariant => DiesOnlyWithoutData
  <2> SUFFICES ASSUME Invariant, ~up PROVE Wanting(candles)
    BY DEF DiesOnlyWithoutData, Wanting
  <2>1. PICK s \in DOMAIN votes : votes[s] = Panic
    BY DEF Invariant
  <2>2. votes = Votes(candles, series, book)
    BY <2>1, NoSideIsPanic DEF Invariant
  <2>3. s \in Registered /\ candles \in Seq(Candle)
    BY <2>1, <2>2, VotesAre DEF Invariant
  <2> QED BY <2>1, <2>2, <2>3, OnlyWithoutData
<1> QED BY <1>1, InvariantHolds, PTL

\* No indicator repaints: whatever the parameters and the market, a value of a closed bar
\* is never changed by a later bar or by another price of the open one.
THEOREM ClosedBarsAreFinal == Spec => NoRepainting
<1> DEFINE Old(s) == IF Front(candles') = candles THEN IsPrefix(series[s], series'[s])
                     ELSE series[s] # <<>> =>
                          IF Front(candles') = Front(candles) THEN Front(series[s]) = Front(series'[s])
                          ELSE s \in Windowed => IsPrefix(Tail(series[s]), series'[s])
           Final == candles' # <<>> =>
                      \A s \in DOMAIN series \ (IF Len(candles') = 2 THEN {"parabolic_sar"} ELSE {}) : Old(s)
<1>1. Invariant /\ Invariant' /\ [Next]_vars => [Final]_vars
  <2> SUFFICES ASSUME Invariant, Invariant', Next, candles' # <<>>,
                      NEW s \in DOMAIN series \ (IF Len(candles') = 2 THEN {"parabolic_sar"} ELSE {})
               PROVE  Old(s)
    OBVIOUS
  <2>1. /\ candles \in Seq(Candle) /\ series = Series(candles)
        /\ candles' \in Seq(Candle) /\ series' = Series(candles')
    BY DEF Invariant
  <2>2. s \in Names /\ (s = "parabolic_sar" => Len(candles') # 2)
    BY <2>1, SeriesAre
  <2>3. CASE AddsABar
    <3>1. IsPrefix(series[s], series'[s])
      BY <2>1, <2>2, <2>3, GoesOn DEF AddsABar
    <3> QED BY <2>3, <3>1 DEF AddsABar
  <2>4. ASSUME candles # <<>>, Len(candles') = Len(candles), Front(candles') = Front(candles)
        PROVE  Old(s)
    <3>1. Sequence(candles) /\ Sequence(candles') /\ Len(candles) # 0
      BY <2>1, <2>4 DEF Sequence
    <3>2. Front(candles') # candles
      BY <2>4, <3>1, FrontIs, SequenceIs
    <3>3. Agree(candles, candles', Len(candles) - 1)
      BY <2>4, <3>1, FrontsAgree
    <3>4. series[s] # <<>> => Front(series[s]) = Front(series'[s])
      BY <2>1, <2>2, <2>4, <3>3, OnlyTheLatest
    <3> QED BY <2>4, <3>2, <3>4
  <2>5. CASE DropsABar
    <3>1. CASE Front(candles') = Front(candles)
      BY <2>4, <2>5, <3>1 DEF DropsABar
    <3>2. CASE Front(candles') # Front(candles)
      <4>1. Sequence(candles) /\ Sequence(candles') /\ Len(candles) # 0 /\ Len(candles') = Len(candles)
        BY <2>1, <2>5 DEF Sequence, DropsABar
      <4>2. Front(candles') # candles
        BY <4>1, FrontIs, SequenceIs
      <4>3. series[s] # <<>> /\ s \in Windowed => IsPrefix(Tail(series[s]), series'[s])
        BY <2>1, <2>5, OldestDrops DEF DropsABar
      <4> QED BY <3>2, <4>2, <4>3
    <3> QED BY <3>1, <3>2
  <2>6. CASE MovesABar
    BY <2>4, <2>6 DEF MovesABar
  <2> QED BY <2>3, <2>5, <2>6, EveryStepTicks
<1>2. NoRepainting <=> [][Final]_vars
  BY DEF NoRepainting
<1> QED BY <1>1, <1>2, InvariantHolds, PTL DEF Spec

\* The latest values of two series, by their definitions.
AveragesAreOfTheirBars ==
    /\ series["sma"] # <<>> =>
         Latest(series["sma"]) = MeanOfLatest(Closes(candles), P.bollinger_bands.period)
    /\ series["keltner_channel"] # <<>> =>
         Latest(series["keltner_channel"]).middle = Latest(EMA(Closes(candles), P.keltner_channel.period))

\* The latest average is the mean of the latest closes, though the code only adds to and
\* takes from a running sum; the Keltner band is about the average of its own bar, though
\* its two series begin at different bars.
THEOREM AveragesMeetTheirDefinition == Spec => []AveragesAreOfTheirBars
<1>1. ASSUME NEW c \in Seq(Candle), SMA(Closes(c), P.bollinger_bands.period) # <<>>
      PROVE  Latest(SMA(Closes(c), P.bollinger_bands.period))
               = MeanOfLatest(Closes(c), P.bollinger_bands.period)
  <2>1. PICK n \in Nat \ {0} : n = P.bollinger_bands.period
    BY PeriodsOK
  <2>2. PICK v, x : v = Closes(c) /\ x = SMA(v, n) /\ x = Viewed("mean", v, n)
    BY <2>1, ClosesAreWhole
  <2>3. PICK l \in Nat : l = Len(v) /\ Sequence(v)
    <3>1. Sequence(v)
      BY <2>2, ClosesAreWhole DEF Sequence
    <3> QED BY <3>1, SequenceIs
  <2>4. /\ Sequence(x) /\ Len(x) = IF l < n THEN 0 ELSE l - n + 1
        /\ ~(l < n) => \A i \in 1..(l - n + 1) : x[i] = View("mean", n, SubSeq(v, i, i + n - 1))
    BY <2>2, <2>3, ViewedLong
  <2>5. ~(l < n)
    BY <1>1, <2>1, <2>2, <2>4, SequenceIs
  <2>6. PICK i \in 1..(l - n + 1) : i = l - n + 1 /\ i + n - 1 = l
    BY <2>3, <2>5
  <2>7. x[i] = View("mean", n, SubSeq(v, i, l)) /\ Latest(x) = x[i]
    BY <2>4, <2>5, <2>6 DEF Latest
  <2>8. View("mean", n, SubSeq(v, i, l)) = Over(Total(SubSeq(v, i, l)), n)
    BY DEF View
  <2> QED BY <2>1, <2>2, <2>3, <2>6, <2>7, <2>8 DEF MeanOfLatest
<1>2. ASSUME NEW c \in Seq(Candle),
             KeltnerChannel(c, P.keltner_channel.period, P.keltner_channel.halves) # <<>>
      PROVE  Latest(KeltnerChannel(c, P.keltner_channel.period, P.keltner_channel.halves)).middle
               = Latest(EMA(Closes(c), P.keltner_channel.period))
  <2>1. PICK n \in Nat \ {0} : n = P.keltner_channel.period
    BY PeriodsOK
  <2>2. PICK h, x : h = P.keltner_channel.halves /\ x = KeltnerChannel(c, n, h)
    OBVIOUS
  <2>3. PICK a, e : a = ATR(c, n) /\ e = EMA(Closes(c), n)
    OBVIOUS
  <2>4. Sequence(c) /\ Sequence(x) /\ Sequence(a) /\ Len(x) = Len(a)
    BY <2>2, <2>3, ClosesAreWhole, KeltnerLong, ATRLong, ZenonT(60)
  <2>5. PICK i \in Nat, k \in Nat : i = Len(a) /\ i \in DOMAIN a /\ k = Len(e)
    <3>1. Len(a) \in Nat /\ DOMAIN a = 1..Len(a) /\ Len(x) # 0
      BY <1>2, <2>1, <2>2, <2>4, SequenceIs
    <3>2. Sequence(Closes(c))
      BY ClosesAreWhole DEF Sequence
    <3>3. Len(e) \in Nat
      BY <2>3, <3>2, EMALong, SequenceIs
    <3> QED BY <2>4, <3>1, <3>3
  <2>6. x[i].middle = e[i + k - i]
    BY <2>2, <2>3, <2>5 DEF KeltnerChannel
  <2>7. i + k - i = k
    BY <2>5
  <2> QED BY <2>1, <2>2, <2>3, <2>4, <2>5, <2>6, <2>7 DEF Latest
<1>3. Invariant => AveragesAreOfTheirBars
  BY <1>1, <1>2, SeriesAre DEF Invariant, AveragesAreOfTheirBars
<1> QED BY <1>3, InvariantHolds, PTL

-----------------------------------------------------------------------------
(* Divisions that come out *)

\* What the averages, the band, the Ichimoku and the SAR divide by.
Periods ==
    {P.rsi_mean_revert.period, P.macd_cross.fast, P.macd_cross.slow, P.macd_cross.signal,
     P.ema_cross.fast, P.ema_cross.slow, P.trend_follow.period, P.supertrend.period,
     P.stoch_rsi.period, P.dmi_adx.period, P.hull_ma.period, P.hull_ma.half, P.hull_ma.root,
     P.keltner_channel.period}
Divisors == {2, P.parabolic_sar.unit} \cup Periods \cup {n + 1 : n \in Periods}

\* The longest chain of divisions: an average of averages, each as long as the answer.
Depth == 2 * MaxBars + 2

\* What is a multiple of D[k] can be divided by each of them, and is a multiple of D[k-1] then.
IsLadder(D) ==
    /\ D \in [0..Depth -> Nat \ {0}] /\ D[Depth] = Scale
    /\ \A k \in 1..Depth, n \in Divisors : \E r \in Nat : D[k] = r * (n * D[k - 1])

\* Scale is such that what the code divides comes out, as Over asks.
ExactScale == Divisors \subseteq Nat \ {0} /\ \E D : IsLadder(D)

Rung(k) == (CHOOSE D : IsLadder(D))[k]
Grid(k) == {q * Rung(k) : q \in Int}

\* A quotient of natural numbers is not negative.
LEMMA NotNegative ==
    ASSUME NEW n \in Nat \ {0}, NEW q \in Int, q * n \in Nat
    PROVE  q \in Nat
OBVIOUS

\* Multiplying keeps the order.
LEMMA Monotone ==
    ASSUME NEW n \in Nat, NEW x \in Int, NEW y \in Int, x <= y
    PROVE  n * x <= n * y
OBVIOUS

\* The higher and the lower of two numbers.
LEMMA Extremes ==
    ASSUME NEW x \in Int, NEW y \in Int
    PROVE  /\ Higher(x, y) \in Int /\ Higher(x, y) >= x /\ Higher(x, y) >= y
           /\ Lower(x, y) \in Int /\ Lower(x, y) <= x /\ Lower(x, y) <= y
           /\ Higher(x, y) \in {x, y} /\ Lower(x, y) \in {x, y}
BY DEF Higher, Lower

\* What is known of the rungs.
LEMMA RungsAre ==
    ASSUME ExactScale
    PROVE  /\ Depth \in Nat /\ Divisors \subseteq Nat \ {0}
           /\ \A k \in 0..Depth : Rung(k) \in Nat \ {0}
           /\ Rung(Depth) = Scale
           /\ \A k \in 1..Depth, n \in Divisors : \E r \in Nat : Rung(k) = r * (n * Rung(k - 1))
<1>1. PICK D : D = CHOOSE E : IsLadder(E)
  OBVIOUS
<1>2. IsLadder(D)
  BY <1>1 DEF ExactScale
<1>3. Depth \in Nat
  BY SignalsConstantsOK DEF Depth
<1>4. \A k : Rung(k) = D[k]
  BY <1>1 DEF Rung
<1> QED BY <1>2, <1>3, <1>4 DEF IsLadder, ExactScale

\* There is one quotient.
LEMMA OverIs ==
    ASSUME NEW n \in Nat \ {0}, NEW q \in Int, NEW x, q * n = x
    PROVE  Over(x, n) = q
<1>1. x \div n = q
  BY Z3
<1> QED BY <1>1 DEF Over

\* The multiples of a rung are closed under what the averages do but dividing.
LEMMA GridIs ==
    ASSUME ExactScale, NEW k \in 0..Depth
    PROVE  /\ Grid(k) \subseteq Int /\ 0 \in Grid(k)
           /\ \A x \in Grid(k), y \in Grid(k) : x + y \in Grid(k) /\ x - y \in Grid(k)
           /\ \A x \in Grid(k), m \in Int : m * x \in Grid(k)
<1>1. PICK d \in Nat \ {0} : d = Rung(k)
  BY RungsAre
<1>2. Grid(k) = {q * d : q \in Int}
  BY <1>1 DEF Grid
<1>3. Grid(k) \subseteq Int /\ 0 \in Grid(k)
  <2>1. 0 = 0 * d /\ 0 \in Int
    OBVIOUS
  <2> QED BY <1>2, <2>1
<1>4. ASSUME NEW x \in Grid(k), NEW y \in Grid(k)
      PROVE  x + y \in Grid(k) /\ x - y \in Grid(k)
  <2>1. PICK a \in Int : x = a * d
    BY <1>2
  <2>2. PICK b \in Int : y = b * d
    BY <1>2
  <2>3. x + y = (a + b) * d /\ x - y = (a - b) * d /\ a + b \in Int /\ a - b \in Int
    BY <2>1, <2>2
  <2> QED BY <1>2, <2>3
<1>5. ASSUME NEW x \in Grid(k), NEW m \in Int PROVE m * x \in Grid(k)
  <2>1. PICK a \in Int : x = a * d
    BY <1>2
  <2>2. m * x = (m * a) * d /\ m * a \in Int
    BY <2>1
  <2> QED BY <1>2, <2>2
<1> QED BY <1>3, <1>4, <1>5

\* Products in another order.
LEMMA Regrouped ==
    ASSUME NEW q \in Int, NEW r \in Int, NEW n \in Int, NEW e \in Int
    PROVE  ((q * r) * e) * n = q * (r * (n * e))
OBVIOUS

\* What is divided comes out, one rung below.
LEMMA ComesOut ==
    ASSUME ExactScale, NEW k \in 1..Depth, NEW n \in Divisors, NEW x \in Grid(k)
    PROVE  Over(x, n) \in Grid(k - 1) /\ Over(x, n) \in Int /\ Over(x, n) * n = x
<1>1. k \in 0..Depth /\ k - 1 \in 0..Depth /\ n \in Nat \ {0}
  BY RungsAre
<1>2. PICK d \in Nat \ {0}, e \in Nat \ {0} : d = Rung(k) /\ e = Rung(k - 1)
  BY <1>1, RungsAre
<1>3. PICK r \in Nat : d = r * (n * e)
  BY <1>2, RungsAre
<1>4. PICK q \in Int : x = q * d
  BY <1>2 DEF Grid
<1>5. PICK y \in Int : y = (q * r) * e
  BY <1>1
<1>6. y * n = x
  BY <1>1, <1>2, <1>3, <1>4, <1>5, Regrouped
<1>7. y \in Grid(k - 1)
  <2>1. q * r \in Int
    BY <1>3
  <2> QED BY <1>2, <1>5, <2>1 DEF Grid
<1>8. Over(x, n) = y
  BY <1>1, <1>6, OverIs
<1> QED BY <1>5, <1>6, <1>7, <1>8

\* A rung is a multiple of those below.
LEMMA GridBelow ==
    ASSUME ExactScale, NEW k \in 0..Depth, NEW j \in 0..k
    PROVE  Grid(k) \subseteq Grid(j)
<1> DEFINE T == {i \in Nat : i <= k => Grid(k) \subseteq Grid(k - i)}
<1>1. 0 \in T
  OBVIOUS
<1>2. ASSUME NEW i \in Nat, i \in T PROVE i + 1 \in T
  <2> SUFFICES ASSUME i + 1 <= k PROVE Grid(k) \subseteq Grid(k - (i + 1))
    OBVIOUS
  <2>1. PICK l \in 1..Depth : l = k - i /\ l - 1 = k - (i + 1) /\ l \in 0..Depth /\ l - 1 \in 0..Depth
    <3>1. Depth \in Nat
      BY RungsAre
    <3>2. k - i \in 1..Depth /\ (k - i) - 1 = k - (i + 1) /\ k - i \in 0..Depth /\ (k - i) - 1 \in 0..Depth
      BY <3>1
    <3> QED BY <3>2
  <2>2. Grid(l) \subseteq Grid(l - 1)
    <3> SUFFICES ASSUME NEW x \in Grid(l) PROVE x \in Grid(l - 1)
      OBVIOUS
    <3>1. 2 \in Divisors
      BY DEF Divisors
    <3>2. PICK y \in Grid(l - 1) : y \in Int /\ y * 2 = x
      BY <3>1, <2>1, ComesOut
    <3>3. x = 2 * y
      BY <3>2
    <3> QED BY <2>1, <3>2, <3>3, GridIs
  <2> QED BY <1>2, <2>1, <2>2
<1>3. k - j \in Nat /\ k - (k - j) = j
  OBVIOUS
<1>4. k - j \in T
  <2> HIDE DEF T
  <2> QED BY <1>1, <1>2, <1>3, NatSetInduction
<1> QED BY <1>3, <1>4

\* Prices are multiples of the highest rung.
LEMMA PricesOnGrid ==
    ASSUME ExactScale, NEW m \in Int
    PROVE  Scale * m \in Grid(Depth) /\ Depth \in 0..Depth
<1>1. Depth \in Nat /\ Rung(Depth) = Scale /\ Scale \in Nat
  BY RungsAre, ScaleAssumption
<1>2. Scale * m = m * Rung(Depth)
  BY <1>1
<1> QED BY <1>1, <1>2 DEF Grid

\* Sums stay where their summands are.
LEMMA TotalIn ==
    ASSUME NEW S, 0 \in S, \A x \in S, y \in S : x + y \in S,
           NEW v, Sequence(v), \A i \in 1..Len(v) : v[i] \in S
    PROVE  Total(v) \in S
<1>1. PICK n \in Nat : n = Len(v) /\ DOMAIN v = 1..n
  BY SequenceIs
<1>2. PICK g : FoldOf("sum", 0, v, 0) = g[1..n] /\ StepByStep("sum", 0, v, 0, n, g)
  BY <1>1, FromTheLeft
<1>3. /\ g[1..0] = 0
      /\ \A i \in Nat : i + 1 <= n => g[1..(i + 1)] = g[1..i] + v[i + 1]
  BY <1>2 DEF StepByStep, Combine, Gathered, Plain
<1> DEFINE T == {i \in Nat : i <= n => g[1..i] \in S}
<1>4. 0 \in T
  BY <1>3
<1>5. ASSUME NEW i \in Nat, i \in T PROVE i + 1 \in T
  <2> SUFFICES ASSUME i + 1 <= n PROVE g[1..(i + 1)] \in S
    OBVIOUS
  <2>1. g[1..i] \in S /\ v[i + 1] \in S
    <3>1. i <= n /\ i + 1 \in 1..Len(v)
      BY <1>1
    <3> QED BY <1>5, <3>1
  <2> QED BY <1>3, <2>1
<1>6. n \in T
  <2> HIDE DEF T
  <2> QED BY <1>4, <1>5, NatSetInduction
<1> QED BY <1>2, <1>6, TotalIs

\* x is a list of multiples of rungs, one rung lower with each.
OnLadder(x, k) == Sequence(x) /\ \A i \in 1..Len(x) : x[i] \in Grid(k - i)
OnGrid(v, k) == Sequence(v) /\ \A i \in 1..Len(v) : v[i] \in Grid(k)

\* The EMA by its equations: nothing is left over of what it divides.
EMAOf(v, n, e) ==
    /\ Sequence(e) /\ Len(e) = Len(v) - n + 1
    /\ e[1] * n = Total(SubSeq(v, 1, n))
    /\ \A i \in 1..(Len(v) - n) : e[i + 1] * (n + 1) = 2 * v[n + i] + (n - 1) * e[i]

\* An EMA of multiples of a rung is one of multiples of the rung below, and its divisions come out.
LEMMA EMAOnGrid ==
    ASSUME ExactScale, NEW n \in Periods, NEW k \in 0..Depth, NEW v, OnGrid(v, k),
           n <= Len(v), Len(v) <= k
    PROVE  OnLadder(EMA(v, n), k) /\ EMAOf(v, n, EMA(v, n))
<1>1. Depth \in Nat /\ n \in Nat \ {0} /\ n \in Divisors /\ n + 1 \in Divisors
  BY RungsAre DEF Divisors
<1>2. PICK l \in Nat : l = Len(v) /\ Sequence(v) /\ \A i \in 1..l : v[i] \in Grid(k)
  BY SequenceIs DEF OnGrid
<1>3. PICK b : b = Total(SubSeq(v, 1, n))
  OBVIOUS
<1>4. b \in Grid(k)
  <2>1. PICK w : w = SubSeq(v, 1, n)
    OBVIOUS
  <2>2. Sequence(w) /\ Len(w) = n /\ \A i \in 1..n : w[i] = v[i]
    <3>1. 1 \in Nat \ {0} /\ n \in Nat /\ n <= Len(v) /\ 1 <= n + 1 /\ n - 1 + 1 = n
          /\ \A i \in 1..n : 1 + i - 1 = i
      BY <1>1
    <3>2. /\ Sequence(SubSeq(v, 1, n)) /\ Len(SubSeq(v, 1, n)) = n - 1 + 1
          /\ \A j \in 1..(n - 1 + 1) : SubSeq(v, 1, n)[j] = v[1 + j - 1]
      BY <1>2, <3>1, Part
    <3> QED BY <2>1, <3>1, <3>2
  <2>3. \A i \in 1..Len(w) : w[i] \in Grid(k)
    <3>1. 1..n \subseteq 1..l
      BY <1>1, <1>2
    <3> QED BY <1>2, <2>2, <3>1
  <2> QED BY <1>3, <2>1, <2>2, <2>3, GridIs, TotalIn
<1>5. PICK a, e : a = Over(b, n) /\ e = EMA(v, n)
  OBVIOUS
<1>6. 1 <= k /\ k \in 1..Depth /\ l <= k /\ n <= l /\ l - n \in Nat
  BY <1>1, <1>2
<1>7. a \in Grid(k - 1) /\ a * n = b
  BY <1>1, <1>4, <1>5, <1>6, ComesOut
<1>8. PICK q : q = Rest(v, n) /\ Sequence(q) /\ Len(q) = l - n /\ \A i \in 1..(l - n) : q[i] = v[n + i]
  <2>1. /\ Sequence(Rest(v, n)) /\ Len(Rest(v, n)) = l - n
        /\ \A i \in 1..(l - n) : Rest(v, n)[i] = v[n + i]
    BY <1>1, <1>2, <1>6, RestIs
  <2> QED BY <2>1
<1>9. Grown("ema", n, q, a, e)
  <2>1. ~(Len(v) < n) /\ "ema" \notin Plain
    BY <1>1, <1>2, <1>6 DEF Plain
  <2>2. e = Running("ema", n, v, a)
    BY <1>3, <1>5, <2>1, EMAIs
  <2> QED BY <1>1, <1>2, <1>6, <1>8, <2>1, <2>2, RunningLong
<1>10. /\ Sequence(e) /\ Len(e) = l - n + 1 /\ e[1] = a
       /\ \A i \in 1..(l - n) : e[i + 1] = Over(2 * v[n + i] + (n - 1) * e[i], n + 1)
  BY <1>8, <1>9 DEF Grown, Stepped
<1>11. ASSUME NEW i \in 1..(l - n), e[i] \in Grid(k - i)
       PROVE  e[i + 1] \in Grid(k - (i + 1)) /\ e[i + 1] * (n + 1) = 2 * v[n + i] + (n - 1) * e[i]
  <2>1. PICK j \in 1..Depth : j = k - i /\ j \in 0..Depth /\ j \in 0..k
    BY <1>1, <1>2, <1>6
  <2>2. n + i \in 1..l /\ 2 \in Int /\ n - 1 \in Int
    BY <1>1, <1>2
  <2>3. v[n + i] \in Grid(j)
    BY <1>2, <2>1, <2>2, GridBelow
  <2>4. PICK x \in Grid(j) : x = 2 * v[n + i] + (n - 1) * e[i]
    <3>1. 2 * v[n + i] \in Grid(j) /\ (n - 1) * e[i] \in Grid(j)
      BY <1>11, <2>1, <2>2, <2>3, GridIs
    <3> QED BY <2>1, <3>1, GridIs
  <2>5. Over(x, n + 1) \in Grid(j - 1) /\ Over(x, n + 1) * (n + 1) = x
    BY <1>1, <2>1, ComesOut
  <2>6. j - 1 = k - (i + 1)
    BY <2>1
  <2> QED BY <1>10, <2>4, <2>5, <2>6
<1> DEFINE T == {i \in Nat : i <= l - n => e[i + 1] \in Grid(k - (i + 1))}
<1>12. 0 \in T
  BY <1>7, <1>10
<1>13. ASSUME NEW i \in Nat, i \in T PROVE i + 1 \in T
  <2> SUFFICES ASSUME i + 1 <= l - n PROVE e[i + 1 + 1] \in Grid(k - (i + 1 + 1))
    OBVIOUS
  <2>1. i + 1 \in 1..(l - n) /\ i <= l - n
    BY <1>6
  <2>2. e[i + 1] \in Grid(k - (i + 1))
    BY <1>13, <2>1
  <2>3. PICK j \in 1..(l - n) : j = i + 1
    BY <2>1
  <2> QED BY <1>11, <2>2, <2>3
<1>14. ASSUME NEW i \in 1..(l - n + 1) PROVE e[i] \in Grid(k - i)
  <2>1. PICK j \in Nat : i = j + 1 /\ j <= l - n
    <3>1. i - 1 \in Nat /\ i = i - 1 + 1 /\ i - 1 <= l - n
      BY <1>6
    <3> QED BY <3>1
  <2>2. j \in T
    <3> HIDE DEF T
    <3> QED BY <1>12, <1>13, NatSetInduction
  <2> QED BY <2>1, <2>2
<1>15. OnLadder(e, k)
  BY <1>10, <1>14 DEF OnLadder
<1>16. EMAOf(v, n, e)
  <2>1. \A i \in 1..(l - n) : i \in 1..(l - n + 1)
    BY <1>6
  <2>2. \A i \in 1..(l - n) : e[i + 1] * (n + 1) = 2 * v[n + i] + (n - 1) * e[i]
    BY <1>11, <1>14, <2>1
  <2> QED BY <1>2, <1>3, <1>7, <1>10, <2>2 DEF EMAOf
<1> QED BY <1>5, <1>15, <1>16

-----------------------------------------------------------------------------
(* Proper candles *)

\* The close of a candle is within its range.
Proper(c) ==
    /\ c \in Seq(Candle) /\ Len(c) <= MaxBars
    /\ \A i \in 1..Len(c) : c[i].low <= c[i].close /\ c[i].close <= c[i].high

\* ... bar by bar.
LEMMA ProperAre ==
    ASSUME NEW c, Proper(c)
    PROVE  /\ Sequence(c) /\ Len(c) \in Nat /\ Len(c) <= MaxBars
           /\ \A i \in 1..Len(c) :
                 /\ c[i].high \in Nat /\ c[i].low \in Nat /\ c[i].close \in Nat /\ c[i].open \in Nat
                 /\ c[i].low <= c[i].close /\ c[i].close <= c[i].high
<1>1. Sequence(c)
  BY DEF Proper, Sequence
<1>2. ASSUME NEW i \in 1..Len(c)
      PROVE  c[i].high \in Nat /\ c[i].low \in Nat /\ c[i].close \in Nat /\ c[i].open \in Nat
  <2>1. c[i] \in Candle
    BY <1>2 DEF Proper
  <2> QED BY <2>1 DEF Candle
<1>3. Len(c) \in Nat
  BY <1>1, SequenceIs
<1> QED BY <1>1, <1>2, <1>3 DEF Proper

\* The largest of three ranges.
LEMMA RangeIs ==
    ASSUME NEW h \in Nat, NEW l \in Nat, NEW p \in Nat, l <= h
    PROVE  /\ Higher(h - l, Higher(h - p, p - l)) \in Nat
           /\ Higher(h - l, Higher(h - p, p - l)) >= h - l
<1>1. h - l \in Nat /\ h - p \in Int /\ p - l \in Int
  OBVIOUS
<1>2. PICK x \in Nat : x = h - l
  BY <1>1
<1>3. PICK y \in Int : y = Higher(h - p, p - l)
  BY <1>1, Extremes
<1>4. Higher(x, y) \in Int /\ Higher(x, y) >= x
  BY Extremes
<1> QED BY <1>2, <1>3, <1>4

\* A true range is at least the range of its candle.
LEMMA TrueRangesAre ==
    ASSUME NEW c, Proper(c), 1 <= Len(c)
    PROVE  /\ Sequence(TrueRanges(c)) /\ Len(TrueRanges(c)) = Len(c) - 1
           /\ \A i \in 1..(Len(c) - 1) :
                 /\ TrueRanges(c)[i] = Scale * TrueRange(c, i + 1) /\ TrueRange(c, i + 1) \in Nat
                 /\ TrueRange(c, i + 1) >= c[i + 1].high - c[i + 1].low
<1>1. Sequence(c) /\ Len(c) \in Nat
  BY ProperAre
<1>2. ASSUME NEW i \in 1..(Len(c) - 1)
      PROVE  /\ TrueRanges(c)[i] = Scale * TrueRange(c, i + 1) /\ TrueRange(c, i + 1) \in Nat
             /\ TrueRange(c, i + 1) >= c[i + 1].high - c[i + 1].low
  <2>1. i + 1 \in 1..Len(c) /\ i \in 1..Len(c) /\ i + 1 - 1 = i
    BY <1>1
  <2>2. PICK j \in 1..Len(c) : j = i + 1
    BY <2>1
  <2>3. PICK h \in Nat, l \in Nat, p \in Nat :
           h = c[j].high /\ l = c[j].low /\ p = c[i].close /\ l <= h
    <3>1. c[i].close \in Nat
      BY <2>1, ProperAre
    <3>2. /\ c[j].high \in Nat /\ c[j].low \in Nat /\ c[j].close \in Nat
          /\ c[j].low <= c[j].close /\ c[j].close <= c[j].high
      BY <2>2, ProperAre
    <3> QED BY <3>1, <3>2
  <2>4. PICK t : t = TrueRange(c, i + 1)
    OBVIOUS
  <2>5. t = Higher(h - l, Higher(h - p, p - l))
    BY <2>1, <2>2, <2>3, <2>4 DEF TrueRange
  <2>6. t \in Nat /\ t >= h - l
    BY <2>3, <2>5, RangeIs
  <2>7. TrueRanges(c)[i] = Scale * t
    BY <2>4 DEF TrueRanges
  <2> QED BY <2>2, <2>3, <2>4, <2>6, <2>7
<1> QED BY <1>1, <1>2, PairsLong

\* The ATR is an EMA of ranges: it is not negative, and has its share of the latest range.
LEMMA ATROnGrid ==
    ASSUME ExactScale, NEW c, Proper(c), NEW n \in Periods, n < Len(c)
    PROVE  /\ Sequence(ATR(c, n)) /\ Len(ATR(c, n)) = Len(c) - n
           /\ OnLadder(ATR(c, n), Depth) /\ EMAOf(TrueRanges(c), n, ATR(c, n))
           /\ \A i \in 1..(Len(c) - n) : ATR(c, n)[i] \in Nat
           /\ \A i \in 1..(Len(c) - n - 1) :
                 (n + 1) * ATR(c, n)[i + 1] >= 2 * (Scale * (c[n + i + 1].high - c[n + i + 1].low))
<1>1. Depth \in Nat /\ n \in Nat \ {0} /\ Scale \in Nat /\ MaxBars \in Nat /\ Len(c) \in Nat /\ Len(c) <= MaxBars
  BY RungsAre, ScaleAssumption, SignalsConstantsOK, ProperAre DEF Divisors
<1>2. PICK m \in Nat : m = Len(c) - 1 /\ n <= m /\ m <= Depth /\ 1 <= Len(c)
  <2>1. Len(c) - 1 \in Nat /\ n <= Len(c) - 1 /\ Len(c) - 1 <= Depth /\ 1 <= Len(c)
    BY <1>1 DEF Depth
  <2> QED BY <2>1
<1>3. PICK v : v = TrueRanges(c)
  OBVIOUS
<1>4. /\ Sequence(v) /\ Len(v) = m
      /\ \A i \in 1..m : /\ v[i] = Scale * TrueRange(c, i + 1) /\ TrueRange(c, i + 1) \in Nat
                         /\ TrueRange(c, i + 1) >= c[i + 1].high - c[i + 1].low
  BY <1>2, <1>3, TrueRangesAre
<1>5. OnGrid(v, Depth)
  BY <1>4, PricesOnGrid DEF OnGrid
<1>6. PICK a : a = ATR(c, n)
  OBVIOUS
<1>7. a = EMA(v, n)
  <2>1. ~(Len(c) < n + 1)
    BY <1>1
  <2> QED BY <1>3, <1>6, <2>1 DEF ATR
<1>8. OnLadder(a, Depth) /\ EMAOf(v, n, a)
  BY <1>1, <1>2, <1>4, <1>5, <1>7, EMAOnGrid
<1>9. /\ Sequence(a) /\ Len(a) = m - n + 1
      /\ a[1] * n = Total(SubSeq(v, 1, n))
      /\ \A i \in 1..(m - n) : a[i + 1] * (n + 1) = 2 * v[n + i] + (n - 1) * a[i]
  BY <1>4, <1>8 DEF EMAOf
<1>10. ASSUME NEW i \in 1..(m - n + 1) PROVE a[i] \in Int
  <2>1. Depth - i \in 0..Depth
    BY <1>1, <1>2
  <2>2. Grid(Depth - i) \subseteq Int
    BY <2>1, GridIs
  <2> QED BY <1>8, <1>9, <2>2 DEF OnLadder
<1>11. \A i \in 1..m : v[i] \in Nat
  BY <1>1, <1>4
<1>12. 1 \in 1..(m - n + 1)
  BY <1>1, <1>2
<1>13. a[1] \in Nat
  <2>1. Total(SubSeq(v, 1, n)) \in Nat
    <3>1. 1 \in Nat \ {0} /\ n \in Nat /\ n <= Len(v) /\ 1 <= n + 1 /\ n - 1 + 1 = n
          /\ \A i \in 1..n : 1 + i - 1 = i /\ i \in 1..m
      BY <1>1, <1>2, <1>4
    <3>2. /\ Sequence(SubSeq(v, 1, n)) /\ Len(SubSeq(v, 1, n)) = n - 1 + 1
          /\ \A j \in 1..(n - 1 + 1) : SubSeq(v, 1, n)[j] = v[1 + j - 1]
      BY <1>4, <3>1, Part
    <3>3. \A j \in 1..Len(SubSeq(v, 1, n)) : SubSeq(v, 1, n)[j] \in Nat
      BY <1>11, <3>1, <3>2
    <3>4. 0 \in Nat /\ \A x \in Nat, y \in Nat : x + y \in Nat
      OBVIOUS
    <3> QED BY <3>2, <3>3, <3>4, TotalIn
  <2>2. a[1] \in Int
    BY <1>10, <1>12
  <2> QED BY <1>1, <1>9, <2>1, <2>2, NotNegative
<1>14. ASSUME NEW i \in 1..(m - n), a[i] \in Nat
       PROVE  a[i + 1] \in Nat /\ (n + 1) * a[i + 1] >= 2 * v[n + i]
  <2>1. i + 1 \in 1..(m - n + 1) /\ n + i \in 1..m
    BY <1>1, <1>2
  <2>2. PICK b \in Nat, w \in Nat : b = (n - 1) * a[i] /\ w = v[n + i]
    <3>1. n - 1 \in Nat
      BY <1>1
    <3> QED BY <1>11, <1>14, <2>1, <3>1
  <2>3. PICK y \in Int : y = a[i + 1]
    BY <1>10, <2>1
  <2>4. y * (n + 1) = 2 * w + b
    BY <1>9, <2>2, <2>3
  <2>5. y \in Nat
    BY <1>1, <2>4, NotNegative
  <2>6. (n + 1) * y >= 2 * w
    BY <1>1, <2>4
  <2> QED BY <2>2, <2>3, <2>5, <2>6
<1> DEFINE T == {i \in Nat : i <= m - n => a[i + 1] \in Nat}
<1>15. 0 \in T
  BY <1>13
<1>16. ASSUME NEW i \in Nat, i \in T PROVE i + 1 \in T
  <2> SUFFICES ASSUME i + 1 <= m - n PROVE a[i + 1 + 1] \in Nat
    OBVIOUS
  <2>1. PICK j \in 1..(m - n) : j = i + 1
    BY <1>1, <1>2
  <2>2. a[j] \in Nat
    BY <1>1, <1>2, <1>16, <2>1
  <2> QED BY <1>14, <2>1, <2>2
<1>17. ASSUME NEW i \in 1..(m - n + 1) PROVE a[i] \in Nat
  <2>1. PICK j \in Nat : i = j + 1 /\ j <= m - n
    <3>1. i - 1 \in Nat /\ i = i - 1 + 1 /\ i - 1 <= m - n
      BY <1>1, <1>2
    <3> QED BY <3>1
  <2>2. j \in T
    <3> HIDE DEF T
    <3> QED BY <1>15, <1>16, NatSetInduction
  <2> QED BY <2>1, <2>2
<1>18. ASSUME NEW i \in 1..(m - n)
       PROVE  (n + 1) * a[i + 1] >= 2 * (Scale * (c[n + i + 1].high - c[n + i + 1].low))
  <2>1. PICK j \in 1..m : j = n + i /\ j + 1 = n + i + 1 /\ j + 1 \in 1..Len(c) /\ i \in 1..(m - n + 1)
    BY <1>1, <1>2
  <2>2. PICK h \in Int, t \in Nat : h = c[j + 1].high - c[j + 1].low /\ t = TrueRange(c, j + 1)
                                     /\ t >= h /\ v[j] = Scale * t
    <3>1. c[j + 1].high - c[j + 1].low \in Int
      BY <2>1, ProperAre
    <3> QED BY <1>4, <3>1
  <2>3. Scale * t >= Scale * h
    BY <1>1, <2>2, Monotone
  <2>4. (n + 1) * a[i + 1] >= 2 * v[j] /\ a[i + 1] \in Nat
    BY <1>14, <1>17, <2>1
  <2>5. (n + 1) * a[i + 1] >= 2 * (Scale * h)
    <3>1. PICK x \in Int, y \in Int, z \in Int : x = (n + 1) * a[i + 1] /\ y = Scale * t /\ z = Scale * h
      <4>1. (n + 1) * a[i + 1] \in Int
        BY <1>1, <2>4
      <4>2. Scale * t \in Int /\ Scale * h \in Int
        BY <1>1, <2>2
      <4> QED BY <4>1, <4>2
    <3>2. x >= 2 * y /\ y >= z
      BY <2>2, <2>3, <2>4, <3>1
    <3> QED BY <3>1, <3>2
  <2> QED BY <2>1, <2>2, <2>5
<1>19. m - n + 1 = Len(c) - n /\ m - n = Len(c) - n - 1
  BY <1>1, <1>2
<1> QED BY <1>3, <1>6, <1>8, <1>9, <1>17, <1>18, <1>19

-----------------------------------------------------------------------------
(* Trailing stops *)

\* The state of the SAR: the stop has not passed the extreme of its trend.
IsSAR(p) ==
    /\ p.long \in BOOLEAN /\ p.sar \in Int /\ p.ep \in Int /\ p.af \in Nat
    /\ p.long => p.sar <= p.ep
    /\ ~p.long => p.sar >= p.ep

\* A stop is outside of the bar that its trend goes through.
Outside(p, bar) ==
    IF p.long THEN p.sar <= Scale * bar.low ELSE p.sar >= Scale * bar.high

\* The first SAR is the far end of the first bar.
LEMMA SARBegins ==
    ASSUME NEW a, NEW b, NEW par, par.step \in Nat, a.low \in Nat, a.high \in Nat, a.low <= a.high,
           a.close \in Nat, b.close \in Nat
    PROVE  /\ IsSAR(SARStart(a, b, par)) /\ Outside(SARStart(a, b, par), a)
           /\ SARStart(a, b, par).sar \in {Scale * a.low, Scale * a.high}
           /\ SARStart(a, b, par).ep \in {Scale * a.low, Scale * a.high}
<1>1. PICK l \in Int, h \in Int : l = Scale * a.low /\ h = Scale * a.high /\ l <= h
  <2>1. Scale \in Nat
    BY ScaleAssumption
  <2>2. Scale * a.low <= Scale * a.high
    BY <2>1, Monotone
  <2> QED BY <2>1, <2>2
<1>2. PICK p : p = SARStart(a, b, par)
  OBVIOUS
<1>3. /\ p.long = (b.close > a.close) /\ p.af = par.step
      /\ p.sar = IF p.long THEN l ELSE h
      /\ p.ep = IF p.long THEN h ELSE l
  BY <1>1, <1>2 DEF SARStart
<1>4. p.long \in BOOLEAN
  BY <1>3
<1>5. IsSAR(p)
  BY <1>1, <1>3, <1>4 DEF IsSAR
<1>6. Outside(p, a)
  BY <1>1, <1>3, <1>4 DEF Outside
<1> QED BY <1>1, <1>2, <1>3, <1>4, <1>5, <1>6

\* A step of the SAR keeps it so, and the stop only follows the price.
LEMMA SARGoesOn ==
    ASSUME NEW p, IsSAR(p), NEW c, c.low \in Nat, c.high \in Nat, c.low <= c.high,
           NEW par, par.step \in Nat, par.max \in Nat, par.unit \in Nat \ {0},
           NEW r \in Int, r * par.unit = p.af * (p.ep - p.sar), r = Over(p.af * (p.ep - p.sar), par.unit)
    PROVE  /\ IsSAR(SARStep(p, c, par)) /\ Outside(SARStep(p, c, par), c)
           /\ SARStep(p, c, par).long = p.long =>
                 IF p.long THEN p.sar <= SARStep(p, c, par).sar ELSE p.sar >= SARStep(p, c, par).sar
           /\ SARStep(p, c, par).sar \in {p.sar + r, p.ep, Scale * c.low, Scale * c.high}
           /\ SARStep(p, c, par).ep \in {p.ep, Scale * c.low, Scale * c.high}
<1>1. PICK l \in Int, h \in Int : l = Scale * c.low /\ h = Scale * c.high /\ l <= h
  <2>1. Scale \in Nat
    BY ScaleAssumption
  <2>2. Scale * c.low <= Scale * c.high
    BY <2>1, Monotone
  <2> QED BY <2>1, <2>2
<1>2. PICK long \in BOOLEAN, sar \in Int, ep \in Int, af \in Nat :
         long = p.long /\ sar = p.sar /\ ep = p.ep /\ af = p.af
  BY DEF IsSAR
<1>3. IF long THEN sar <= ep ELSE sar >= ep
  BY <1>2 DEF IsSAR
<1>4. IF long THEN r >= 0 ELSE r <= 0
  <2>1. PICK u \in Nat \ {0} : u = par.unit /\ r * u = af * (ep - sar)
    BY <1>2
  <2>2. CASE long
    <3>1. af * (ep - sar) \in Nat
      BY <1>3, <2>2
    <3> QED BY <2>1, <2>2, <3>1, NotNegative
  <2>3. CASE ~long
    <3>1. af * (sar - ep) \in Nat
      BY <1>3, <2>3
    <3>2. (-r) * u = af * (sar - ep) /\ -r \in Int
      BY <2>1
    <3>3. -r \in Nat
      BY <2>1, <3>1, <3>2, NotNegative
    <3> QED BY <2>3, <3>3
  <2> QED BY <2>2, <2>3
<1>5. PICK s \in Int : s = sar + r
  OBVIOUS
<1>6. PICK e \in Int : e = IF long THEN Higher(ep, h) ELSE Lower(ep, l)
  BY DEF Higher, Lower
<1>7. PICK hit : hit = IF long THEN l < s ELSE h > s
  OBVIOUS
<1>8. PICK q : q = SARStep(p, c, par)
  OBVIOUS
<1>9. q = IF hit THEN [sar |-> e, long |-> ~long, af |-> par.step, ep |-> IF long THEN l ELSE h]
          ELSE [sar |-> s, long |-> long, ep |-> e,
                af |-> IF e # ep THEN Lower(af + par.step, par.max) ELSE af]
  BY <1>1, <1>2, <1>5, <1>6, <1>7, <1>8 DEF SARStep
<1>10. /\ q.long = (IF hit THEN ~long ELSE long)
       /\ q.sar = (IF hit THEN e ELSE s)
       /\ q.ep = (IF hit THEN IF long THEN l ELSE h ELSE e)
       /\ q.af = (IF hit THEN par.step ELSE IF e # ep THEN Lower(af + par.step, par.max) ELSE af)
  BY <1>9
<1>11. q.af \in Nat
  BY <1>10 DEF Lower
<1>12. e \in {ep, l, h} /\ IF long THEN e >= ep /\ e >= h ELSE e <= ep /\ e <= l
  BY <1>6 DEF Higher, Lower
<1>13. IsSAR(q) /\ IF q.long THEN q.sar <= l ELSE q.sar >= h
  <2>1. CASE hit /\ long
    <3>1. q.long = FALSE /\ q.sar = e /\ q.ep = l /\ l < s
      BY ONLY <1>7, <1>10, <2>1
    <3>2. e >= h /\ e >= l
      BY ONLY <1>1, <1>12, <2>1
    <3> QED BY ONLY <1>11, <3>1, <3>2 DEF IsSAR
  <2>2. CASE hit /\ ~long
    <3>1. q.long = TRUE /\ q.sar = e /\ q.ep = h /\ h > s
      BY ONLY <1>7, <1>10, <2>2
    <3>2. e <= l /\ e <= h
      BY ONLY <1>1, <1>12, <2>2
    <3> QED BY ONLY <1>11, <3>1, <3>2 DEF IsSAR
  <2>3. CASE ~hit /\ long
    <3>1. q.long = TRUE /\ q.sar = s /\ q.ep = e /\ ~(l < s)
      BY ONLY <1>7, <1>10, <2>3
    <3>2. s <= l /\ s <= e
      BY ONLY <1>1, <1>12, <2>3, <3>1
    <3> QED BY ONLY <1>11, <3>1, <3>2 DEF IsSAR
  <2>4. CASE ~hit /\ ~long
    <3>1. q.long = FALSE /\ q.sar = s /\ q.ep = e /\ ~(h > s)
      BY ONLY <1>7, <1>10, <2>4
    <3>2. s >= h /\ s >= e
      BY ONLY <1>1, <1>12, <2>4, <3>1
    <3> QED BY ONLY <1>11, <3>1, <3>2 DEF IsSAR
  <2> QED BY <2>1, <2>2, <2>3, <2>4
<1>14. q.long = long => IF long THEN sar <= q.sar ELSE sar >= q.sar
  BY <1>4, <1>5, <1>10
<1>15. q.sar \in {s, ep, l, h} /\ q.ep \in {ep, l, h}
  BY <1>10, <1>12
<1> QED BY <1>1, <1>2, <1>5, <1>8, <1>13, <1>14, <1>15 DEF Outside

\* What the theorem about stops asks of the parameters.  The band of the Supertrend has
\* to contain the latest close, which the ATR grants if it counts enough.
StopParameters ==
    /\ P.parabolic_sar.step \in Nat /\ P.parabolic_sar.max \in Nat
    /\ P.supertrend.factor \in Nat /\ 4 * P.supertrend.factor >= P.supertrend.period + 1

\* The SAR at every bar.
LEMMA SARStops ==
    ASSUME ExactScale, StopParameters, NEW c, Proper(c), 2 <= Len(c), NEW x, x = ParabolicSAR(c, P.parabolic_sar)
    PROVE  /\ Sequence(x) /\ Len(x) = Len(c)
           /\ \A i \in 1..Len(c) : IsSAR(x[i]) /\ Outside(x[i], c[i])
           /\ \A i \in 1..(Len(c) - 1) :
                 x[i].long = x[i + 1].long =>
                    IF x[i].long THEN x[i].sar <= x[i + 1].sar ELSE x[i].sar >= x[i + 1].sar
           /\ x[1] = SARStart(c[1], c[2], P.parabolic_sar)
           /\ \A i \in 1..(Len(c) - 1) :
                 /\ x[i + 1] = SARStep(x[i], c[i + 1], P.parabolic_sar)
                 /\ Over(x[i].af * (x[i].ep - x[i].sar), P.parabolic_sar.unit) \in Int
                 /\ Over(x[i].af * (x[i].ep - x[i].sar), P.parabolic_sar.unit) * P.parabolic_sar.unit
                      = x[i].af * (x[i].ep - x[i].sar)
<1>1. PICK par : par = P.parabolic_sar
  OBVIOUS
<1>2. /\ Depth \in Nat /\ par.unit \in Nat \ {0} /\ par.unit \in Divisors
      /\ par.step \in Nat /\ par.max \in Nat
  BY <1>1, RungsAre DEF Divisors, StopParameters
<1>3. PICK l \in Nat : l = Len(c) /\ 2 <= l /\ l < Depth
  <2>1. Len(c) \in Nat /\ Len(c) <= MaxBars /\ MaxBars \in Nat
    BY ProperAre, SignalsConstantsOK
  <2> QED BY <2>1 DEF Depth
<1>4. /\ Sequence(c)
      /\ \A i \in 1..l : /\ c[i].high \in Nat /\ c[i].low \in Nat /\ c[i].close \in Nat
                         /\ c[i].low <= c[i].high
  <2>1. ASSUME NEW i \in 1..l PROVE c[i].low <= c[i].high
    <3>1. /\ c[i].high \in Nat /\ c[i].low \in Nat /\ c[i].close \in Nat
          /\ c[i].low <= c[i].close /\ c[i].close <= c[i].high
      BY <1>3, ProperAre
    <3> QED BY <3>1
  <2> QED BY <1>3, <2>1, ProperAre
<1>5. /\ Sequence(x) /\ Len(x) = l /\ x[1] = SARStart(c[1], c[2], par)
      /\ \A i \in 1..(l - 1) : x[i + 1] = SARStep(x[i], c[i + 1], par)
  <2>1. ~(Len(c) < 2) /\ ~(Len(c) <= 1) /\ 1 <= Len(c)
    BY <1>3
  <2>2. /\ Len(Tail(c)) = l - 1 /\ \A i \in 1..(l - 1) : Tail(c)[i] = c[i + 1]
    BY <1>3, <1>4, <2>1, TailIs
  <2>3. Grown("sar", par, Tail(c), SARStart(c[1], c[2], par), x)
    BY <1>1, <1>4, <2>1, SARGrows
  <2>4. Sequence(x) /\ Len(x) = l
    BY <1>1, <1>3, <1>4, <2>1, SARLong
  <2> QED BY <2>2, <2>3, <2>4 DEF Grown, Stepped
<1> DEFINE Drift(i) == Over(x[i].af * (x[i].ep - x[i].sar), par.unit)
           Good(i) == /\ IsSAR(x[i]) /\ Outside(x[i], c[i])
                      /\ x[i].sar \in Grid(Depth - i) /\ x[i].ep \in Grid(Depth)
           Exact(i) == /\ Drift(i) \in Int /\ Drift(i) * par.unit = x[i].af * (x[i].ep - x[i].sar)
           Follows(i) == x[i].long = x[i + 1].long =>
                    IF x[i].long THEN x[i].sar <= x[i + 1].sar ELSE x[i].sar >= x[i + 1].sar
<1>6. Good(1)
  <2>1. 1 \in 1..l /\ 2 \in 1..l /\ Depth - 1 \in 0..Depth /\ Depth \in 0..Depth
    BY <1>2, <1>3
  <2>2. /\ c[1].low \in Nat /\ c[1].high \in Nat /\ c[1].low <= c[1].high /\ c[1].close \in Nat
        /\ c[2].close \in Nat
    BY <1>4, <2>1
  <2>3. /\ IsSAR(x[1]) /\ Outside(x[1], c[1])
        /\ x[1].sar \in {Scale * c[1].low, Scale * c[1].high}
        /\ x[1].ep \in {Scale * c[1].low, Scale * c[1].high}
    BY <1>2, <1>5, <2>2, SARBegins, SMTT(60)
  <2>4. Scale * c[1].low \in Grid(Depth) /\ Scale * c[1].high \in Grid(Depth)
    BY <2>2, PricesOnGrid
  <2>5. Depth - 1 \in 0..Depth /\ Grid(Depth) \subseteq Grid(Depth - 1)
    BY <2>1, GridBelow
  <2> QED BY <2>3, <2>4, <2>5
<1>7. ASSUME NEW i \in 1..(l - 1), Good(i) PROVE Good(i + 1) /\ Exact(i) /\ Follows(i)
  <2>1. PICK k \in 1..Depth : k = Depth - i /\ k - 1 = Depth - (i + 1) /\ k \in 0..Depth /\ k - 1 \in 0..Depth
    <3>1. Depth - i \in 1..Depth /\ Depth - i - 1 = Depth - (i + 1)
      BY <1>2, <1>3
    <3>2. \A k \in 1..Depth : k \in 0..Depth /\ k - 1 \in 0..Depth
      BY <1>2
    <3> QED BY <3>1, <3>2
  <2>2. PICK p : p = x[i]
    OBVIOUS
  <2>3. PICK b : b = c[i + 1]
    OBVIOUS
  <2>4. b.low \in Nat /\ b.high \in Nat /\ b.low <= b.high
    <3>1. i + 1 \in 1..l
      BY <1>3
    <3> QED BY <1>4, <2>3, <3>1
  <2>5. IsSAR(p) /\ p.sar \in Grid(k) /\ p.ep \in Grid(Depth)
    BY <1>7, <2>1, <2>2
  <2>6. Grid(Depth) \subseteq Grid(k) /\ Grid(k) \subseteq Grid(k - 1) /\ Grid(Depth) \subseteq Grid(k - 1)
    BY <1>2, <2>1, GridBelow
  <2>7. PICK y \in Grid(k) : y = p.af * (p.ep - p.sar)
    <3>1. p.af \in Int /\ p.ep \in Grid(k)
      BY <2>5, <2>6 DEF IsSAR
    <3>2. p.ep - p.sar \in Grid(k)
      BY <2>1, <2>5, <3>1, GridIs
    <3> QED BY <2>1, <3>1, <3>2, GridIs
  <2>8. PICK r \in Int : r = Over(y, par.unit) /\ r \in Grid(k - 1) /\ r * par.unit = y
    BY <1>2, <2>1, <2>7, ComesOut
  <2>9. PICK q : q = SARStep(p, b, par)
    OBVIOUS
  <2>10. /\ IsSAR(q) /\ Outside(q, b)
         /\ q.long = p.long => IF p.long THEN p.sar <= q.sar ELSE p.sar >= q.sar
         /\ q.sar \in {p.sar + r, p.ep, Scale * b.low, Scale * b.high}
         /\ q.ep \in {p.ep, Scale * b.low, Scale * b.high}
    BY <1>2, <2>4, <2>5, <2>7, <2>8, <2>9, SARGoesOn
  <2>11. Scale * b.low \in Grid(Depth) /\ Scale * b.high \in Grid(Depth)
    BY <2>4, PricesOnGrid
  <2>12. p.sar + r \in Grid(k - 1)
    BY <2>1, <2>5, <2>6, <2>8, GridIs
  <2>13. q.sar \in Grid(k - 1) /\ q.ep \in Grid(Depth)
    BY <2>5, <2>6, <2>10, <2>11, <2>12
  <2>14. q = x[i + 1]
    BY <1>5, <2>2, <2>3, <2>9
  <2>15. Good(i + 1)
    BY <2>1, <2>3, <2>10, <2>13, <2>14
  <2>16. Exact(i)
    BY <2>2, <2>7, <2>8
  <2>17. Follows(i)
    BY <2>2, <2>10, <2>14
  <2> QED BY <2>15, <2>16, <2>17
<1> DEFINE T == {i \in Nat : i < l => Good(i + 1)}
<1>8. 0 \in T
  <2> HIDE DEF Good
  <2> QED BY <1>6
<1>9. ASSUME NEW i \in Nat, i \in T PROVE i + 1 \in T
  <2> SUFFICES ASSUME i + 1 < l PROVE Good(i + 1 + 1)
    OBVIOUS
  <2>1. i + 1 \in 1..(l - 1) /\ i < l
    BY <1>3
  <2> HIDE DEF Good
  <2> QED BY <1>7, <1>9, <2>1
<1>10. ASSUME NEW i \in 1..l PROVE Good(i)
  <2>1. PICK j \in Nat : i = j + 1 /\ j < l
    <3>1. i - 1 \in Nat /\ i = i - 1 + 1 /\ i - 1 < l
      BY <1>3
    <3> QED BY <3>1
  <2>2. j \in T
    <3> HIDE DEF T
    <3> QED BY <1>8, <1>9, NatSetInduction
  <2> HIDE DEF Good
  <2> QED BY <2>1, <2>2
<1>11. \A i \in 1..(l - 1) : Exact(i) /\ Follows(i)
  <2>1. \A i \in 1..(l - 1) : i \in 1..l
    BY <1>3
  <2> HIDE DEF Good, Exact, Follows
  <2> QED BY <1>7, <1>10, <2>1
<1>12. \A i \in 1..l : IsSAR(x[i]) /\ Outside(x[i], c[i])
  BY <1>10
<1> QED BY <1>1, <1>3, <1>5, <1>11, <1>12

\* The band of a candle is wide enough for its close.
LEMMA BandHolds ==
    ASSUME NEW n \in Nat, NEW f \in Nat, 4 * f >= n + 1, NEW a \in Nat,
           NEW h \in Nat, NEW l \in Nat, NEW y \in Nat, l <= y, y <= h,
           (n + 1) * a >= 2 * (Scale * (h - l)), NEW mid \in Int, mid * 2 = Scale * (h + l)
    PROVE  mid - f * a <= Scale * y /\ Scale * y <= mid + f * a
<1>1. Scale \in Nat
  BY ScaleAssumption
<1>2. PICK b \in Nat, H \in Int, L \in Int, Y \in Int :
         b = f * a /\ H = Scale * h /\ L = Scale * l /\ Y = Scale * y
  BY <1>1
<1>3. L <= Y /\ Y <= H
  BY <1>1, <1>2, Monotone
<1>4. Scale * (h - l) = H - L /\ Scale * (h + l) = H + L
  BY ONLY <1>1, <1>2
<1>5. (n + 1) * a <= 4 * b
  <2>1. a * (n + 1) <= a * (4 * f)
    <3>1. n + 1 \in Int /\ 4 * f \in Int /\ n + 1 <= 4 * f
      OBVIOUS
    <3> QED BY <3>1, Monotone
  <2>2. a * (n + 1) = (n + 1) * a /\ a * (4 * f) = 4 * (f * a)
    BY Regrouped
  <2> QED BY <1>2, <2>1, <2>2
<1>6. 4 * b >= 2 * (H - L)
  <2>1. PICK z \in Int : z = (n + 1) * a
    OBVIOUS
  <2> QED BY <1>2, <1>4, <1>5, <2>1
<1> QED BY <1>2, <1>3, <1>4, <1>6

\* The state of the Supertrend: its stop is the band on the side of its trend.
IsTrend(p) ==
    /\ p.upper \in Int /\ p.lower \in Int /\ p.long \in BOOLEAN
    /\ p.value = IF p.long THEN p.lower ELSE p.upper

\* The stop of a trend is on the far side of the close y.
Behind(p, y) == IF p.long THEN p.lower <= y ELSE p.upper >= y

\* q follows p; the closes were prev and y.
FollowsUp(p, q, prev, y) ==
    /\ Behind(q, y)
    /\ prev >= p.lower => q.lower >= p.lower
    /\ prev <= p.upper => q.upper <= p.upper
    /\ ~(y > q.upper /\ y < q.lower)
    /\ q.long = IF y > q.upper THEN TRUE ELSE IF y < q.lower THEN FALSE ELSE p.long

\* A step of the Supertrend, whose new band holds the close.
LEMMA TrendGoesOn ==
    ASSUME NEW p, IsTrend(p), NEW prev \in Int, NEW ub \in Int, NEW lb \in Int, NEW c,
           NEW y \in Int, y = Scale * c.close, lb <= y, y <= ub,
           NEW q, q = SupertrendStep(p, prev, c, ub, lb)
    PROVE  IsTrend(q) /\ FollowsUp(p, q, prev, y)
<1>1. PICK pu \in Int, pl \in Int : pu = p.upper /\ pl = p.lower
  BY DEF IsTrend
<1>2. PICK u \in Int : u = IF ub < pu \/ prev > pu THEN ub ELSE pu
  OBVIOUS
<1>3. PICK l \in Int : l = IF lb > pl \/ prev < pl THEN lb ELSE pl
  OBVIOUS
<1>4. PICK long : long = IF y > u THEN TRUE ELSE IF y < l THEN FALSE ELSE p.long
  OBVIOUS
<1>5. q = [upper |-> u, lower |-> l, long |-> long, value |-> IF long THEN l ELSE u]
  BY <1>1, <1>2, <1>3, <1>4 DEF SupertrendStep
<1>6. q.upper = u /\ q.lower = l /\ q.long = long /\ q.value = IF long THEN l ELSE u
  BY <1>5
<1>7. long \in BOOLEAN
  BY <1>4 DEF IsTrend
<1>8. ~(y > u /\ y < l)
  BY <1>2, <1>3
<1>9. IF long THEN l <= y ELSE u >= y
  BY <1>4, <1>8
<1>10. prev >= pl => l >= pl
  BY <1>3
<1>11. prev <= pu => u <= pu
  BY <1>2
<1>12. IsTrend(q)
  BY <1>6, <1>7 DEF IsTrend
<1>13. Behind(q, y)
  BY <1>6, <1>9 DEF Behind
<1> QED BY ONLY <1>1, <1>4, <1>6, <1>8, <1>10, <1>11, <1>12, <1>13 DEF FollowsUp

\* Where the band of a candle is.
Middle(k) == Over(Scale * (k.high + k.low), 2)

\* It comes out.
LEMMA MiddleIs ==
    ASSUME ExactScale, NEW k, k.high \in Nat, k.low \in Nat
    PROVE  Middle(k) \in Int /\ Middle(k) * 2 = Scale * (k.high + k.low) /\ Middle(k) \in Grid(Depth - 1)
<1>1. k.high + k.low \in Int /\ 2 \in Divisors
  BY DEF Divisors
<1>2. Depth \in 1..Depth
  BY RungsAre, SignalsConstantsOK DEF Depth
<1>3. Scale * (k.high + k.low) \in Grid(Depth)
  BY <1>1, PricesOnGrid
<1> QED BY <1>1, <1>2, <1>3, ComesOut DEF Middle

\* What is known of a candle.
IsBar(k) ==
    /\ k.high \in Nat /\ k.low \in Nat /\ k.close \in Nat
    /\ k.low <= k.close /\ k.close <= k.high

\* The candles of a proper series.
LEMMA BarsAre ==
    ASSUME NEW c, Proper(c), NEW i \in 1..Len(c)
    PROVE  IsBar(c[i])
BY ProperAre DEF IsBar

\* A step of the Supertrend, with the ATR b.
LEMMA TrendSteps ==
    ASSUME ExactScale, NEW n \in Nat, NEW f \in Nat, 4 * f >= n + 1, NEW b \in Nat,
           NEW e, IsBar(e), NEW k, IsBar(k), (n + 1) * b >= 2 * (Scale * (k.high - k.low)),
           NEW p, IsTrend(p)
    PROVE  /\ IsTrend(SupertrendNext(p, e, k, f * b))
           /\ FollowsUp(p, SupertrendNext(p, e, k, f * b), Scale * e.close, Scale * k.close)
<1>1. PICK h \in Nat, l \in Nat, z \in Nat :
        h = k.high /\ l = k.low /\ z = k.close /\ l <= z /\ z <= h
  BY DEF IsBar
<1>2. PICK mid \in Int : mid = Middle(k) /\ mid * 2 = Scale * (h + l)
  BY <1>1, MiddleIs
<1>3. mid - f * b <= Scale * z /\ Scale * z <= mid + f * b
  BY <1>1, <1>2, BandHolds, ZenonT(60)
<1>4. PICK ub \in Int, lb \in Int, y \in Int : ub = mid + f * b /\ lb = mid - f * b /\ y = Scale * z
  BY ScaleAssumption
<1>5. PICK prev \in Int : prev = Scale * e.close
  <2>1. e.close \in Nat
    BY DEF IsBar
  <2> QED BY <2>1, ScaleAssumption
<1>6. PICK q : q = SupertrendNext(p, e, k, f * b)
  OBVIOUS
<1>7. q = SupertrendStep(p, prev, k, ub, lb)
  BY <1>2, <1>4, <1>5, <1>6, Zenon DEF SupertrendNext, Middle
<1>8. y = Scale * k.close /\ lb <= y /\ y <= ub
  BY <1>1, <1>3, <1>4
<1>9. IsTrend(q) /\ FollowsUp(p, q, prev, y)
  BY ONLY IsTrend(p), prev \in Int, ub \in Int, lb \in Int, y \in Int, <1>7, <1>8, TrendGoesOn
<1> QED BY ONLY <1>5, <1>6, <1>8, <1>9

\* The Supertrend by its equations.
TrendOf(c, n, f, a, x) ==
    /\ Sequence(x) /\ Len(x) = Len(c) - n
    /\ x[1] = SupertrendStart(c[n + 1], f * a[1])
    /\ \A i \in 1..(Len(c) - n - 1) : x[i + 1] = SupertrendNext(x[i], c[n + i], c[n + i + 1], f * a[i + 1])

\* A Supertrend goes from bar to bar.
LEMMA SupertrendByBars ==
    ASSUME NEW c, Sequence(c), NEW n \in Nat \ {0}, NEW f, n < Len(c)
    PROVE  TrendOf(c, n, f, ATR(c, n), Supertrend(c, n, f))
<1>1. PICK m \in Nat : m = Len(c) - n - 1
  BY SequenceIs
<1>2. PICK d, q, x : d = Trend(c, n, f) /\ q = [j \in 1..(Len(c) - n - 1) |-> j + 1]
                     /\ x = Supertrend(c, n, f)
  OBVIOUS
<1>3. PICK a : a = ATR(c, n)
  OBVIOUS
<1>4. /\ Len(q) = m /\ d.offset = n
      /\ Grown("supertrend", d, q, SupertrendStart(c[1 + n], f * a[1]), x)
  BY <1>1, <1>2, <1>3, SupertrendGrows
<1>5. d.c = c /\ d.atr = a /\ d.factor = f
  BY <1>2, <1>3 DEF Trend
<1>6. ASSUME NEW i \in 1..m
      PROVE  x[i + 1] = SupertrendNext(x[i], c[n + i], c[n + i + 1], f * a[i + 1])
  <2>1. x[i + 1] = Stepped("supertrend", d, q[i], x[i])
    BY <1>4 DEF Grown
  <2>2. q[i] = i + 1
    BY <1>1, <1>2
  <2>3. i + 1 + n - 1 = n + i /\ i + 1 + n = n + i + 1
    OBVIOUS
  <2>4. Stepped("supertrend", d, i + 1, x[i])
          = SupertrendNext(x[i], c[i + 1 + n - 1], c[i + 1 + n], f * a[i + 1])
    BY ONLY <1>4, <1>5 DEF Stepped
  <2> QED BY ONLY <2>1, <2>2, <2>3, <2>4, Zenon
<1>7. 1 + n = n + 1 /\ m + 1 = Len(c) - n
  BY <1>1, SequenceIs
<1> QED BY <1>1, <1>2, <1>3, <1>4, <1>6, <1>7 DEF Grown, TrendOf

\* ... and its stops, at every bar that it has a value for.
LEMMA SupertrendStops ==
    ASSUME ExactScale, StopParameters, NEW c, Proper(c), NEW n, n = P.supertrend.period,
           NEW f, f = P.supertrend.factor, n < Len(c), NEW x, x = Supertrend(c, n, f)
    PROVE  /\ TrendOf(c, n, f, ATR(c, n), x)
           /\ \A i \in 1..(Len(c) - n) : IsTrend(x[i])
           /\ \A i \in 1..(Len(c) - n - 1) :
                 FollowsUp(x[i], x[i + 1], Scale * c[n + i].close, Scale * c[n + i + 1].close)
<1>1. n \in Nat \ {0} /\ n \in Periods /\ f \in Nat /\ 4 * f >= n + 1 /\ Sequence(c)
  BY PeriodsOK, ProperAre DEF Periods, StopParameters
<1>2. PICK m \in Nat : m = Len(c) - n /\ 1 <= m
  <2>1. Len(c) \in Nat
    BY <1>1, SequenceIs
  <2>2. Len(c) - n \in Nat /\ 1 <= Len(c) - n
    BY <1>1, <2>1
  <2> QED BY <2>2
<1>3. \A i \in 1..m : n + i \in 1..Len(c)
  BY <1>1, <1>2, SequenceIs
<1>4. \A i \in 1..m : IsBar(c[n + i])
  BY <1>3, BarsAre
<1>5. PICK a : a = ATR(c, n)
  OBVIOUS
<1>6. /\ \A i \in 1..m : a[i] \in Nat
      /\ \A i \in 1..(m - 1) :
            (n + 1) * a[i + 1] >= 2 * (Scale * (c[n + i + 1].high - c[n + i + 1].low))
  BY <1>1, <1>2, <1>5, ATROnGrid
<1>7. TrendOf(c, n, f, a, x)
  BY <1>1, <1>5, SupertrendByBars
<1>8. /\ x[1] = SupertrendStart(c[n + 1], f * a[1])
      /\ \A i \in 1..(m - 1) : x[i + 1] = SupertrendNext(x[i], c[n + i], c[n + i + 1], f * a[i + 1])
  BY <1>2, <1>7 DEF TrendOf
<1>9. IsTrend(x[1])
  <2>1. PICK k : k = c[n + 1]
    OBVIOUS
  <2>2. PICK r \in Int : r = f * a[1]
    <3>1. a[1] \in Nat
      BY <1>2, <1>6
    <3>2. f * a[1] \in Int
      BY <1>1, <3>1
    <3> QED BY <3>2
  <2>3. PICK mid \in Int : mid = Middle(k)
    <3>1. IsBar(k)
      BY <1>2, <1>4, <2>1
    <3> QED BY <3>1, MiddleIs DEF IsBar
  <2>4. x[1] = [upper |-> mid + r, lower |-> mid - r, long |-> TRUE, value |-> mid - r]
    BY <1>8, <2>1, <2>2, <2>3, Zenon DEF SupertrendStart, Middle
  <2> QED BY ONLY <2>2, <2>3, <2>4 DEF IsTrend
<1>10. ASSUME NEW i \in 1..(m - 1), IsTrend(x[i])
       PROVE  /\ IsTrend(x[i + 1])
              /\ FollowsUp(x[i], x[i + 1], Scale * c[n + i].close, Scale * c[n + i + 1].close)
  <2>1. i \in 1..m /\ i + 1 \in 1..m /\ n + i + 1 = n + (i + 1)
    <3>1. n \in Nat /\ m \in Nat
      BY <1>1, <1>2
    <3> QED BY ONLY <3>1, i \in 1..(m - 1)
  <2>2. PICK e, k : e = c[n + i] /\ k = c[n + i + 1]
    OBVIOUS
  <2>3. PICK b \in Nat : b = a[i + 1]
    <3>1. a[i + 1] \in Nat
      BY <1>6, <2>1
    <3> QED BY <3>1
  <2>4. IsBar(e) /\ IsBar(k)
    BY <1>4, <2>1, <2>2
  <2>5. (n + 1) * b >= 2 * (Scale * (k.high - k.low))
    BY <1>6, <2>2, <2>3
  <2>6. x[i + 1] = SupertrendNext(x[i], e, k, f * b)
    BY <1>8, <2>2, <2>3
  <2>7. /\ IsTrend(SupertrendNext(x[i], e, k, f * b))
        /\ FollowsUp(x[i], SupertrendNext(x[i], e, k, f * b), Scale * e.close, Scale * k.close)
    BY <1>1, <1>10, <2>3, <2>4, <2>5, TrendSteps
  <2> QED BY ONLY <2>2, <2>6, <2>7, Zenon
<1> DEFINE T == {i \in Nat : i < m => IsTrend(x[i + 1])}
<1>11. 0 \in T
  BY <1>9
<1>12. ASSUME NEW i \in Nat, i \in T PROVE i + 1 \in T
  <2> SUFFICES ASSUME i + 1 < m PROVE IsTrend(x[i + 1 + 1])
    OBVIOUS
  <2>1. i + 1 \in 1..(m - 1) /\ i < m
    BY <1>2
  <2> QED BY <1>10, <1>12, <2>1
<1>13. ASSUME NEW i \in 1..m PROVE IsTrend(x[i])
  <2>1. PICK j \in Nat : i = j + 1 /\ j < m
    <3>1. i - 1 \in Nat /\ i = i - 1 + 1 /\ i - 1 < m
      BY <1>2
    <3> QED BY <3>1
  <2>2. j \in T
    <3> HIDE DEF T
    <3> QED BY <1>11, <1>12, NatSetInduction
  <2> QED BY <2>1, <2>2
<1>14. ASSUME NEW i \in 1..(m - 1)
       PROVE  FollowsUp(x[i], x[i + 1], Scale * c[n + i].close, Scale * c[n + i + 1].close)
  <2>1. i \in 1..m
    BY <1>2
  <2> QED BY <1>10, <1>13, <2>1
<1> QED BY <1>2, <1>5, <1>7, <1>13, <1>14

\* The exchange's candles: a close is within the range of its candle.
ProperBars == \A k \in Sights : k.candle.low <= k.candle.close /\ k.candle.close <= k.candle.high

\* Every candle is one that a tick has found.
Seen == \A i \in 1..Len(candles) : \E k \in Sights : candles[i] = k.candle

\* Every step of the market takes its candle from a sight.
LEMMA OnlySeen ==
    ASSUME Invariant, Seen, Next
    PROVE  Seen'
<1>1. candles \in Seq(Candle) /\ Len(candles) \in Nat
  BY DEF Invariant
<1>2. \A k \in Sights : k.candle \in Candle
  BY SignalsConstantsOK
<1>3. CASE NewBar
  <2>1. PICK k \in Sights : candles' = Append(candles, k.candle)
    BY <1>3 DEF NewBar, Tick
  <2>2. /\ Len(candles') = Len(candles) + 1 /\ candles'[Len(candles) + 1] = k.candle
        /\ \A i \in 1..Len(candles) : candles'[i] = candles[i]
    BY <1>1, <1>2, <2>1
  <2>3. \A i \in 1..(Len(candles) + 1) : i \in 1..Len(candles) \/ i = Len(candles) + 1
    BY <1>1
  <2> QED BY <2>2, <2>3 DEF Seen
<1>4. CASE Slide
  <2>1. PICK k \in Sights : candles' = Append(Tail(candles), k.candle)
    BY <1>4 DEF Slide, Tick
  <2>2. candles # <<>>
    BY <1>1, <1>4, SignalsConstantsOK DEF Slide
  <2>3. PICK l \in Nat \ {0} : l = Len(candles)
    BY <1>1, <2>2
  <2>4. /\ Tail(candles) \in Seq(Candle) /\ Len(Tail(candles)) = l - 1
        /\ \A i \in 1..(l - 1) : Tail(candles)[i] = candles[i + 1]
    BY <1>1, <2>2, <2>3
  <2>5. /\ Len(candles') = l /\ candles'[l] = k.candle
        /\ \A i \in 1..(l - 1) : candles'[i] = candles[i + 1]
    BY <1>2, <2>1, <2>3, <2>4
  <2>6. \A i \in 1..l : i = l \/ (i \in 1..(l - 1) /\ i + 1 \in 1..l)
    OBVIOUS
  <2> QED BY <2>3, <2>5, <2>6 DEF Seen
<1>5. CASE BarMoves
  <2>1. PICK k \in Sights : candles' = Front(candles) \o <<k.candle>> /\ candles # <<>>
    BY <1>5 DEF BarMoves, Tick
  <2>2. PICK l \in Nat \ {0} : l = Len(candles)
    BY <1>1, <2>1
  <2>3. PICK b \in Candle : b = k.candle
    BY <1>2
  <2>4. /\ Front(candles) \in Seq(Candle) /\ Len(Front(candles)) = l - 1
        /\ \A i \in 1..(l - 1) : Front(candles)[i] = candles[i]
    <3>1. Front(candles) = SubSeq(candles, 1, l - 1)
      BY <2>2 DEF Front
    <3> QED BY <1>1, <2>2, <3>1
  <2>5. <<b>> \in Seq(Candle) /\ Len(<<b>>) = 1 /\ <<b>>[1] = b
    OBVIOUS
  <2>6. /\ Len(candles') = l /\ candles'[l] = b
        /\ \A i \in 1..(l - 1) : candles'[i] = candles[i]
    <3>1. candles' = Front(candles) \o <<b>>
      BY <2>1, <2>3
    <3>2. PICK f : f = Front(candles)
      OBVIOUS
    <3>3. f \in Seq(Candle) /\ Len(f) = l - 1 /\ candles' = f \o <<b>>
      BY <2>4, <3>1, <3>2
    <3>4. /\ Len(f \o <<b>>) = l /\ (f \o <<b>>)[l] = b
          /\ \A i \in 1..(l - 1) : (f \o <<b>>)[i] = f[i]
      BY <2>2, <2>5, <3>3
    <3> QED BY <2>4, <3>2, <3>3, <3>4
  <2>7. \A i \in 1..l : i = l \/ i \in 1..(l - 1)
    OBVIOUS
  <2> QED BY <2>2, <2>3, <2>6, <2>7 DEF Seen
<1>6. CASE EmptyAnswer
  <2>1. candles' = <<>>
    BY <1>6 DEF EmptyAnswer, Tick
  <2>2. \A i \in 1..Len(candles') : FALSE
    BY <2>1
  <2> QED BY <2>2 DEF Seen
<1> QED BY <1>3, <1>4, <1>5, <1>6 DEF Next

\* The engine's candles are candles that the exchange has answered with, whatever slides or moves.
LEMMA CandlesAreSeen == Spec => [](Invariant /\ Seen)
<1>1. Init => Seen
  <2> SUFFICES ASSUME Init PROVE Seen
    OBVIOUS
  <2>1. \A i \in 1..Len(candles) : FALSE
    BY DEF Init
  <2> QED BY <2>1 DEF Seen
<1>2. Invariant /\ Seen /\ [Next]_vars => Seen'
  <2>1. Invariant /\ Seen /\ Next => Seen'
    BY OnlySeen
  <2>2. Seen /\ UNCHANGED vars => Seen'
    BY DEF Seen, vars
  <2> QED BY <2>1, <2>2
<1> QED BY <1>1, <1>2, InvariantHolds, PTL DEF Spec

\* ... and are proper, then.
LEMMA SeenIsProper ==
    ASSUME Invariant, Seen, ProperBars
    PROVE  Proper(candles)
<1>1. ASSUME NEW i \in 1..Len(candles)
      PROVE  candles[i].low <= candles[i].close /\ candles[i].close <= candles[i].high
  BY <1>1 DEF Seen, ProperBars
<1> QED BY <1>1 DEF Proper, Invariant

\* The parts of StopsOnTheirSide.
SARHolds(c, x) ==
    /\ x # <<>> => IF Latest(x).long THEN Latest(x).sar <= Scale * Latest(c).low
                                     ELSE Latest(x).sar >= Scale * Latest(c).high
    /\ Ratchets(x, 1, LAMBDA p : p.sar)
TrendHolds(c, x) ==
    /\ Len(x) >= 2 => IF Latest(x).long THEN Latest(x).value <= Scale * Latest(c).close
                                        ELSE Latest(x).value >= Scale * Latest(c).close
    /\ Ratchets(x, 2, LAMBDA p : p.value)

\* The SAR has both.
LEMMA SARIsOutside ==
    ASSUME ExactScale, StopParameters, NEW c, Proper(c), NEW x, x = ParabolicSAR(c, P.parabolic_sar)
    PROVE  SARHolds(c, x)
<1>1. Len(c) \in Nat
  BY ProperAre
<1>2. CASE Len(c) < 2
  <2>1. x = <<>>
    BY <1>2 DEF ParabolicSAR
  <2>2. \A i \in 1..(Len(x) - 1) : FALSE
    BY <2>1
  <2> QED BY <2>1, <2>2 DEF Ratchets, SARHolds
<1>3. CASE ~(Len(c) < 2)
  <2>1. PICK l \in Nat : l = Len(c) /\ 2 <= l
    BY <1>1, <1>3
  <2>2. /\ Len(x) = l
        /\ \A i \in 1..l : Outside(x[i], c[i])
        /\ \A i \in 1..(l - 1) :
             x[i].long = x[i + 1].long =>
                IF x[i].long THEN x[i].sar <= x[i + 1].sar ELSE x[i].sar >= x[i + 1].sar
    BY <2>1, SARStops
  <2>3. Outside(x[l], c[l]) /\ Latest(x) = x[l] /\ Latest(c) = c[l]
    BY <2>1, <2>2 DEF Latest
  <2>4. IF Latest(x).long THEN Latest(x).sar <= Scale * Latest(c).low
                          ELSE Latest(x).sar >= Scale * Latest(c).high
    BY ONLY <2>3 DEF Outside
  <2>5. Ratchets(x, 1, LAMBDA p : p.sar)
    BY ONLY <2>2 DEF Ratchets
  <2> QED BY <2>4, <2>5 DEF SARHolds
<1> QED BY <1>2, <1>3

\* So does the Supertrend.
LEMMA SupertrendIsBehind ==
    ASSUME ExactScale, StopParameters, NEW c, Proper(c),
           NEW x, x = Supertrend(c, P.supertrend.period, P.supertrend.factor)
    PROVE  TrendHolds(c, x)
<1>1. PICK n \in Nat \ {0} : n = P.supertrend.period
  BY PeriodsOK
<1>2. PICK l \in Nat : l = Len(c) /\ Sequence(c)
  BY ProperAre
<1>3. CASE l <= n
  <2>1. Len(x) = 0
    BY <1>1, <1>2, <1>3, SupertrendLong
  <2>2. (\A i \in 2..(Len(x) - 1) : FALSE) /\ ~(Len(x) >= 2)
    BY <2>1
  <2> QED BY <2>2 DEF Ratchets, TrendHolds
<1>4. CASE ~(l <= n)
  <2>1. PICK m \in Nat \ {0} : m = l - n /\ n + m = l
    <3>1. l - n \in Nat \ {0} /\ n + (l - n) = l
      BY <1>4
    <3> QED BY <3>1
  <2>2. n < l
    BY <1>4
  <2>3. /\ TrendOf(c, n, P.supertrend.factor, ATR(c, n), x)
        /\ \A i \in 1..m : IsTrend(x[i])
        /\ \A i \in 1..(m - 1) :
             FollowsUp(x[i], x[i + 1], Scale * c[n + i].close, Scale * c[n + i + 1].close)
    BY <1>1, <1>2, <2>1, <2>2, SupertrendStops
  <2>4. Len(x) = m
    BY <1>2, <2>1, <2>3 DEF TrendOf
  <2>5. ASSUME NEW i \in 2..m PROVE Behind(x[i], Scale * c[n + i].close)
    <3>1. PICK j \in 1..(m - 1) : i = j + 1 /\ n + j + 1 = n + i
      <4>1. i - 1 \in 1..(m - 1) /\ i = i - 1 + 1 /\ n + (i - 1) + 1 = n + i
        OBVIOUS
      <4> QED BY ONLY <4>1
    <3>2. FollowsUp(x[j], x[j + 1], Scale * c[n + j].close, Scale * c[n + j + 1].close)
      BY ONLY <2>3, <3>1
    <3> QED BY ONLY <3>1, <3>2 DEF FollowsUp
  <2>6. ASSUME m >= 2
        PROVE  IF Latest(x).long THEN Latest(x).value <= Scale * Latest(c).close
                                 ELSE Latest(x).value >= Scale * Latest(c).close
    <3>1. m \in 2..m /\ m \in 1..m
      BY <2>6
    <3>2. Behind(x[m], Scale * c[n + m].close) /\ IsTrend(x[m])
      BY <2>3, <2>5, <3>1
    <3>3. Latest(x) = x[m] /\ Latest(c) = c[n + m]
      BY <1>2, <2>1, <2>4 DEF Latest
    <3> QED BY ONLY <3>2, <3>3 DEF Behind, IsTrend
  <2>7. ASSUME NEW i \in 2..(m - 1), x[i].long = x[i + 1].long
        PROVE  IF x[i].long THEN x[i].value <= x[i + 1].value ELSE x[i].value >= x[i + 1].value
    <3>1. i \in 1..(m - 1) /\ i \in 1..m /\ i + 1 \in 1..m /\ i \in 2..m /\ n + i \in 1..l
      BY <2>1
    <3>2. IsTrend(x[i]) /\ IsTrend(x[i + 1]) /\ Behind(x[i], Scale * c[n + i].close)
      BY ONLY <2>3, <2>5, <3>1
    <3>3. FollowsUp(x[i], x[i + 1], Scale * c[n + i].close, Scale * c[n + i + 1].close)
      BY ONLY <2>3, <3>1
    <3>4. Scale * c[n + i].close \in Int
      <4>1. c[n + i].close \in Nat
        BY <1>2, <3>1, ProperAre
      <4> QED BY <4>1, ScaleAssumption
    <3>5. PICK y \in Int : y = Scale * c[n + i].close
      BY <3>4
    <3>6. /\ y >= x[i].lower => x[i + 1].lower >= x[i].lower
          /\ y <= x[i].upper => x[i + 1].upper <= x[i].upper
      BY ONLY <3>3, <3>5 DEF FollowsUp
    <3>7. IF x[i].long THEN x[i].lower <= y ELSE x[i].upper >= y
      BY ONLY <3>2, <3>5 DEF Behind
    <3>8. IF x[i].long THEN x[i].lower <= x[i + 1].lower ELSE x[i].upper >= x[i + 1].upper
      BY ONLY <3>2, <3>5, <3>6, <3>7 DEF IsTrend
    <3> QED BY ONLY <2>7, <3>2, <3>8 DEF IsTrend
  <2>8. Ratchets(x, 2, LAMBDA p : p.value)
    BY ONLY <2>4, <2>7 DEF Ratchets
  <2> QED BY <2>4, <2>6, <2>8 DEF TrendHolds
<1> QED BY <1>3, <1>4

\* Whatever the market, ParabolicSAR and Supertrend leave their stop on its own side of
\* the latest bar or close and never take it back within a trend, provided that the
\* exchange's candles are proper, what the code divides comes out, and the Supertrend's
\* band can hold a close: 4 * factor >= period + 1 (the registered ones: 12 >= 11).
THEOREM StopsHold ==
    ASSUME ExactScale, ProperBars, StopParameters
    PROVE  Spec => []StopsOnTheirSide
<1>1. Invariant /\ Seen => StopsOnTheirSide
  <2> SUFFICES ASSUME Invariant, Seen PROVE StopsOnTheirSide
    OBVIOUS
  <2>1. Proper(candles)
    BY SeenIsProper
  <2>2. /\ series["parabolic_sar"] = ParabolicSAR(candles, P.parabolic_sar)
        /\ series["supertrend"] = Supertrend(candles, P.supertrend.period, P.supertrend.factor)
    BY SeriesAre DEF Invariant
  <2>3. SARHolds(candles, series.parabolic_sar) /\ TrendHolds(candles, series.supertrend)
    BY <2>1, <2>2, SARIsOutside, SupertrendIsBehind
  <2> QED BY <2>3 DEF StopsOnTheirSide, SARHolds, TrendHolds
<1> QED BY <1>1, CandlesAreSeen, PTL

-----------------------------------------------------------------------------
(* Fractions *)

\* What is left of a division.
IsLeft(r, x, q, y) ==
    /\ x \in Nat /\ q \in Nat /\ r \in Nat /\ y \in Nat \ {0}
    /\ r < y /\ x = q * y + r

LEMMA RemainderFound ==
    ASSUME NEW x \in Nat, NEW q \in Nat, NEW r \in Nat, NEW y \in Nat \ {0}, r < y, x = q * y + r
    PROVE  x % y = r
BY Z3

\* The same, of a named fact.
LEMMA RemainderIs ==
    ASSUME NEW r, NEW x, NEW q, NEW y, IsLeft(r, x, q, y)
    PROVE  x % y = r
<1>1. PICK k \in Nat, l \in Nat, m \in Nat, n \in Nat \ {0} :
         k = x /\ l = q /\ m = r /\ n = y /\ m < n /\ k = l * n + m
  BY DEF IsLeft
<1>2. k % n = m
  BY ONLY k \in Nat, l \in Nat, m \in Nat, n \in Nat \ {0}, <1>1, RemainderFound
<1> QED BY <1>1, <1>2, Zenon

\* The quotient is the last multiple below.
LEMMA QuotientBelow ==
    ASSUME NEW x \in Int, NEW y \in Int, y > 0
    PROVE  y * (x \div y) <= x /\ x < y * (x \div y) + y
<1>1. y * (x \div y) <= x
  OBVIOUS
<1>2. x < y * (x \div y) + y
  OBVIOUS
<1> QED BY <1>1, <1>2

\* Quotient and remainder of natural numbers.
LEMMA Remainder ==
    ASSUME NEW x \in Nat, NEW y \in Nat \ {0}
    PROVE  \E q, r \in Nat : r = x % y /\ r < y /\ x = q * y + r
<1>2. x \div y \in Nat
  BY NotNegative
<1>3. y * (x \div y) <= x /\ x < y * (x \div y) + y
  <2>1. x \in Int /\ y \in Int /\ y > 0
    OBVIOUS
  <2> QED BY <2>1, QuotientBelow
<1>4. PICK q \in Nat : q = x \div y
  BY <1>2
<1>5. PICK r \in Nat : r = x - q * y /\ r < y /\ x = q * y + r
  BY <1>3, <1>4
<1>6. x % y = r
  <2>1. IsLeft(r, x, q, y)
    BY <1>5 DEF IsLeft
  <2> QED BY <2>1, RemainderIs
<1> QED BY <1>5, <1>6, Zenon

\* Euclid's step, and g the greatest common divisor where one number is at most n.
Turned(g, y) == [x \in Nat |-> IF y = 0 THEN x ELSE g[x % y][y]]
GcdUpTo(g, n) == g = [y \in 0..n |-> Turned(g, y)]

\* Euclid's step looks at smaller numbers only.
LEMMA TurnedAlike ==
    ASSUME NEW g, NEW h, NEW y \in Nat, \A r \in Nat : r < y => g[r] = h[r]
    PROVE  Turned(g, y) = Turned(h, y)
<1>1. ASSUME NEW x \in Nat, y # 0 PROVE g[x % y][y] = h[x % y][y]
  BY <1>1, Remainder
<1>2. \A x \in Nat : (IF y = 0 THEN x ELSE g[x % y][y]) = IF y = 0 THEN x ELSE h[x % y][y]
  BY <1>1
<1> QED BY <1>2, Zenon DEF Turned

\* There is such a function for every n: gcd's recursion is well-founded.
LEMMA GcdUpToExists ==
    ASSUME NEW n \in Nat
    PROVE  \E g : GcdUpTo(g, n)
<1> DEFINE T == {k \in Nat : \E g : GcdUpTo(g, k)}
<1>1. 0 \in T
  <2>1. PICK g : g = [y \in 0..0 |-> Turned(<<>>, y)]
    OBVIOUS
  <2>2. \A y \in 0..0 : Turned(<<>>, y) = Turned(g, y)
    <3>1. \A y \in 0..0 : y \in Nat /\ \A r \in Nat : ~(r < y)
      OBVIOUS
    <3> QED BY <3>1, TurnedAlike
  <2>3. GcdUpTo(g, 0)
    BY <2>1, <2>2, Zenon DEF GcdUpTo
  <2> QED BY <2>3
<1>2. ASSUME NEW k \in Nat, k \in T PROVE k + 1 \in T
  <2>1. PICK g : GcdUpTo(g, k)
    BY <1>2
  <2>2. PICK h : h = [y \in 0..(k + 1) |-> Turned(g, y)]
    OBVIOUS
  <2>3. \A y \in 0..k : g[y] = Turned(g, y)
    BY <2>1 DEF GcdUpTo
  <2>4. \A y \in 0..(k + 1) : h[y] = Turned(g, y)
    BY <2>2
  <2>5. \A y \in 0..(k + 1) : Turned(g, y) = Turned(h, y)
    <3> SUFFICES ASSUME NEW y \in 0..(k + 1) PROVE Turned(g, y) = Turned(h, y)
      OBVIOUS
    <3>1. \A r \in Nat : r < y => r \in 0..k /\ r \in 0..(k + 1)
      OBVIOUS
    <3>2. y \in Nat /\ \A r \in Nat : r < y => g[r] = h[r]
      BY <2>3, <2>4, <3>1
    <3> QED BY <3>2, TurnedAlike
  <2>6. GcdUpTo(h, k + 1)
    BY <2>2, <2>5, Zenon DEF GcdUpTo
  <2> QED BY <2>6
<1> HIDE DEF T
<1>3. n \in T
  BY <1>1, <1>2, NatSetInduction
<1> QED BY <1>3 DEF T

\* Two of them agree where both are defined.
LEMMA GcdUpToAlike ==
    ASSUME NEW n \in Nat, NEW m \in Nat, n <= m, NEW g, GcdUpTo(g, n), NEW h, GcdUpTo(h, m)
    PROVE  g[n] = h[n]
<1>1. \A y \in 0..n : g[y] = Turned(g, y)
  BY DEF GcdUpTo
<1>2. \A y \in 0..m : h[y] = Turned(h, y)
  BY DEF GcdUpTo
<1> DEFINE T == {k \in Nat : k <= n => \A y \in 0..k : g[y] = h[y]}
<1>3. ASSUME NEW y \in 0..n, \A r \in Nat : r < y => g[r] = h[r] PROVE g[y] = h[y]
  <2>1. y \in Nat /\ y \in 0..m
    OBVIOUS
  <2> QED BY <1>1, <1>2, <1>3, <2>1, TurnedAlike
<1>4. 0 \in T
  <2>1. 0 \in 0..n /\ (\A y \in 0..0 : y = 0) /\ \A r \in Nat : ~(r < 0)
    OBVIOUS
  <2> QED BY <1>3, <2>1
<1>5. ASSUME NEW k \in Nat, k \in T PROVE k + 1 \in T
  <2> SUFFICES ASSUME k + 1 <= n, NEW y \in 0..(k + 1) PROVE g[y] = h[y]
    OBVIOUS
  <2>1. y \in 0..n /\ k <= n /\ \A r \in Nat : r < y => r \in 0..k
    OBVIOUS
  <2> QED BY <1>3, <1>5, <2>1
<1> HIDE DEF T
<1>6. n \in T
  BY <1>4, <1>5, NatSetInduction
<1>7. n \in 0..n
  OBVIOUS
<1> QED BY <1>6, <1>7 DEF T

\* Euclid's equation: there is a function that satisfies it, and CHOOSE finds it.
LEMMA GcdIs ==
    \A x \in Nat, y \in Nat : gcd[y][x] = IF y = 0 THEN x ELSE gcd[x % y][y]
<1> DEFINE Eq(f) == f = [y \in Nat |-> Turned(f, y)]
<1>1. PICK part : part = [n \in Nat |-> CHOOSE g : GcdUpTo(g, n)]
  OBVIOUS
<1>2. \A n \in Nat : GcdUpTo(part[n], n)
  BY <1>1, GcdUpToExists
<1>3. PICK f : f = [y \in Nat |-> part[y][y]]
  OBVIOUS
<1>4. ASSUME NEW y \in Nat PROVE part[y][y] = Turned(f, y)
  <2>1. GcdUpTo(part[y], y) /\ y \in 0..y
    BY <1>2
  <2>2. part[y][y] = Turned(part[y], y)
    BY <2>1 DEF GcdUpTo
  <2>3. ASSUME NEW r \in Nat, r < y PROVE part[y][r] = f[r]
    <3>1. GcdUpTo(part[r], r) /\ r <= y
      BY <1>2, <2>3
    <3>2. part[r][r] = part[y][r]
      BY <2>1, <3>1, GcdUpToAlike
    <3> QED BY <1>3, <3>2
  <2> QED BY <2>2, <2>3, TurnedAlike
<1>5. Eq(f)
  BY <1>3, <1>4, Zenon
<1>6. gcd = CHOOSE g : Eq(g)
  BY DEF gcd, Turned
<1>7. Eq(gcd)
  <2> HIDE DEF Eq
  <2> QED BY <1>5, <1>6
<1>8. \A y \in Nat : gcd[y] = Turned(gcd, y)
  BY <1>7, SMTT(60)
<1> QED BY <1>8 DEF Turned

\* It divides both numbers.
Divided2(g, x) == \E a \in Nat : x = a * g

\* The greatest common divisor divides both numbers, and is not zero.
LEMMA GcdDivides ==
    ASSUME NEW x \in Nat, NEW y \in Nat \ {0}
    PROVE  /\ gcd[y][x] \in Nat \ {0}
           /\ \E a \in Nat : x = a * gcd[y][x]
           /\ \E b \in Nat \ {0} : y = b * gcd[y][x]
<1> DEFINE Good(u, v) == /\ gcd[v][u] \in Nat /\ (u + v # 0 => gcd[v][u] # 0)
                         /\ Divided2(gcd[v][u], u) /\ Divided2(gcd[v][u], v)
           T == {k \in Nat : \A u \in Nat, v \in 0..k : Good(u, v)}
<1>1. ASSUME NEW u \in Nat PROVE Good(u, 0)
  <2>1. gcd[0][u] = u
    BY GcdIs
  <2>2. Divided2(u, u) /\ Divided2(u, 0)
    <3>1. u = 1 * u /\ 0 = 0 * u /\ 0 \in Nat /\ 1 \in Nat
      OBVIOUS
    <3> QED BY <3>1 DEF Divided2
  <2> QED BY <2>1, <2>2
<1>2. 0 \in T
  <2>1. \A v \in 0..0 : v = 0
    OBVIOUS
  <2> HIDE DEF Good
  <2> QED BY <1>1, <2>1
<1>3. ASSUME NEW k \in Nat, k \in T PROVE k + 1 \in T
  <2> SUFFICES ASSUME NEW u \in Nat, NEW v \in 0..(k + 1) PROVE Good(u, v)
    <3> HIDE DEF Good
    <3>1. k + 1 \in Nat
      OBVIOUS
    <3> QED BY <3>1
  <2>1. CASE v = 0
    <3> HIDE DEF Good
    <3> QED BY <1>1, <2>1
  <2>2. CASE v # 0
    <3>v. v \in Nat \ {0}
      BY <2>2
    <3>r. PICK q \in Nat, r \in Nat : r = u % v /\ r < v /\ u = q * v + r
      BY <3>v, Remainder
    <3>1. r < v /\ u = q * v + r /\ r \in 0..k
      BY <3>r
    <3>2. Good(v, r)
      <4> HIDE DEF Good
      <4> QED BY <1>3, <3>v, <3>1
    <3>3. PICK g \in Nat : g = gcd[r][v] /\ g # 0 /\ gcd[v][u] = g
      <4>1. gcd[v][u] = gcd[r][v]
        BY <3>v, <3>r, GcdIs
      <4>2. v + r # 0
        BY <2>2, <3>1
      <4> QED BY <3>2, <4>1, <4>2
    <3>4. PICK a \in Nat : v = a * g
      BY <3>2, <3>3 DEF Divided2
    <3>5. PICK b \in Nat : r = b * g
      BY <3>2, <3>3 DEF Divided2
    <3>6. u = (q * a + b) * g /\ q * a + b \in Nat
      BY <3>1, <3>4, <3>5
    <3>7. Divided2(g, u) /\ Divided2(g, v)
      BY <3>4, <3>6 DEF Divided2
    <3> QED BY <3>3, <3>7
  <2> QED BY <2>1, <2>2
<1>4. Good(x, y)
  <2> HIDE DEF T, Good
  <2>1. y \in T
    BY <1>2, <1>3, NatSetInduction
  <2>2. y \in 0..y
    OBVIOUS
  <2> QED BY <2>1, <2>2 DEF T
<1>5. PICK g \in Nat \ {0} : g = gcd[y][x]
  BY <1>4
<1>6. PICK a \in Nat : x = a * g
  BY <1>4, <1>5 DEF Divided2
<1>7. PICK b \in Nat : y = b * g
  BY <1>4, <1>5 DEF Divided2
<1>8. b # 0
  BY <1>7
<1> QED BY <1>5, <1>6, <1>7, <1>8

\* A fraction in lowest terms.
IsFrac(f) == f.n \in Nat /\ f.d \in Nat \ {0}

\* Frac reduces to one.
LEMMA FracIs ==
    ASSUME NEW n \in Nat, NEW d \in Nat \ {0}
    PROVE  /\ IsFrac(Frac(n, d))
           /\ \E g \in Nat \ {0} : n = g * Frac(n, d).n /\ d = g * Frac(n, d).d
<1>1. PICK g \in Nat \ {0} : g = gcd[d][n]
  BY GcdDivides
<1>2. PICK a \in Nat : n = a * g
  BY <1>1, GcdDivides
<1>3. PICK b \in Nat \ {0} : d = b * g
  BY <1>1, GcdDivides
<1>4. n \div g = a
  BY <1>2, Z3
<1>5. d \div g = b
  BY <1>3, Z3
<1>6. Frac(n, d) = [n |-> a, d |-> b]
  BY <1>1, <1>4, <1>5, Zenon DEF Frac
<1>7. Frac(n, d).n = a /\ Frac(n, d).d = b
  BY <1>6
<1>8. n = g * a /\ d = g * b
  BY <1>2, <1>3
<1> QED BY <1>7, <1>8 DEF IsFrac

-----------------------------------------------------------------------------
(* The EMA as a weighted sum *)

\* Induction as far as n.
LEMMA InductionUpTo ==
    ASSUME NEW n \in Nat, NEW T, 0 \in T, \A i \in 0..(n - 1) : i \in T => i + 1 \in T
    PROVE  \A i \in 0..n : i \in T
<1> DEFINE U == {i \in Nat : i <= n => i \in T}
<1>1. 0 \in U
  OBVIOUS
<1>2. ASSUME NEW i \in Nat, i \in U PROVE i + 1 \in U
  <2> SUFFICES ASSUME i + 1 <= n PROVE i + 1 \in T
    OBVIOUS
  <2>1. i \in 0..(n - 1) /\ i \in T
    BY <1>2
  <2> QED BY <2>1
<1>3. \A i \in Nat : i \in U
  <2> HIDE DEF U
  <2> QED BY <1>1, <1>2, NatSetInduction
<1> QED BY <1>3

\* s holds what a fold has after each element of q.
Follows(k, d, q, b, s) ==
    /\ s[0] = b
    /\ \A i \in Nat : i < Len(q) => s[i + 1] = Gathered(k, d, q[i + 1], s[i])

\* Such an s ends with what the fold gives.
LEMMA PlainFolds ==
    ASSUME NEW k \in Plain, NEW d, NEW q, Sequence(q), NEW b
    PROVE  \E s : Follows(k, d, q, b, s) /\ FoldOf(k, d, q, b) = s[Len(q)]
<1>1. PICK n \in Nat : n = Len(q) /\ DOMAIN q = 1..n
  BY SequenceIs
<1>2. PICK g : FoldOf(k, d, q, b) = g[1..n] /\ StepByStep(k, d, q, b, n, g)
  BY <1>1, FromTheLeft
<1>3. PICK s : s = [i \in 0..n |-> g[1..i]]
  OBVIOUS
<1>4. s[0] = b /\ s[n] = g[1..n]
  <2>1. 0 \in 0..n /\ n \in 0..n
    OBVIOUS
  <2>2. g[1..0] = b
    BY <1>2 DEF StepByStep
  <2> QED BY <1>3, <2>1, <2>2
<1>5. ASSUME NEW i \in Nat, i < n PROVE s[i + 1] = Gathered(k, d, q[i + 1], s[i])
  <2>1. i \in Nat /\ i + 1 <= n /\ i \in 0..n /\ i + 1 \in 0..n
    BY <1>1, <1>5
  <2>2. g[1..(i + 1)] = Combine(k, d, q[i + 1], g[1..i])
    BY <1>2, <2>1 DEF StepByStep
  <2>3. s[i] = g[1..i] /\ s[i + 1] = g[1..(i + 1)]
    BY <1>3, <2>1
  <2>4. Combine(k, d, q[i + 1], g[1..i]) = Gathered(k, d, q[i + 1], g[1..i])
    BY Zenon DEF Combine
  <2> QED BY <2>2, <2>3, <2>4, Zenon
<1> QED BY <1>1, <1>2, <1>4, <1>5 DEF Follows

\* The sums of the first elements, and the last of them.
LEMMA TotalFollows ==
    ASSUME NEW v, Sequence(v)
    PROVE  \E s : /\ s[0] = 0 /\ Total(v) = s[Len(v)]
                  /\ \A i \in Nat : i < Len(v) => s[i + 1] = s[i] + v[i + 1]
<1>1. PICK s : Follows("sum", 0, v, 0, s) /\ FoldOf("sum", 0, v, 0) = s[Len(v)]
  <2>1. "sum" \in Plain
    BY DEF Plain
  <2> QED BY <2>1, PlainFolds
<1> QED BY <1>1, TotalIs DEF Follows, Gathered

\* A power is a fold.
LEMMA PowerIs ==
    ASSUME NEW x, NEW m \in Nat
    PROVE  Power(x, m) = FoldOf("times", x, [i \in 1..m |-> i], 1)
<1> DEFINE v == [i \in 1..m |-> i]
           Eq(g) == g = [t \in SUBSET DOMAIN v |->
                           IF t = {} THEN 1 ELSE g[t \ {Max(t)}] * x]
<1>1. \A g : Eq(g) <=> Folding("times", x, v, 1, DOMAIN v, g)
  BY DEF Folding, Combine, Gathered, Plain
<1>2. Power(x, m) = (CHOOSE g : Eq(g))[DOMAIN v]
  BY DEF Power, FoldLeft, MapThenFoldSet
<1> HIDE DEF Eq
<1>3. (CHOOSE g : Eq(g)) = CHOOSE g : Folding("times", x, v, 1, DOMAIN v, g)
  BY <1>1
<1> QED BY <1>2, <1>3 DEF FoldOf

\* What the powers up to m are.
LEMMA PowersUpTo ==
    ASSUME NEW x \in Int, NEW m \in Nat
    PROVE  \E s : /\ s[0] = 1 /\ Power(x, m) = s[m]
                  /\ \A i \in Nat : i < m => s[i + 1] = s[i] * x
<1>1. PICK q : q = [i \in 1..m |-> i]
  OBVIOUS
<1>2. Sequence(q) /\ Len(q) = m
  <2>1. q = [i \in 1..m |-> q[i]]
    BY <1>1
  <2> QED BY <2>1, Listed
<1>3. "times" \in Plain
  BY DEF Plain
<1>4. PICK s : Follows("times", x, q, 1, s) /\ FoldOf("times", x, q, 1) = s[m]
  BY <1>2, <1>3, PlainFolds
<1>5. Power(x, m) = s[m]
  BY <1>1, <1>4, PowerIs
<1> QED BY <1>2, <1>4, <1>5 DEF Follows, Gathered

\* The powers of a number.
LEMMA PowersAre ==
    ASSUME NEW x \in Int, NEW m \in Nat
    PROVE  Power(x, 0) = 1 /\ Power(x, m) \in Int /\ Power(x, m + 1) = Power(x, m) * x
<1>1. Power(x, 0) = 1
  BY PowersUpTo
<1>2. PICK s : /\ s[0] = 1 /\ Power(x, m) = s[m]
               /\ \A i \in Nat : i < m => s[i + 1] = s[i] * x
  BY PowersUpTo
<1>3. PICK t : /\ t[0] = 1 /\ Power(x, m + 1) = t[m + 1]
               /\ \A i \in Nat : i < m + 1 => t[i + 1] = t[i] * x
  <2>1. m + 1 \in Nat
    OBVIOUS
  <2> QED BY <2>1, PowersUpTo
<1> DEFINE T == {i \in 0..m : s[i] = t[i] /\ s[i] \in Int}
<1>4. 0 \in T
  BY <1>2, <1>3
<1>5. ASSUME NEW i \in 0..(m - 1), i \in T PROVE i + 1 \in T
  <2>1. i \in 0..m /\ i + 1 \in 0..m
    OBVIOUS
  <2>2. s[i + 1] = s[i] * x /\ t[i + 1] = s[i] * x /\ s[i] \in Int
    BY <1>2, <1>3, <1>5, <2>1
  <2> QED BY <2>1, <2>2
<1>6. m \in T
  <2> HIDE DEF T
  <2>1. m \in 0..m
    OBVIOUS
  <2> QED BY <1>4, <1>5, <2>1, InductionUpTo
<1>7. t[m + 1] = t[m] * x
  <2>1. m \in 0..m
    OBVIOUS
  <2> QED BY <1>3, <2>1
<1>8. PICK p \in Int : p = s[m] /\ p = t[m]
  BY <1>6
<1>9. Power(x, m) = p /\ Power(x, m + 1) = p * x
  BY <1>2, <1>3, <1>7, <1>8, Zenon
<1> QED BY <1>1, <1>8, <1>9

\* A sum times a, and one more summand.
LEMMA TotalGrows ==
    ASSUME NEW v, Sequence(v), NEW w, Sequence(w), Len(w) = Len(v) + 1, NEW a \in Int,
           \A i \in 1..Len(v) : v[i] \in Int /\ w[i] = a * v[i], w[Len(w)] \in Int
    PROVE  Total(v) \in Int /\ Total(w) = a * Total(v) + w[Len(w)]
<1>1. PICK n \in Nat : n = Len(v)
  BY SequenceIs
<1>2. PICK s : /\ s[0] = 0 /\ Total(v) = s[n]
               /\ \A i \in Nat : i < n => s[i + 1] = s[i] + v[i + 1]
  BY <1>1, TotalFollows
<1>3. PICK t : /\ t[0] = 0 /\ Total(w) = t[n + 1]
               /\ \A i \in Nat : i < n + 1 => t[i + 1] = t[i] + w[i + 1]
  <2>1. Len(w) = n + 1
    BY <1>1
  <2>2. PICK t : /\ t[0] = 0 /\ Total(w) = t[Len(w)]
                 /\ \A i \in Nat : i < Len(w) => t[i + 1] = t[i] + w[i + 1]
    BY TotalFollows
  <2> QED BY <2>1, <2>2
<1> DEFINE T == {i \in 0..n : s[i] \in Int /\ t[i] = a * s[i]}
<1>4. 0 \in T
  BY <1>2, <1>3
<1>5. ASSUME NEW i \in 0..(n - 1), i \in T PROVE i + 1 \in T
  <2>1. i \in 0..n /\ i + 1 \in 1..n /\ i + 1 \in 0..n
    OBVIOUS
  <2>2. PICK x \in Int, y \in Int : x = s[i] /\ y = v[i + 1] /\ w[i + 1] = a * y /\ t[i] = a * x
    BY <1>1, <1>5, <2>1
  <2>3. s[i + 1] = x + y /\ t[i + 1] = a * x + a * y
    BY <1>2, <1>3, <2>1, <2>2
  <2>4. a * x + a * y = a * (x + y)
    OBVIOUS
  <2> QED BY <2>1, <2>3, <2>4
<1>6. n \in T
  <2> HIDE DEF T
  <2>1. n \in 0..n
    OBVIOUS
  <2> QED BY <1>4, <1>5, <2>1, InductionUpTo
<1>7. t[n + 1] = t[n] + w[n + 1]
  <2>1. n \in 0..n
    OBVIOUS
  <2> QED BY <1>3, <2>1
<1>8. PICK x \in Int : x = s[n] /\ t[n] = a * x
  BY <1>6
<1> QED BY <1>1, <1>2, <1>3, <1>7, <1>8

\* A step of the recursion, multiplied out: p and q are powers of n + 1 and of n - 1.
LEMMA MultipliedOut ==
    ASSUME NEW n \in Int, NEW p \in Int, NEW q \in Int, NEW e \in Int, NEW d \in Int, NEW b \in Int,
           NEW s \in Int, NEW v \in Int, d * (n + 1) = 2 * v + (n - 1) * e, p * e = q * b + s
    PROVE  (p * (n + 1)) * d = (q * (n - 1)) * b + ((n - 1) * s + 2 * 1 * p * v)
<1>1. (p * (n + 1)) * d = p * (d * (n + 1))
  OBVIOUS
<1>2. p * (2 * v + (n - 1) * e) = 2 * 1 * p * v + (n - 1) * (p * e)
  OBVIOUS
<1>3. (n - 1) * (q * b + s) = (q * (n - 1)) * b + (n - 1) * s
  OBVIOUS
<1>4. PICK y \in Int : y = (n - 1) * (p * e)
  OBVIOUS
<1>5. (p * (n + 1)) * d = 2 * 1 * p * v + y
  BY <1>1, <1>2, <1>4
<1>6. y = (q * (n - 1)) * b + (n - 1) * s
  BY <1>3, <1>4
<1> QED BY <1>5, <1>6

\* The summand of WeightedSum for the i-th element after the seed, m elements after it.
Weighted(v, n, m) ==
    [i \in 1..m |-> 2 * Power(n - 1, m - i) * Power(n + 1, i - 1) * v[n + i]]

\* The recursion of the EMA comes to a weighted sum.
LEMMA EMAIsWeighted ==
    ASSUME NEW n \in Nat \ {0}, NEW v, Sequence(v), n <= Len(v), \A i \in 1..Len(v) : v[i] \in Int,
           NEW e, EMAOf(v, n, e), \A i \in 1..Len(e) : e[i] \in Int
    PROVE  Power(n + 1, Len(v) - n) * Latest(e) = WeightedSum(v, n)
<1>1. PICK M \in Nat : M = Len(v) - n /\ Len(e) = M + 1
  <2>1. PICK l \in Nat : l = Len(v)
    BY SequenceIs
  <2>2. Len(e) = l - n + 1
    BY <2>1 DEF EMAOf
  <2>5. l - n \in Nat
    BY <2>1
  <2>3. PICK m \in Nat : m = l - n
    BY <2>5, Zenon
  <2>4. Len(e) = m + 1 /\ m = Len(v) - n
    BY <2>1, <2>2, <2>3
  <2> QED BY <2>4, Zenon
<1>2. /\ \A i \in 0..M : e[i + 1] \in Int
      /\ \A i \in 1..M : n + i \in 1..Len(v) /\ v[n + i] \in Int
      /\ \A i \in 1..M : e[i + 1] * (n + 1) = 2 * v[n + i] + (n - 1) * e[i]
  <2>1. \A i \in 0..M : i + 1 \in 1..Len(e)
    BY <1>1
  <2>2. \A i \in 1..M : n + i \in 1..Len(v)
    BY <1>1
  <2> QED BY <1>1, <2>1, <2>2 DEF EMAOf
<1>3. PICK b \in Int : b = e[1] /\ b = Over(Total(SubSeq(v, 1, n)), n)
  <2>1. PICK x \in Int : x = e[1]
    <3>1. 0 \in 0..M /\ 0 + 1 = 1
      OBVIOUS
    <3> QED BY <1>2, <3>1
  <2>2. x * n = Total(SubSeq(v, 1, n))
    BY <2>1 DEF EMAOf
  <2> QED BY <2>1, <2>2, OverIs
<1>4. PICK A \in Int, N \in Int : A = n - 1 /\ N = n + 1
  OBVIOUS
<1> DEFINE W(m) == Weighted(v, n, m)
           T == {m \in 0..M : /\ Total(W(m)) \in Int
                              /\ Power(N, m) * e[m + 1] = Power(A, m) * b + Total(W(m))}
<1>5. ASSUME NEW m \in 0..M
      PROVE  /\ Sequence(W(m)) /\ Len(W(m)) = m
             /\ \A i \in 1..m : /\ W(m)[i] = 2 * Power(A, m - i) * Power(N, i - 1) * v[n + i]
                                /\ W(m)[i] \in Int
  <2>1. PICK f : f = W(m)
    OBVIOUS
  <2>2. f = [i \in 1..m |-> f[i]]
    BY <2>1 DEF Weighted
  <2>3. \A i \in 1..m : f[i] = 2 * Power(A, m - i) * Power(N, i - 1) * v[n + i]
    BY <1>4, <2>1 DEF Weighted
  <2>4. ASSUME NEW i \in 1..m PROVE f[i] \in Int
    <3>1. m - i \in Nat /\ i - 1 \in Nat /\ i \in 1..M
      OBVIOUS
    <3>3. Power(A, m - i) \in Int /\ Power(N, i - 1) \in Int
      BY <3>1, PowersAre
    <3>4. v[n + i] \in Int
      BY <1>2, <3>1
    <3>2. PICK x \in Int, y \in Int, z \in Int : x = Power(A, m - i) /\ y = Power(N, i - 1) /\ z = v[n + i]
      BY <3>3, <3>4, Zenon
    <3>5. f[i] = 2 * x * y * z
      BY <2>3, <3>2, Zenon
    <3>6. 2 * x * y * z \in Int
      OBVIOUS
    <3> QED BY <3>5, <3>6
  <2>5. Sequence(f) /\ Len(f) = m
    BY <2>2, Listed
  <2> QED BY <2>1, <2>3, <2>4, <2>5
<1>6. 0 \in T
  <2>1. PICK w : w = W(0)
    OBVIOUS
  <2>2. Sequence(w) /\ Len(w) = 0 /\ 0 \in 0..M
    BY <1>5, <2>1
  <2>3. Total(w) = 0
    BY <2>2, TotalFollows
  <2>4. Power(N, 0) = 1 /\ Power(A, 0) = 1 /\ e[0 + 1] = b
    <3>1. Power(N, 0) = 1 /\ Power(A, 0) = 1
      <4>1. 0 \in Nat
        OBVIOUS
      <4> QED BY <4>1, PowersAre
    <3>2. 0 + 1 = 1
      OBVIOUS
    <3> QED BY <1>3, <3>1, <3>2
  <2>5. 1 * b = 1 * b + 0
    OBVIOUS
  <2> QED BY <2>1, <2>2, <2>3, <2>4, <2>5
<1>7. ASSUME NEW m \in 0..(M - 1), m \in T PROVE m + 1 \in T
  <2>1. m \in 0..M /\ m + 1 \in 0..M /\ m + 1 \in 1..M /\ m \in Nat /\ m + 1 - (m + 1) = 0 /\ m + 1 - 1 = m
    OBVIOUS
  <2>2. PICK x, w : x = W(m) /\ w = W(m + 1)
    OBVIOUS
  <2>3. /\ Sequence(x) /\ Len(x) = m /\ Sequence(w) /\ Len(w) = m + 1
        /\ \A i \in 1..m : /\ x[i] = 2 * Power(A, m - i) * Power(N, i - 1) * v[n + i]
                           /\ x[i] \in Int
        /\ \A i \in 1..(m + 1) : /\ w[i] = 2 * Power(A, m + 1 - i) * Power(N, i - 1) * v[n + i]
                                 /\ w[i] \in Int
    <3> HIDE DEF W
    <3>1. /\ Sequence(x) /\ Len(x) = m
          /\ \A i \in 1..m : /\ x[i] = 2 * Power(A, m - i) * Power(N, i - 1) * v[n + i]
                             /\ x[i] \in Int
      BY <1>5, <2>1, <2>2
    <3>2. PICK h \in 0..M : h = m + 1
      BY <2>1
    <3>3. /\ Sequence(w) /\ Len(w) = h
          /\ \A i \in 1..h : /\ w[i] = 2 * Power(A, h - i) * Power(N, i - 1) * v[n + i]
                             /\ w[i] \in Int
      BY <1>5, <2>2, <3>2
    <3> QED BY <3>1, <3>2, <3>3
  <2>4. ASSUME NEW i \in 1..m PROVE w[i] = A * x[i]
    <3>1. m - i \in Nat /\ i - 1 \in Nat /\ i \in 1..M /\ i \in 1..(m + 1) /\ m - i + 1 = m + 1 - i
      BY <2>1
    <3>2. PICK p \in Int, y \in Int, z \in Int : p = Power(A, m - i) /\ y = Power(N, i - 1) /\ z = v[n + i]
      BY <1>2, <3>1, PowersAre
    <3>3. Power(A, m + 1 - i) = p * A
      <4>1. Power(A, m - i + 1) = p * A
        BY <3>1, <3>2, PowersAre
      <4> QED BY <3>1, <4>1, Zenon
    <3>4. w[i] = 2 * (p * A) * y * z /\ x[i] = 2 * p * y * z
      BY <2>3, <3>1, <3>2, <3>3
    <3>5. 2 * (p * A) * y * z = A * (2 * p * y * z)
      OBVIOUS
    <3> QED BY <3>4, <3>5
  <2>5. PICK p \in Int, q \in Int, z \in Int, d \in Int, c \in Int, s \in Int :
          /\ p = Power(N, m) /\ q = Power(A, m) /\ z = v[n + (m + 1)] /\ d = e[m + 1 + 1] /\ c = e[m + 1]
          /\ s = Total(x)
    BY <1>2, <1>7, <2>1, <2>2, PowersAre
  <2>6. Power(N, m + 1) = p * N /\ Power(A, m + 1) = q * A
    BY <2>1, <2>5, PowersAre
  <2>7. w[m + 1] = 2 * 1 * p * z /\ w[m + 1] \in Int
    <3>1. Power(A, 0) = 1
      BY PowersAre
    <3>2. w[m + 1] = 2 * Power(A, m + 1 - (m + 1)) * Power(N, m + 1 - 1) * v[n + (m + 1)]
      BY <2>1, <2>3
    <3>3. w[m + 1] = 2 * 1 * p * z
      BY <2>1, <2>5, <3>1, <3>2, Zenon
    <3> QED BY <2>1, <2>3, <3>3
  <2>8. Total(w) = A * s + 2 * 1 * p * z /\ s \in Int
    <3>1. /\ Len(w) = Len(x) + 1 /\ w[Len(w)] \in Int /\ w[Len(w)] = 2 * 1 * p * z
          /\ \A i \in 1..Len(x) : x[i] \in Int /\ w[i] = A * x[i]
      BY <2>3, <2>4, <2>7
    <3>2. Total(x) \in Int /\ Total(w) = A * Total(x) + w[Len(w)]
      BY <2>3, <3>1, TotalGrows
    <3> QED BY <2>5, <3>1, <3>2
  <2>9. d * (n + 1) = 2 * z + (n - 1) * c
    BY <1>2, <2>1, <2>5
  <2>10. p * c = q * b + s
    BY <1>7, <2>2, <2>5
  <2>11. (p * N) * d = (q * A) * b + (A * s + 2 * 1 * p * z)
    BY <1>4, <2>9, <2>10, MultipliedOut
  <2>12. Power(N, m + 1) * e[m + 1 + 1] = Power(A, m + 1) * b + Total(w)
    BY <2>5, <2>6, <2>8, <2>11, Zenon
  <2>13. Total(w) \in Int
    BY <2>8
  <2> QED BY <2>1, <2>2, <2>12, <2>13
<1>8. M \in T
  <2> HIDE DEF T
  <2>1. M \in 0..M
    OBVIOUS
  <2> QED BY <1>6, <1>7, <2>1, InductionUpTo
<1>9. Latest(e) = e[M + 1]
  BY <1>1 DEF Latest
<1>10. WeightedSum(v, n) = Power(A, M) * b + Total(W(M))
  BY <1>1, <1>3, <1>4, Zenon DEF WeightedSum, Weighted
<1> QED BY <1>1, <1>4, <1>8, <1>9, <1>10, Zenon

-----------------------------------------------------------------------------
(* What fractions come to *)

\* f is n / d.
Equals(f, n, d) == IsFrac(f) /\ f.n * d = n * f.d

\* A positive factor can be dropped.
LEMMA Cancelled ==
    ASSUME NEW g \in Nat \ {0}, NEW x \in Int, NEW y \in Int
    PROVE  (g * x = g * y => x = y) /\ (g * x <= g * y => x <= y)
<1>1. ASSUME x < y PROVE g * x < g * y
  BY <1>1
<1>2. ASSUME y < x PROVE g * y < g * x
  BY <1>2
<1>3. PICK u \in Int, v \in Int : u = g * x /\ v = g * y
  OBVIOUS
<1> QED BY <1>1, <1>2, <1>3

\* Frac is n / d.
LEMMA FracEquals ==
    ASSUME NEW n \in Nat, NEW d \in Nat \ {0}
    PROVE  Equals(Frac(n, d), n, d)
<1>1. PICK f : f = Frac(n, d)
  OBVIOUS
<1>2. IsFrac(f) /\ \E g \in Nat \ {0} : n = g * f.n /\ d = g * f.d
  BY <1>1, FracIs
<1>3. PICK a \in Nat, b \in Nat : a = f.n /\ b = f.d
  BY <1>2 DEF IsFrac
<1>4. PICK g \in Nat \ {0} : n = g * a /\ d = g * b
  BY <1>2, <1>3
<1>5. a * (g * b) = (g * a) * b
  OBVIOUS
<1>6. a * d = n * b
  BY <1>4, <1>5
<1> QED BY <1>1, <1>2, <1>3, <1>6 DEF Equals

\* The same with a factor left out.
LEMMA EqualsReduced ==
    ASSUME NEW f, NEW g \in Nat \ {0}, NEW n \in Int, NEW d \in Int, Equals(f, n, d), NEW m \in Int, NEW e \in Int
    PROVE  (m = g * n /\ e = g * d => Equals(f, m, e)) /\ (n = g * m /\ d = g * e => Equals(f, m, e))
<1>1. PICK a \in Nat, b \in Nat : a = f.n /\ b = f.d /\ a * d = n * b
  BY DEF Equals, IsFrac
<1>2. ASSUME m = g * n, e = g * d PROVE a * e = m * b
  <2>1. a * (g * d) = g * (a * d) /\ (g * n) * b = g * (n * b)
    OBVIOUS
  <2> QED BY <1>1, <1>2, <2>1
<1>3. ASSUME n = g * m, d = g * e PROVE a * e = m * b
  <2>1. a * (g * e) = g * (a * e) /\ (g * m) * b = g * (m * b)
    OBVIOUS
  <2>2. PICK x \in Int, y \in Int : x = a * e /\ y = m * b
    OBVIOUS
  <2>3. g * x = g * y
    BY <1>1, <1>3, <2>1, <2>2
  <2>4. x = y
    BY <2>3, Cancelled
  <2> QED BY <2>2, <2>4
<1> QED BY <1>1, <1>2, <1>3 DEF Equals

\* A number between 0 and k.
Bounded(f, k) == IsFrac(f) /\ f.n <= k * f.d

\* ... whatever number stands for the fraction.
LEMMA EqualsBounded ==
    ASSUME NEW f, NEW n \in Nat, NEW d \in Nat \ {0}, Equals(f, n, d), NEW k \in Nat
    PROVE  Bounded(f, k) <=> n <= k * d
<1>1. PICK a \in Nat, b \in Nat \ {0} : a = f.n /\ b = f.d /\ a * d = n * b
  BY DEF Equals, IsFrac
<1>2. ASSUME n <= k * d PROVE a <= k * b
  <2>1. b * n <= b * (k * d)
    BY <1>2, Monotone
  <2>2. b * n = d * a /\ b * (k * d) = d * (k * b)
    BY <1>1
  <2>3. PICK y \in Int : y = k * b
    OBVIOUS
  <2>4. d * a <= d * y
    BY <2>1, <2>2, <2>3
  <2> QED BY <2>3, <2>4, Cancelled
<1>3. ASSUME a <= k * b PROVE n <= k * d
  <2>1. d * a <= d * (k * b)
    BY <1>3, Monotone
  <2>2. d * a = b * n /\ d * (k * b) = b * (k * d)
    BY <1>1
  <2>3. PICK y \in Int : y = k * d
    OBVIOUS
  <2>4. b * n <= b * y
    BY <2>1, <2>2, <2>3
  <2> QED BY <2>3, <2>4, Cancelled
<1> QED BY <1>1, <1>2, <1>3 DEF Bounded, Equals

\* A whole number.
LEMMA WholeFrac ==
    ASSUME NEW m \in Nat
    PROVE  IsFrac(Frac(m, 1)) /\ Frac(m, 1).n = m /\ Frac(m, 1).d = 1
<1>1. PICK f : f = Frac(m, 1)
  OBVIOUS
<1>2. IsFrac(f) /\ \E g \in Nat \ {0} : m = g * f.n /\ 1 = g * f.d
  <2>1. 1 \in Nat \ {0}
    OBVIOUS
  <2> QED BY <1>1, <2>1, FracIs
<1>3. PICK a \in Nat, b \in Nat \ {0} : a = f.n /\ b = f.d
  BY <1>2 DEF IsFrac
<1>4. PICK g \in Nat \ {0} : m = g * a /\ 1 = g * b
  BY <1>2, <1>3
<1>5. g = 1 /\ b = 1
  <2>1. ASSUME g >= 2 PROVE g * b >= 2
    BY <2>1
  <2>2. ASSUME b >= 2 PROVE g * b >= 2
    BY <2>2
  <2> QED BY <1>4, <2>1, <2>2
<1> QED BY <1>1, <1>2, <1>3, <1>4, <1>5

\* The parts of two denominators.
Parts(a, b, g, x, y) ==
    /\ g = gcd[b][a] /\ a = x * g /\ b = y * g
    /\ a \div g = x /\ b \div g = y

LEMMA Denominators ==
    ASSUME NEW a \in Nat \ {0}, NEW b \in Nat \ {0}
    PROVE  \E g, x, y \in Nat \ {0} : Parts(a, b, g, x, y)
<1>1. PICK g \in Nat \ {0} : g = gcd[b][a]
  BY GcdDivides
<1>2. PICK x \in Nat : a = x * g
  BY <1>1, GcdDivides
<1>3. PICK y \in Nat : b = y * g
  BY <1>1, GcdDivides
<1>4. x \in Nat \ {0} /\ y \in Nat \ {0}
  BY <1>2, <1>3
<1>5. a \div g = x
  BY <1>2, Z3
<1>6. b \div g = y
  BY <1>3, Z3
<1>7. Parts(a, b, g, x, y)
  BY <1>1, <1>2, <1>3, <1>5, <1>6, Zenon DEF Parts
<1> QED BY <1>4, <1>7

\* A sum.
LEMMA PlusEquals ==
    ASSUME NEW a, NEW b, IsFrac(a), IsFrac(b)
    PROVE  /\ Equals(Plus(a, b), a.n * b.d + b.n * a.d, a.d * b.d)
           /\ a.n * b.d + b.n * a.d \in Nat /\ a.d * b.d \in Nat \ {0}
<1>1. PICK n \in Nat, m \in Nat, d \in Nat \ {0}, e \in Nat \ {0} : n = a.n /\ m = b.n /\ d = a.d /\ e = b.d
  BY DEF IsFrac
<1>0. PICK g \in Nat \ {0}, x \in Nat \ {0}, y \in Nat \ {0} : Parts(d, e, g, x, y)
  BY Denominators
<1>2. g = gcd[e][d] /\ d = x * g /\ e = y * g /\ d \div g = x /\ e \div g = y
  BY <1>0, Zenon DEF Parts
<1>3. Plus(a, b) = Frac(n * y + m * x, d * y)
  <2>1. gcd[b.d][a.d] = g
    BY <1>1, <1>2, Zenon
  <2>2. b.d \div g = y /\ a.d \div g = x
    BY <1>1, <1>2, Zenon
  <2>3. Plus(a, b) = Frac(a.n * (b.d \div g) + b.n * (a.d \div g), a.d * (b.d \div g))
    BY <2>1, Zenon DEF Plus
  <2> QED BY <1>1, <2>2, <2>3, Zenon
<1>4. PICK p \in Nat, q \in Nat \ {0} : p = n * y + m * x /\ q = d * y
  OBVIOUS
<1>5. Equals(Plus(a, b), p, q)
  BY <1>3, <1>4, FracEquals
<1>6. n * e + m * d = g * p /\ d * e = g * q
  <2>1. n * (y * g) + m * (x * g) = g * (n * y + m * x)
    OBVIOUS
  <2>2. d * (y * g) = g * (d * y)
    OBVIOUS
  <2> QED BY <1>2, <1>4, <2>1, <2>2
<1>7. n * e + m * d \in Nat /\ d * e \in Nat \ {0}
  OBVIOUS
<1>8. PICK s \in Nat, t \in Nat \ {0} : s = n * e + m * d /\ t = d * e
  BY <1>7
<1>9. Equals(Plus(a, b), s, t)
  BY <1>5, <1>6, <1>8, EqualsReduced
<1> QED BY <1>1, <1>8, <1>9

\* A difference.
LEMMA MinusEquals ==
    ASSUME NEW a, NEW b, IsFrac(a), IsFrac(b), b.n * a.d <= a.n * b.d
    PROVE  /\ Equals(Minus(a, b), a.n * b.d - b.n * a.d, a.d * b.d)
           /\ a.n * b.d - b.n * a.d \in Nat /\ a.d * b.d \in Nat \ {0}
<1>1. PICK n \in Nat, m \in Nat, d \in Nat \ {0}, e \in Nat \ {0} : n = a.n /\ m = b.n /\ d = a.d /\ e = b.d
  BY DEF IsFrac
<1>0. PICK g \in Nat \ {0}, x \in Nat \ {0}, y \in Nat \ {0} : Parts(d, e, g, x, y)
  BY Denominators
<1>2. g = gcd[e][d] /\ d = x * g /\ e = y * g /\ d \div g = x /\ e \div g = y
  BY <1>0, Zenon DEF Parts
<1>3. Minus(a, b) = Frac(n * y - m * x, d * y)
  <2>1. gcd[b.d][a.d] = g
    BY <1>1, <1>2, Zenon
  <2>2. b.d \div g = y /\ a.d \div g = x
    BY <1>1, <1>2, Zenon
  <2>3. Minus(a, b) = Frac(a.n * (b.d \div g) - b.n * (a.d \div g), a.d * (b.d \div g))
    BY <2>1, Zenon DEF Minus
  <2> QED BY <1>1, <2>2, <2>3, Zenon
<1>4. PICK p \in Int, q \in Nat \ {0} : p = n * y - m * x /\ q = d * y
  OBVIOUS
<1>6. n * e - m * d = g * p /\ d * e = g * q
  <2>1. n * (y * g) - m * (x * g) = g * (n * y - m * x)
    OBVIOUS
  <2>2. d * (y * g) = g * (d * y)
    OBVIOUS
  <2> QED BY <1>2, <1>4, <2>1, <2>2
<1>7. n * e - m * d \in Nat /\ d * e \in Nat \ {0}
  BY <1>1
<1>8. PICK s \in Nat, t \in Nat \ {0} : s = n * e - m * d /\ t = d * e
  BY <1>7
<1>10. p \in Nat
  <2>1. p * g \in Nat
    BY <1>6, <1>8
  <2> QED BY <2>1, NotNegative
<1>5. Equals(Minus(a, b), p, q)
  BY <1>3, <1>4, <1>10, FracEquals
<1>9. Equals(Minus(a, b), s, t)
  BY <1>5, <1>6, <1>8, EqualsReduced
<1> QED BY <1>1, <1>8, <1>9

\* A product and a quotient.
LEMMA TimesEquals ==
    ASSUME NEW a, IsFrac(a), NEW k \in Nat
    PROVE  Equals(Times(a, k), a.n * k, a.d)
BY FracEquals DEF Times, IsFrac

\* A quotient, if it is not one by zero.
LEMMA DividedEquals ==
    ASSUME NEW a, NEW b, IsFrac(a), IsFrac(b), b.n # 0
    PROVE  /\ Equals(Divided(a, b), a.n * b.d, a.d * b.n)
           /\ a.n * b.d \in Nat /\ a.d * b.n \in Nat \ {0}
<1>1. a.n * b.d \in Nat /\ a.d * b.n \in Nat \ {0}
  BY DEF IsFrac
<1> QED BY <1>1, FracEquals DEF Divided

\* What bounds come to.
LEMMA PlusBounded ==
    ASSUME NEW a, NEW b, NEW j \in Nat, NEW k \in Nat, Bounded(a, j), Bounded(b, k)
    PROVE  Bounded(Plus(a, b), j + k)
<1>1. PICK n \in Nat, m \in Nat, d \in Nat \ {0}, e \in Nat \ {0} : n = a.n /\ m = b.n /\ d = a.d /\ e = b.d
  BY DEF Bounded, IsFrac
<1>2. n <= j * d /\ m <= k * e
  BY <1>1 DEF Bounded
<1>3. PICK s \in Nat, t \in Nat \ {0} : /\ s = n * e + m * d /\ t = d * e
                                        /\ Equals(Plus(a, b), s, t)
  BY <1>1, PlusEquals DEF Bounded
<1>4. e * n <= e * (j * d) /\ d * m <= d * (k * e)
  BY <1>2, Monotone
<1>5. e * (j * d) = j * t /\ d * (k * e) = k * t
  BY <1>3
<1>6. s <= j * t + k * t
  BY <1>3, <1>4, <1>5
<1>7. j * t + k * t = (j + k) * t
  OBVIOUS
<1> QED BY <1>3, <1>6, <1>7, EqualsBounded

\* A multiple of a share.
LEMMA TimesBounded ==
    ASSUME NEW a, NEW k \in Nat, Bounded(a, 1)
    PROVE  Bounded(Times(a, k), k)
<1>1. PICK n \in Nat, d \in Nat \ {0} : n = a.n /\ d = a.d /\ n <= 1 * d
  BY DEF Bounded, IsFrac
<1>2. Equals(Times(a, k), n * k, d)
  BY <1>1, TimesEquals DEF Bounded
<1>3. k * n <= k * d
  BY <1>1
<1>4. PICK p \in Nat : p = n * k /\ p <= k * d
  BY <1>3
<1> QED BY <1>2, <1>4, EqualsBounded

\* A part of a sum of shares.
LEMMA DividedBounded ==
    ASSUME NEW a, NEW m \in Nat \ {0}, Bounded(a, m)
    PROVE  Bounded(Divided(a, Frac(m, 1)), 1)
<1>1. PICK n \in Nat, d \in Nat \ {0} : n = a.n /\ d = a.d /\ n <= m * d
  BY DEF Bounded, IsFrac
<1>2. Equals(Divided(a, Frac(m, 1)), n * 1, d * m)
  BY <1>1, DividedEquals, WholeFrac DEF Bounded
<1>3. PICK p \in Nat, q \in Nat \ {0} : p = n * 1 /\ q = d * m /\ p <= 1 * q
  BY <1>1
<1> QED BY <1>2, <1>3, EqualsBounded

-----------------------------------------------------------------------------
(* Oscillators stay within their range *)

\* A sum of fractions is a fold.
LEMMA SumIs ==
    ASSUME NEW v
    PROVE  FoldLeft(Plus, Zero, v) = FoldOf("plus", 0, v, Zero)
<1> DEFINE Eq(g) == g = [t \in SUBSET DOMAIN v |->
                           IF t = {} THEN Zero ELSE Plus(g[t \ {Max(t)}], v[Max(t)])]
<1>1. \A g : Eq(g) <=> Folding("plus", 0, v, Zero, DOMAIN v, g)
  BY DEF Folding, Combine, Gathered, Plain
<1>2. FoldLeft(Plus, Zero, v) = (CHOOSE g : Eq(g))[DOMAIN v]
  BY DEF FoldLeft, MapThenFoldSet
<1> HIDE DEF Eq
<1>3. (CHOOSE g : Eq(g)) = CHOOSE g : Folding("plus", 0, v, Zero, DOMAIN v, g)
  BY <1>1
<1> QED BY <1>2, <1>3 DEF FoldOf

\* Nothing is a share.
LEMMA ZeroAndOne ==
    /\ IsFrac(Zero) /\ Zero.n = 0 /\ Zero.d = 1 /\ Bounded(Zero, 0) /\ Bounded(Zero, 1)
    /\ IsFrac(One) /\ One.n = 1 /\ One.d = 1 /\ Bounded(One, 1)
<1>1. IsFrac(Zero) /\ Zero.n = 0 /\ Zero.d = 1
  BY WholeFrac DEF Zero
<1>2. IsFrac(One) /\ One.n = 1 /\ One.d = 1
  BY WholeFrac DEF One
<1> QED BY <1>1, <1>2 DEF Bounded

\* A list of numbers between 0 and 1.
Shares(v) == Sequence(v) /\ \A i \in 1..Len(v) : Bounded(v[i], 1)

\* A mean of them is one.
LEMMA MeanBounded ==
    ASSUME NEW v, Shares(v), Len(v) # 0
    PROVE  Bounded(Mean(v), 1)
<1>1. PICK n \in Nat \ {0} : n = Len(v) /\ Sequence(v)
  BY SequenceIs DEF Shares
<1>2. PICK s : Follows("plus", 0, v, Zero, s) /\ FoldOf("plus", 0, v, Zero) = s[n]
  <2>1. "plus" \in Plain
    BY DEF Plain
  <2> QED BY <1>1, <2>1, PlainFolds
<1>3. s[0] = Zero /\ \A i \in Nat : i < n => s[i + 1] = Plus(s[i], v[i + 1])
  BY <1>1, <1>2 DEF Follows, Gathered
<1> DEFINE T == {i \in 0..n : Bounded(s[i], i)}
<1>4. 0 \in T
  BY <1>3, ZeroAndOne
<1>5. ASSUME NEW i \in 0..(n - 1), i \in T PROVE i + 1 \in T
  <2>1. i \in Nat /\ i < n /\ i + 1 \in 0..n /\ i + 1 \in 1..n
    OBVIOUS
  <2>2. Bounded(s[i], i) /\ Bounded(v[i + 1], 1)
    BY <1>1, <1>5, <2>1 DEF Shares
  <2>3. Bounded(Plus(s[i], v[i + 1]), i + 1)
    BY <2>1, <2>2, PlusBounded
  <2>4. s[i + 1] = Plus(s[i], v[i + 1])
    BY <1>3, <2>1
  <2> QED BY <2>1, <2>3, <2>4
<1>6. n \in T
  <2> HIDE DEF T
  <2>1. n \in 0..n
    OBVIOUS
  <2> QED BY <1>4, <1>5, <2>1, InductionUpTo
<1>7. Mean(v) = Divided(s[n], Frac(n, 1))
  BY <1>1, <1>2, SumIs DEF Mean
<1> QED BY <1>6, <1>7, DividedBounded

\* a is not more than b.
AtMost(a, b) == ~Less(b, a)

\* The order of fractions.
LEMMA Ordered ==
    ASSUME NEW a, NEW b, NEW c, IsFrac(a), IsFrac(b), IsFrac(c)
    PROVE  /\ AtMost(a, a) /\ (Less(a, b) => AtMost(a, b))
           /\ AtMost(a, b) /\ AtMost(b, c) => AtMost(a, c)
           /\ Less(a, b) /\ AtMost(b, c) => Less(a, c)
           /\ AtMost(a, b) /\ Less(b, c) => Less(a, c)
<1>1. PICK x \in Nat, y \in Nat, z \in Nat, p \in Nat \ {0}, q \in Nat \ {0}, r \in Nat \ {0} :
         x = a.n /\ y = b.n /\ z = c.n /\ p = a.d /\ q = b.d /\ r = c.d
  BY DEF IsFrac
<1>2. /\ AtMost(a, b) <=> x * q <= y * p
      /\ Less(a, b) <=> x * q < y * p
      /\ AtMost(b, c) <=> y * r <= z * q
      /\ Less(b, c) <=> y * r < z * q
      /\ AtMost(a, c) <=> x * r <= z * p
      /\ Less(a, c) <=> x * r < z * p
  BY <1>1 DEF AtMost, Less
<1>3. AtMost(a, a)
  BY <1>1 DEF AtMost, Less
<1>4. PICK s \in Int, t \in Int : s = x * r /\ t = z * p
  OBVIOUS
<1>5. q * s = r * (x * q) /\ q * t = p * (z * q) /\ r * (y * p) = p * (y * r)
  BY <1>4
<1>6. ASSUME x * q <= y * p, y * r <= z * q PROVE s <= t
  <2>1. r * (x * q) <= r * (y * p) /\ p * (y * r) <= p * (z * q)
    BY <1>6, Monotone
  <2>2. q * s <= q * t
    BY <1>5, <2>1
  <2> QED BY <2>2, Cancelled
<1>7. ASSUME x * q < y * p, y * r <= z * q PROVE s < t
  <2>1. r * (x * q) < r * (y * p) /\ p * (y * r) <= p * (z * q)
    BY <1>7
  <2>2. ~(q * t <= q * s)
    BY <1>5, <2>1
  <2>3. t <= s => q * t <= q * s
    BY Monotone
  <2> QED BY <2>2, <2>3
<1>8. ASSUME x * q <= y * p, y * r < z * q PROVE s < t
  <2>1. r * (x * q) <= r * (y * p) /\ p * (y * r) < p * (z * q)
    BY <1>8
  <2>2. ~(q * t <= q * s)
    BY <1>5, <2>1
  <2>3. t <= s => q * t <= q * s
    BY Monotone
  <2> QED BY <2>2, <2>3
<1> QED BY <1>2, <1>3, <1>4, <1>6, <1>7, <1>8

\* The highest and the lowest of a list are folds.
LEMMA MostIs ==
    ASSUME NEW v, NEW b
    PROVE  /\ FoldLeft(LAMBDA a, x : IF Less(x, a) THEN x ELSE a, b, v) = FoldOf("least", 0, v, b)
           /\ FoldLeft(LAMBDA a, x : IF Less(a, x) THEN x ELSE a, b, v) = FoldOf("most", 0, v, b)
<1>1. FoldLeft(LAMBDA a, x : IF Less(x, a) THEN x ELSE a, b, v) = FoldOf("least", 0, v, b)
  <2> DEFINE Eq(g) == g = [t \in SUBSET DOMAIN v |->
                             IF t = {} THEN b
                             ELSE IF Less(v[Max(t)], g[t \ {Max(t)}]) THEN v[Max(t)] ELSE g[t \ {Max(t)}]]
  <2>1. \A g : Eq(g) <=> Folding("least", 0, v, b, DOMAIN v, g)
    BY DEF Folding, Combine, Gathered, Plain
  <2>2. FoldLeft(LAMBDA a, x : IF Less(x, a) THEN x ELSE a, b, v) = (CHOOSE g : Eq(g))[DOMAIN v]
    BY DEF FoldLeft, MapThenFoldSet
  <2> HIDE DEF Eq
  <2>3. (CHOOSE g : Eq(g)) = CHOOSE g : Folding("least", 0, v, b, DOMAIN v, g)
    BY <2>1
  <2> QED BY <2>2, <2>3 DEF FoldOf
<1>2. FoldLeft(LAMBDA a, x : IF Less(a, x) THEN x ELSE a, b, v) = FoldOf("most", 0, v, b)
  <2> DEFINE Eq(g) == g = [t \in SUBSET DOMAIN v |->
                             IF t = {} THEN b
                             ELSE IF Less(g[t \ {Max(t)}], v[Max(t)]) THEN v[Max(t)] ELSE g[t \ {Max(t)}]]
  <2>1. \A g : Eq(g) <=> Folding("most", 0, v, b, DOMAIN v, g)
    BY DEF Folding, Combine, Gathered, Plain
  <2>2. FoldLeft(LAMBDA a, x : IF Less(a, x) THEN x ELSE a, b, v) = (CHOOSE g : Eq(g))[DOMAIN v]
    BY DEF FoldLeft, MapThenFoldSet
  <2> HIDE DEF Eq
  <2>3. (CHOOSE g : Eq(g)) = CHOOSE g : Folding("most", 0, v, b, DOMAIN v, g)
    BY <2>1
  <2> QED BY <2>2, <2>3 DEF FoldOf
<1> QED BY <1>1, <1>2

\* x is what "most" or "least" finds of the shares v, from the first one on.
IsHighest(v, x) ==
    /\ Bounded(x, 1) /\ \A i \in 1..Len(v) : AtMost(v[i], x)
    /\ x = v[1] \/ Less(v[1], x)
IsLowest(v, x) ==
    /\ Bounded(x, 1) /\ \A i \in 1..Len(v) : AtMost(x, v[i])
    /\ x = v[1] \/ Less(x, v[1])

\* The fold finds the highest share.
LEMMA HighestFound ==
    ASSUME NEW v, Shares(v), Len(v) # 0
    PROVE  IsHighest(v, FoldOf("most", 0, v, v[1]))
<1>1. PICK n \in Nat \ {0} : n = Len(v) /\ Sequence(v)
  BY SequenceIs DEF Shares
<1>2. PICK s : Follows("most", 0, v, v[1], s) /\ FoldOf("most", 0, v, v[1]) = s[n]
  <2>1. "most" \in Plain
    BY DEF Plain
  <2> QED BY <1>1, <2>1, PlainFolds
<1>3. s[0] = v[1] /\ \A i \in Nat : i < n => s[i + 1] = IF Less(s[i], v[i + 1]) THEN v[i + 1] ELSE s[i]
  BY <1>1, <1>2 DEF Follows, Gathered
<1>4. \A i \in 1..n : IsFrac(v[i]) /\ Bounded(v[i], 1)
  BY <1>1 DEF Shares, Bounded
<1> DEFINE Good(i, x) == /\ Bounded(x, 1) /\ \A j \in 1..i : AtMost(v[j], x)
                         /\ x = v[1] \/ Less(v[1], x)
           T == {i \in 0..n : Good(i, s[i])}
<1>5. 0 \in T
  <2>1. 0 \in 0..n /\ 1 \in 1..n /\ \A j \in 1..0 : FALSE
    OBVIOUS
  <2>2. Good(0, s[0])
    BY <1>3, <1>4, <2>1
  <2> HIDE DEF Good
  <2> QED BY <2>1, <2>2
<1>6. ASSUME NEW i \in 0..(n - 1), i \in T PROVE i + 1 \in T
  <2>1. i \in Nat /\ i < n /\ i + 1 \in 0..n /\ i + 1 \in 1..n /\ 1 \in 1..n
    OBVIOUS
  <2>2. PICK x, y, z : x = s[i] /\ y = v[i + 1] /\ z = s[i + 1]
    OBVIOUS
  <2>3. z = IF Less(x, y) THEN y ELSE x
    BY <1>3, <2>1, <2>2
  <2>4. Good(i, x) /\ IsFrac(x) /\ IsFrac(y) /\ Bounded(y, 1) /\ IsFrac(v[1])
    <3>1. Good(i, x)
      BY <1>6, <2>2
    <3> QED BY <1>4, <2>1, <2>2, <3>1 DEF Bounded
  <2>5. Bounded(z, 1) /\ IsFrac(z) /\ AtMost(x, z) /\ AtMost(y, z)
    <3>1. AtMost(x, x) /\ AtMost(y, y) /\ (Less(x, y) => AtMost(x, y))
      BY <2>4, Ordered
    <3> QED BY <2>3, <2>4, <3>1 DEF AtMost
  <2>6. ASSUME NEW j \in 1..(i + 1) PROVE AtMost(v[j], z)
    <3>1. CASE j = i + 1
      BY <2>2, <2>5, <3>1
    <3>2. CASE j # i + 1
      <4>1. j \in 1..i /\ j \in 1..n
        BY <2>1, <3>2
      <4>2. AtMost(v[j], x) /\ IsFrac(v[j])
        BY <1>4, <2>4, <4>1
      <4> QED BY <2>4, <2>5, <4>2, Ordered
    <3> QED BY <3>1, <3>2
  <2>7. z = v[1] \/ Less(v[1], z)
    <3>1. CASE z = x
      BY <2>4, <3>1
    <3>2. CASE z = y /\ Less(x, y)
      <4>1. CASE x = v[1]
        BY <3>2, <4>1
      <4>2. CASE Less(v[1], x)
        BY <2>4, <2>5, <3>2, <4>2, Ordered
      <4> QED BY <2>4, <4>1, <4>2
    <3> QED BY <2>3, <3>1, <3>2
  <2>8. Good(i + 1, z)
    BY <2>5, <2>6, <2>7
  <2> HIDE DEF Good
  <2> QED BY <2>1, <2>2, <2>8
<1>7. n \in T
  <2> HIDE DEF T
  <2>1. n \in 0..n
    OBVIOUS
  <2> QED BY <1>5, <1>6, <2>1, InductionUpTo
<1> QED BY <1>1, <1>2, <1>7 DEF IsHighest

\* The fold finds the lowest share.
LEMMA LowestFound ==
    ASSUME NEW v, Shares(v), Len(v) # 0
    PROVE  IsLowest(v, FoldOf("least", 0, v, v[1]))
<1>1. PICK n \in Nat \ {0} : n = Len(v) /\ Sequence(v)
  BY SequenceIs DEF Shares
<1>2. PICK s : Follows("least", 0, v, v[1], s) /\ FoldOf("least", 0, v, v[1]) = s[n]
  <2>1. "least" \in Plain
    BY DEF Plain
  <2> QED BY <1>1, <2>1, PlainFolds
<1>3. s[0] = v[1] /\ \A i \in Nat : i < n => s[i + 1] = IF Less(v[i + 1], s[i]) THEN v[i + 1] ELSE s[i]
  BY <1>1, <1>2 DEF Follows, Gathered
<1>4. \A i \in 1..n : IsFrac(v[i]) /\ Bounded(v[i], 1)
  BY <1>1 DEF Shares, Bounded
<1> DEFINE Good(i, x) == /\ Bounded(x, 1) /\ \A j \in 1..i : AtMost(x, v[j])
                         /\ x = v[1] \/ Less(x, v[1])
           T == {i \in 0..n : Good(i, s[i])}
<1>5. 0 \in T
  <2>1. 0 \in 0..n /\ 1 \in 1..n /\ \A j \in 1..0 : FALSE
    OBVIOUS
  <2>2. Good(0, s[0])
    BY <1>3, <1>4, <2>1
  <2> HIDE DEF Good
  <2> QED BY <2>1, <2>2
<1>6. ASSUME NEW i \in 0..(n - 1), i \in T PROVE i + 1 \in T
  <2>1. i \in Nat /\ i < n /\ i + 1 \in 0..n /\ i + 1 \in 1..n /\ 1 \in 1..n
    OBVIOUS
  <2>2. PICK x, y, z : x = s[i] /\ y = v[i + 1] /\ z = s[i + 1]
    OBVIOUS
  <2>3. z = IF Less(y, x) THEN y ELSE x
    BY <1>3, <2>1, <2>2
  <2>4. Good(i, x) /\ IsFrac(x) /\ IsFrac(y) /\ Bounded(y, 1) /\ IsFrac(v[1])
    <3>1. Good(i, x)
      BY <1>6, <2>2
    <3> QED BY <1>4, <2>1, <2>2, <3>1 DEF Bounded
  <2>5. Bounded(z, 1) /\ IsFrac(z) /\ AtMost(z, x) /\ AtMost(z, y)
    <3>1. AtMost(x, x) /\ AtMost(y, y) /\ (Less(y, x) => AtMost(y, x))
      BY <2>4, Ordered
    <3> QED BY <2>3, <2>4, <3>1 DEF AtMost
  <2>6. ASSUME NEW j \in 1..(i + 1) PROVE AtMost(z, v[j])
    <3>1. CASE j = i + 1
      BY <2>2, <2>5, <3>1
    <3>2. CASE j # i + 1
      <4>1. j \in 1..i /\ j \in 1..n
        BY <2>1, <3>2
      <4>2. AtMost(x, v[j]) /\ IsFrac(v[j])
        BY <1>4, <2>4, <4>1
      <4> QED BY <2>4, <2>5, <4>2, Ordered
    <3> QED BY <3>1, <3>2
  <2>7. z = v[1] \/ Less(z, v[1])
    <3>1. CASE z = x
      BY <2>4, <3>1
    <3>2. CASE z = y /\ Less(y, x)
      <4>1. CASE x = v[1]
        BY <3>2, <4>1
      <4>2. CASE Less(x, v[1])
        <5>1. Less(y, x) => AtMost(y, x)
          BY <2>4, Ordered
        <5> QED BY <2>4, <3>2, <4>2, <5>1, Ordered
      <4> QED BY <2>4, <4>1, <4>2
    <3> QED BY <2>3, <3>1, <3>2
  <2>8. Good(i + 1, z)
    BY <2>5, <2>6, <2>7
  <2> HIDE DEF Good
  <2> QED BY <2>1, <2>2, <2>8
<1>7. n \in T
  <2> HIDE DEF T
  <2>1. n \in 0..n
    OBVIOUS
  <2> QED BY <1>5, <1>6, <2>1, InductionUpTo
<1> QED BY <1>1, <1>2, <1>7 DEF IsLowest

\* Wilder's average by its equations.
WilderOf(v, n, w) ==
    /\ Sequence(w) /\ Len(w) = Len(v) - n + 1
    /\ w[1] * n = Total(SubSeq(v, 1, n))
    /\ \A i \in 1..(Len(v) - n) : w[i + 1] * n = (n - 1) * w[i] + v[n + i]

\* Natural numbers that are multiples of a rung.
OnNaturals(v, k) == OnGrid(v, k) /\ \A i \in 1..Len(v) : v[i] \in Nat

\* What a smoothed average begins with, and goes on with.
LEMMA FirstAndRest ==
    ASSUME ExactScale, NEW n \in Nat \ {0}, NEW k \in 0..Depth, NEW v, OnNaturals(v, k), n <= Len(v)
    PROVE  /\ Total(SubSeq(v, 1, n)) \in Grid(k) /\ Total(SubSeq(v, 1, n)) \in Nat
           /\ Sequence(Rest(v, n)) /\ Len(Rest(v, n)) = Len(v) - n
           /\ \A i \in 1..(Len(v) - n) :
                 Rest(v, n)[i] = v[n + i] /\ v[n + i] \in Grid(k) /\ v[n + i] \in Nat
<1>1. PICK l \in Nat : l = Len(v) /\ Sequence(v) /\ \A i \in 1..l : v[i] \in Grid(k) /\ v[i] \in Nat
  BY SequenceIs DEF OnGrid, OnNaturals
<1>2. PICK w : w = SubSeq(v, 1, n)
  OBVIOUS
<1>3. Sequence(w) /\ Len(w) = n /\ \A i \in 1..n : w[i] = v[i]
  <2>1. 1 \in Nat \ {0} /\ n \in Nat /\ n <= Len(v) /\ 1 <= n + 1 /\ n - 1 + 1 = n
        /\ \A i \in 1..n : 1 + i - 1 = i
    BY <1>1
  <2>2. /\ Sequence(SubSeq(v, 1, n)) /\ Len(SubSeq(v, 1, n)) = n - 1 + 1
        /\ \A j \in 1..(n - 1 + 1) : SubSeq(v, 1, n)[j] = v[1 + j - 1]
    BY <1>1, <2>1, Part
  <2> QED BY <1>2, <2>1, <2>2
<1>4. \A i \in 1..Len(w) : w[i] \in Grid(k) /\ w[i] \in Nat
  <2>1. 1..n \subseteq 1..l
    BY <1>1
  <2> QED BY <1>1, <1>3, <2>1
<1>5. Total(w) \in Grid(k)
  BY <1>3, <1>4, GridIs, TotalIn
<1>6. Total(w) \in Nat
  <2>1. 0 \in Nat /\ \A x \in Nat, y \in Nat : x + y \in Nat
    OBVIOUS
  <2> QED BY <1>3, <1>4, <2>1, TotalIn
<1>7. Sequence(Rest(v, n)) /\ Len(Rest(v, n)) = l - n /\ \A i \in 1..(l - n) : Rest(v, n)[i] = v[n + i]
  BY <1>1, RestIs
<1>8. \A i \in 1..(l - n) : n + i \in 1..l
  BY <1>1
<1> QED BY <1>1, <1>2, <1>5, <1>6, <1>7, <1>8

\* Wilder's average of natural numbers is a list of natural numbers, and its divisions come out.
LEMMA WilderOnGrid ==
    ASSUME ExactScale, NEW n \in Periods, NEW k \in 0..Depth, NEW v, OnNaturals(v, k),
           n <= Len(v), Len(v) <= k
    PROVE  /\ OnLadder(Wilder(v, n), k) /\ WilderOf(v, n, Wilder(v, n))
           /\ \A i \in 1..(Len(v) - n + 1) : Wilder(v, n)[i] \in Nat
<1>1. Depth \in Nat /\ n \in Nat \ {0} /\ n \in Divisors
  BY RungsAre DEF Divisors
<1>2. PICK l \in Nat : l = Len(v) /\ Sequence(v)
  BY SequenceIs DEF OnNaturals, OnGrid
<1>3. PICK b, q : b = Total(SubSeq(v, 1, n)) /\ q = Rest(v, n)
  OBVIOUS
<1>4. /\ b \in Grid(k) /\ b \in Nat /\ Sequence(q) /\ Len(q) = l - n
      /\ \A i \in 1..(l - n) : q[i] = v[n + i] /\ v[n + i] \in Grid(k) /\ v[n + i] \in Nat
  <2>1. n \in Nat \ {0} /\ n <= Len(v) /\ OnNaturals(v, k)
    BY <1>1
  <2>2. /\ Total(SubSeq(v, 1, n)) \in Grid(k) /\ Total(SubSeq(v, 1, n)) \in Nat
        /\ Sequence(Rest(v, n)) /\ Len(Rest(v, n)) = Len(v) - n
        /\ \A i \in 1..(Len(v) - n) :
              Rest(v, n)[i] = v[n + i] /\ v[n + i] \in Grid(k) /\ v[n + i] \in Nat
    BY ONLY ExactScale, <2>1, k \in 0..Depth, FirstAndRest
  <2> QED BY ONLY <1>2, <1>3, <2>2, Zenon
<1>5. PICK a, e : a = Over(b, n) /\ e = Wilder(v, n)
  OBVIOUS
<1>6. 1 <= k /\ k \in 1..Depth /\ l <= k /\ n <= l /\ l - n \in Nat
  BY <1>1, <1>2
<1>7. a \in Grid(k - 1) /\ a * n = b /\ a \in Nat
  <2>1. a \in Grid(k - 1) /\ a * n = b /\ a \in Int
    BY <1>1, <1>4, <1>5, <1>6, ComesOut
  <2> QED BY <1>1, <1>4, <2>1, NotNegative
<1>9. Grown("wilder", n, q, a, e)
  <2>1. "wilder" \notin Plain
    BY DEF Plain
  <2>2. e = Running("wilder", n, v, a)
    BY <1>3, <1>5, WilderIs
  <2> QED BY <1>1, <1>2, <1>3, <1>6, <2>1, <2>2, RunningLong
<1>10. /\ Sequence(e) /\ Len(e) = l - n + 1 /\ e[1] = a
       /\ \A i \in 1..(l - n) : e[i + 1] = Over((n - 1) * e[i] + v[n + i], n)
  BY <1>4, <1>9 DEF Grown, Stepped
<1>11. ASSUME NEW i \in 1..(l - n), e[i] \in Grid(k - i) /\ e[i] \in Nat
       PROVE  /\ e[i + 1] \in Grid(k - (i + 1)) /\ e[i + 1] \in Nat
              /\ e[i + 1] * n = (n - 1) * e[i] + v[n + i]
  <2>1. PICK j \in 1..Depth : j = k - i /\ j \in 0..Depth /\ j \in 0..k
    BY <1>1, <1>2, <1>6
  <2>2. n - 1 \in Int
    BY <1>1
  <2>3. v[n + i] \in Grid(j)
    BY <1>4, <2>1, GridBelow
  <2>4. PICK x \in Grid(j) : x = (n - 1) * e[i] + v[n + i] /\ x \in Nat
    <3>1. (n - 1) * e[i] \in Grid(j)
      BY <1>11, <2>1, <2>2, GridIs
    <3>2. (n - 1) * e[i] + v[n + i] \in Grid(j)
      BY <2>1, <2>3, <3>1, GridIs
    <3>3. (n - 1) * e[i] + v[n + i] \in Nat
      <4>1. PICK y \in Nat, z \in Nat, m \in Nat : y = e[i] /\ z = v[n + i] /\ m = n - 1
        <5>1. n - 1 \in Nat
          BY <1>1
        <5>2. e[i] \in Nat /\ v[n + i] \in Nat
          BY <1>4, <1>11
        <5> QED BY <5>1, <5>2
      <4>2. m * y + z \in Nat
        OBVIOUS
      <4> QED BY <4>1, <4>2
    <3> QED BY <3>2, <3>3
  <2>5. Over(x, n) \in Grid(j - 1) /\ Over(x, n) * n = x /\ Over(x, n) \in Nat
    <3>1. Over(x, n) \in Grid(j - 1) /\ Over(x, n) * n = x /\ Over(x, n) \in Int
      BY <1>1, <2>1, ComesOut
    <3> QED BY <1>1, <2>4, <3>1, NotNegative
  <2>6. j - 1 = k - (i + 1)
    BY <2>1
  <2> QED BY <1>10, <2>4, <2>5, <2>6
<1> DEFINE T == {i \in 0..(l - n) : e[i + 1] \in Grid(k - (i + 1)) /\ e[i + 1] \in Nat}
<1>12. 0 \in T
  BY <1>6, <1>7, <1>10
<1>13. ASSUME NEW i \in 0..(l - n - 1), i \in T PROVE i + 1 \in T
  <2>1. PICK j \in 1..(l - n) : j = i + 1 /\ j \in 0..(l - n)
    BY <1>6
  <2>2. e[j] \in Grid(k - j) /\ e[j] \in Nat
    BY <1>13, <2>1
  <2>3. e[j + 1] \in Grid(k - (j + 1)) /\ e[j + 1] \in Nat
    BY <1>11, <2>2
  <2> QED BY <2>1, <2>3
<1>14. ASSUME NEW i \in 1..(l - n + 1) PROVE e[i] \in Grid(k - i) /\ e[i] \in Nat
  <2>1. PICK j \in 0..(l - n) : i = j + 1
    <3>1. i - 1 \in 0..(l - n) /\ i = i - 1 + 1
      BY <1>6
    <3> QED BY <3>1
  <2>2. j \in T
    <3> HIDE DEF T
    <3> QED BY <1>6, <1>12, <1>13, InductionUpTo
  <2> QED BY <2>1, <2>2
<1>15. OnLadder(e, k)
  BY <1>10, <1>14 DEF OnLadder
<1>16. WilderOf(v, n, e)
  <2>1. \A i \in 1..(l - n) : i \in 1..(l - n + 1)
    BY <1>6
  <2>2. \A i \in 1..(l - n) : e[i + 1] * n = (n - 1) * e[i] + v[n + i]
    BY <1>11, <1>14, <2>1
  <2> QED BY <1>2, <1>3, <1>7, <1>10, <2>2 DEF WilderOf
<1> QED BY <1>2, <1>5, <1>14, <1>15, <1>16

\* So is his running total, of which a part is taken away with each step.
LEMMA SmoothOnGrid ==
    ASSUME ExactScale, NEW n \in Periods, NEW k \in 0..Depth, NEW v, OnNaturals(v, k),
           n <= Len(v), Len(v) <= k
    PROVE  /\ Sequence(Smooth(v, n)) /\ Len(Smooth(v, n)) = Len(v) - n + 1
           /\ \A i \in 1..(Len(v) - n + 1) : Smooth(v, n)[i] \in Nat
<1>1. Depth \in Nat /\ n \in Nat \ {0} /\ n \in Divisors
  BY RungsAre DEF Divisors
<1>2. PICK l \in Nat : l = Len(v) /\ Sequence(v)
  BY SequenceIs DEF OnNaturals, OnGrid
<1>3. PICK b, q : b = Total(SubSeq(v, 1, n)) /\ q = Rest(v, n)
  OBVIOUS
<1>4. /\ b \in Grid(k) /\ b \in Nat /\ Sequence(q) /\ Len(q) = l - n
      /\ \A i \in 1..(l - n) : q[i] = v[n + i] /\ v[n + i] \in Grid(k) /\ v[n + i] \in Nat
  BY <1>1, <1>2, <1>3, FirstAndRest, ZenonT(60)
<1>5. PICK e : e = Smooth(v, n)
  OBVIOUS
<1>6. 1 <= k /\ k \in 1..Depth /\ l <= k /\ n <= l /\ l - n \in Nat
  BY <1>1, <1>2
<1>9. Grown("smooth", n, q, b, e)
  <2>1. "smooth" \notin Plain
    BY DEF Plain
  <2>2. e = Running("smooth", n, v, b)
    BY <1>3, <1>5, SmoothIs
  <2> QED BY <1>1, <1>2, <1>3, <1>6, <2>1, <2>2, RunningLong
<1>10. /\ Sequence(e) /\ Len(e) = l - n + 1 /\ e[1] = b
       /\ \A i \in 1..(l - n) : e[i + 1] = e[i] - Over(e[i], n) + v[n + i]
  BY <1>4, <1>9 DEF Grown, Stepped
<1>11. ASSUME NEW i \in 1..(l - n), e[i] \in Grid(k - i) /\ e[i] \in Nat
       PROVE  e[i + 1] \in Grid(k - (i + 1)) /\ e[i + 1] \in Nat
  <2>1. PICK j \in 1..Depth : j = k - i /\ j \in 0..Depth /\ j \in 0..k
    BY <1>1, <1>2, <1>6
  <2>2. PICK h \in 0..j : h = j - 1 /\ h \in 0..Depth /\ h \in 0..k
    BY <1>1, <2>1
  <2>3. v[n + i] \in Grid(h) /\ e[i] \in Grid(h)
    BY <1>4, <1>11, <2>1, <2>2, GridBelow
  <2>4. PICK q1 : q1 = Over(e[i], n)
    OBVIOUS
  <2>5. q1 \in Grid(h) /\ q1 * n = e[i] /\ q1 \in Int
    BY <1>1, <1>11, <2>1, <2>2, <2>4, ComesOut
  <2>6. e[i] - q1 + v[n + i] \in Grid(h)
    <3>1. e[i] - q1 \in Grid(h)
      BY <2>2, <2>3, <2>5, GridIs
    <3> QED BY <2>2, <2>3, <3>1, GridIs
  <2>7. e[i] - q1 + v[n + i] \in Nat
    <3>1. PICK y \in Nat, z \in Nat : y = e[i] /\ z = v[n + i]
      BY <1>4, <1>11
    <3>2. q1 \in Nat
      BY <1>1, <2>5, <3>1, NotNegative
    <3>3. PICK p \in Nat : p = q1 /\ p * n = y
      BY <2>5, <3>1, <3>2
    <3>4. p <= y
      <4>1. p * 1 <= p * n
        BY <1>1, Monotone
      <4> QED BY <3>3, <4>1
    <3>5. y - p + z \in Nat
      BY <3>4
    <3> QED BY <3>1, <3>3, <3>5
  <2>8. h = k - (i + 1)
    BY <2>1, <2>2
  <2> QED BY <1>10, <2>4, <2>6, <2>7, <2>8
<1> DEFINE T == {i \in 0..(l - n) : e[i + 1] \in Grid(k - (i + 1)) /\ e[i + 1] \in Nat}
<1>12. 0 \in T
  <2>1. k - 1 \in 0..k /\ 0 + 1 = 1 /\ 0 \in 0..(l - n)
    BY <1>6
  <2>2. b \in Grid(k - 1)
    BY <1>4, <2>1, GridBelow
  <2> QED BY <1>4, <1>10, <2>1, <2>2
<1>13. ASSUME NEW i \in 0..(l - n - 1), i \in T PROVE i + 1 \in T
  <2>1. PICK j \in 1..(l - n) : j = i + 1 /\ j \in 0..(l - n)
    BY <1>6
  <2>2. e[j] \in Grid(k - j) /\ e[j] \in Nat
    BY <1>13, <2>1
  <2>3. e[j + 1] \in Grid(k - (j + 1)) /\ e[j + 1] \in Nat
    BY <1>11, <2>2
  <2> QED BY <2>1, <2>3
<1>14. ASSUME NEW i \in 1..(l - n + 1) PROVE e[i] \in Nat
  <2>1. PICK j \in 0..(l - n) : i = j + 1
    <3>1. i - 1 \in 0..(l - n) /\ i = i - 1 + 1
      BY <1>6
    <3> QED BY <3>1
  <2>2. j \in T
    <3> HIDE DEF T
    <3> QED BY <1>6, <1>12, <1>13, InductionUpTo
  <2> QED BY <2>1, <2>2
<1> QED BY <1>2, <1>5, <1>10, <1>14

\* Whole ticks, scaled, can be averaged.
LEMMA ScaledOnGrid ==
    ASSUME ExactScale, NEW v, Sequence(v), \A i \in 1..Len(v) : \E m \in Nat : v[i] = Scale * m
    PROVE  OnNaturals(v, Depth)
<1>1. ASSUME NEW i \in 1..Len(v) PROVE v[i] \in Grid(Depth) /\ v[i] \in Nat
  <2>1. PICK m \in Nat : v[i] = Scale * m
    OBVIOUS
  <2>2. Scale * m \in Grid(Depth)
    BY PricesOnGrid
  <2>3. Scale * m \in Nat
    BY ScaleAssumption
  <2> QED BY <2>1, <2>2, <2>3
<1> QED BY <1>1 DEF OnNaturals, OnGrid

\* What moves from bar to bar is in whole ticks.
LEMMA MovesOnGrid ==
    ASSUME ExactScale, NEW c, Proper(c), 1 <= Len(c)
    PROVE  /\ OnNaturals(Gains(c), Depth) /\ Len(Gains(c)) = Len(c) - 1
           /\ OnNaturals(Losses(c), Depth) /\ Len(Losses(c)) = Len(c) - 1
           /\ OnNaturals(PlusMoves(c), Depth) /\ Len(PlusMoves(c)) = Len(c) - 1
           /\ OnNaturals(MinusMoves(c), Depth) /\ Len(MinusMoves(c)) = Len(c) - 1
           /\ OnNaturals(TrueRanges(c), Depth) /\ Len(TrueRanges(c)) = Len(c) - 1
           /\ Len(c) - 1 \in Nat /\ Len(c) - 1 <= Depth
<1>1. PICK l \in Nat : l = Len(c) - 1 /\ l <= Depth
  <2>1. Len(c) \in Nat /\ Len(c) <= MaxBars /\ MaxBars \in Nat
    BY ProperAre, SignalsConstantsOK
  <2>2. Len(c) - 1 \in Nat /\ Len(c) - 1 <= Depth
    BY <2>1 DEF Depth
  <2> QED BY <2>2
<1>2. /\ Sequence(Gains(c)) /\ Len(Gains(c)) = l
      /\ Sequence(Losses(c)) /\ Len(Losses(c)) = l
      /\ Sequence(PlusMoves(c)) /\ Len(PlusMoves(c)) = l
      /\ Sequence(MinusMoves(c)) /\ Len(MinusMoves(c)) = l
      /\ Sequence(TrueRanges(c)) /\ Len(TrueRanges(c)) = l
  BY <1>1, ProperAre, PairsLong
<1>3. ASSUME NEW i \in 1..l
      PROVE  /\ c[i].close \in Nat /\ c[i].high \in Nat /\ c[i].low \in Nat
             /\ c[i + 1].close \in Nat /\ c[i + 1].high \in Nat /\ c[i + 1].low \in Nat
  <2>1. i \in 1..Len(c) /\ i + 1 \in 1..Len(c)
    BY <1>1, ProperAre
  <2> QED BY <2>1, ProperAre
<1>4. ASSUME NEW x \in Int PROVE Higher(x, 0) \in Nat
  BY <1>4 DEF Higher
<1>5. ASSUME NEW i \in 1..l PROVE \E m \in Nat : Gains(c)[i] = Scale * m
  <2>4. PICK a \in Nat, b \in Nat : a = c[i + 1].close /\ b = c[i].close
    BY <1>3
  <2>3. c[i + 1].close - c[i].close \in Int
    <3>1. a - b \in Int
      OBVIOUS
    <3> QED BY <2>4, <3>1
  <2>1. PICK x \in Int : x = c[i + 1].close - c[i].close
    BY <2>3, Zenon
  <2>2. Gains(c)[i] = Scale * Higher(x, 0)
    BY <1>1, <2>1 DEF Gains
  <2> QED BY <1>4, <2>2
<1>6. ASSUME NEW i \in 1..l PROVE \E m \in Nat : Losses(c)[i] = Scale * m
  <2>4. PICK a \in Nat, b \in Nat : a = c[i].close /\ b = c[i + 1].close
    BY <1>3
  <2>3. c[i].close - c[i + 1].close \in Int
    <3>1. a - b \in Int
      OBVIOUS
    <3> QED BY <2>4, <3>1
  <2>1. PICK x \in Int : x = c[i].close - c[i + 1].close
    BY <2>3, Zenon
  <2>2. Losses(c)[i] = Scale * Higher(x, 0)
    BY <1>1, <2>1 DEF Losses
  <2> QED BY <1>4, <2>2
<1>7. ASSUME NEW i \in 1..l
      PROVE  (\E m \in Nat : PlusMoves(c)[i] = Scale * m) /\ (\E m \in Nat : MinusMoves(c)[i] = Scale * m)
  <2>4. Up(c, i) \in Int /\ Down(c, i) \in Int
    <3>1. PICK a \in Nat, b \in Nat : a = c[i + 1].high /\ b = c[i].high
      BY <1>3
    <3>2. PICK e \in Nat, f \in Nat : e = c[i].low /\ f = c[i + 1].low
      BY <1>3
    <3>3. Up(c, i) = a - b /\ Down(c, i) = e - f
      BY ONLY <3>1, <3>2 DEF Up, Down
    <3>4. a - b \in Int /\ e - f \in Int
      BY ONLY a \in Nat, b \in Nat, e \in Nat, f \in Nat
    <3> QED BY ONLY <3>3, <3>4
  <2>1. PICK x \in Int, y \in Int : x = Up(c, i) /\ y = Down(c, i)
    BY <2>4, Zenon
  <2>2. /\ PlusMoves(c)[i] = Scale * IF x > y /\ x > 0 THEN x ELSE 0
        /\ MinusMoves(c)[i] = Scale * IF y > x /\ y > 0 THEN y ELSE 0
    BY <1>1, <2>1 DEF PlusMoves, MinusMoves
  <2>3. (IF x > y /\ x > 0 THEN x ELSE 0) \in Nat /\ (IF y > x /\ y > 0 THEN y ELSE 0) \in Nat
    OBVIOUS
  <2> QED BY <2>2, <2>3, Zenon
<1>8. ASSUME NEW i \in 1..l PROVE \E m \in Nat : TrueRanges(c)[i] = Scale * m
  <2>1. i \in 1..(Len(c) - 1)
    BY <1>1
  <2> QED BY <2>1, TrueRangesAre
<1>9. /\ OnNaturals(Gains(c), Depth) /\ OnNaturals(Losses(c), Depth)
      /\ OnNaturals(PlusMoves(c), Depth) /\ OnNaturals(MinusMoves(c), Depth)
      /\ OnNaturals(TrueRanges(c), Depth)
  BY <1>2, <1>5, <1>6, <1>7, <1>8, ScaledOnGrid
<1> QED BY <1>1, <1>2, <1>9

\* A proper fraction.
LEMMA FracBounded ==
    ASSUME NEW n \in Nat, NEW d \in Nat \ {0}, n <= d
    PROVE  Bounded(Frac(n, d), 1)
<1>1. n <= 1 * d
  OBVIOUS
<1> QED BY <1>1, FracEquals, EqualsBounded

\* The RSI is the share of the gains.
LEMMA RSIShares ==
    ASSUME ExactScale, NEW c, Proper(c), NEW n \in Periods
    PROVE  /\ Shares(RSI(c, n))
           /\ \A i \in 1..Len(RSI(c, n)) :
                 RSI(c, n)[i] = Share(Wilder(Gains(c), n)[i], Wilder(Losses(c), n)[i])
<1>1. n \in Nat \ {0} /\ Depth \in 0..Depth
  BY RungsAre DEF Divisors
<1>2. PICK l \in Nat : l = Len(c) /\ Sequence(c)
  BY ProperAre
<1>3. PICK r : r = RSI(c, n) /\ Sequence(r) /\ Len(r) = IF l <= n THEN 0 ELSE l - n
  BY <1>1, <1>2, RSILong
<1>4. CASE l <= n
  BY <1>3, <1>4 DEF Shares
<1>5. CASE ~(l <= n)
  <2>1. PICK g, w : g = Wilder(Gains(c), n) /\ w = Wilder(Losses(c), n)
    OBVIOUS
  <2>2. n <= l - 1 /\ 1 <= l /\ l - 1 - n + 1 = l - n /\ ~(Len(c) < n + 1)
    BY <1>1, <1>2, <1>5
  <2>3. Sequence(g) /\ Len(g) = l - n /\ \A i \in 1..(l - n) : g[i] \in Nat
    <3>1. OnNaturals(Gains(c), Depth) /\ Len(Gains(c)) = l - 1 /\ l - 1 <= Depth
      BY <1>2, <2>2, MovesOnGrid
    <3>2. /\ WilderOf(Gains(c), n, g)
          /\ \A i \in 1..(Len(Gains(c)) - n + 1) : g[i] \in Nat
      BY <1>1, <2>1, <2>2, <3>1, WilderOnGrid
    <3> QED BY <2>2, <3>1, <3>2 DEF WilderOf
  <2>4. \A i \in 1..(l - n) : w[i] \in Nat
    <3>1. OnNaturals(Losses(c), Depth) /\ Len(Losses(c)) = l - 1 /\ l - 1 <= Depth
      BY <1>2, <2>2, MovesOnGrid
    <3>2. \A i \in 1..(Len(Losses(c)) - n + 1) : w[i] \in Nat
      BY <1>1, <2>1, <2>2, <3>1, WilderOnGrid
    <3> QED BY <2>2, <3>1, <3>2
  <2>5. \A i \in 1..(l - n) : r[i] = Share(g[i], w[i])
    <3>1. DOMAIN g = 1..(l - n)
      BY <2>3, SequenceIs
    <3> QED BY <1>3, <2>1, <2>2, <3>1 DEF RSI
  <2>6. ASSUME NEW i \in 1..(l - n) PROVE Bounded(r[i], 1)
    <3>1. PICK x \in Nat, y \in Nat : x = g[i] /\ y = w[i] /\ r[i] = Share(x, y)
      BY <2>3, <2>4, <2>5
    <3>2. CASE y = 0
      BY <3>1, <3>2, ZeroAndOne DEF Share
    <3>3. CASE y # 0
      <4>1. PICK z \in Nat \ {0} : z = x + y /\ x <= z
        <5>1. x + y \in Nat \ {0} /\ x <= x + y
          BY <3>3
        <5> QED BY <5>1
      <4>2. r[i] = Frac(x, z)
        BY <3>1, <3>3, <4>1 DEF Share
      <4> QED BY <4>1, <4>2, FracBounded
    <3> QED BY <3>2, <3>3
  <2>7. Shares(r)
    BY <1>3, <1>5, <2>6 DEF Shares
  <2> QED BY <1>3, <1>5, <2>1, <2>5, <2>7
<1> QED BY <1>4, <1>5

\* A window of shares.
LEMMA SharesIn ==
    ASSUME NEW v, Shares(v), NEW n \in Nat \ {0}, NEW i \in 1..(Len(v) - n + 1)
    PROVE  /\ Shares(SubSeq(v, i, i + n - 1)) /\ Len(SubSeq(v, i, i + n - 1)) = n
           /\ \A j \in 1..n : SubSeq(v, i, i + n - 1)[j] = v[i + j - 1]
<1>1. PICK l \in Nat : l = Len(v) /\ Sequence(v)
  BY SequenceIs DEF Shares
<1>2. PICK m \in Nat : m = i + n - 1 /\ m <= l /\ i <= m + 1 /\ m - i + 1 = n /\ i \in Nat \ {0}
  <2>1. i + n - 1 \in Nat /\ i + n - 1 <= l
    BY <1>1
  <2> QED BY <2>1
<1>3. /\ Sequence(SubSeq(v, i, m)) /\ Len(SubSeq(v, i, m)) = n
      /\ \A j \in 1..n : SubSeq(v, i, m)[j] = v[i + j - 1]
  BY <1>1, <1>2, Part
<1>4. \A j \in 1..n : i + j - 1 \in 1..l
  BY <1>1, <1>2
<1>5. \A j \in 1..n : Bounded(SubSeq(v, i, m)[j], 1)
  BY <1>1, <1>3, <1>4 DEF Shares
<1> QED BY <1>2, <1>3, <1>5 DEF Shares

\* x / y is p / q - a / b and u / v is c / d - a / b, where p / q is not more than c / d.
Placed(p, q, a, b, c, d, x, y, u, v) ==
    /\ p \in Nat /\ a \in Nat /\ c \in Nat /\ x \in Nat /\ u \in Nat
    /\ q \in Nat \ {0} /\ b \in Nat \ {0} /\ d \in Nat \ {0} /\ y \in Nat \ {0} /\ v \in Nat \ {0}
    /\ p * d <= c * q
    /\ x * (q * b) = (p * b - a * q) * y /\ u * (d * b) = (c * b - a * d) * v

\* The latest share's place between the lowest and the highest one is a share: cross-multiplied.
LEMMA PlaceFound ==
    ASSUME NEW p \in Nat, NEW q \in Nat \ {0}, NEW a \in Nat, NEW b \in Nat \ {0},
           NEW c \in Nat, NEW d \in Nat \ {0}, p * d <= c * q,
           NEW x \in Nat, NEW y \in Nat \ {0}, NEW u \in Nat, NEW v \in Nat \ {0},
           x * (q * b) = (p * b - a * q) * y, u * (d * b) = (c * b - a * d) * v
    PROVE  x * v <= y * u
<1>1. (p * b - a * q) * d <= (c * b - a * d) * q
  <2>1. b * (p * d) <= b * (c * q)
    BY Monotone
  <2>2. (p * b - a * q) * d = b * (p * d) - a * q * d /\ (c * b - a * d) * q = b * (c * q) - a * q * d
    OBVIOUS
  <2>3. PICK z \in Int, s \in Int, t \in Int : z = a * q * d /\ s = b * (p * d) /\ t = b * (c * q)
    OBVIOUS
  <2> QED BY <2>1, <2>2, <2>3
<1>2. PICK m \in Int, k \in Int : m = p * b - a * q /\ k = c * b - a * d
  OBVIOUS
<1>3. PICK e \in Nat \ {0} : e = (q * b) * (d * b)
  OBVIOUS
<1>4. e * (x * v) = ((x * (q * b)) * (d * b)) * v
  BY <1>3
<1>5. e * (y * u) = ((u * (d * b)) * (q * b)) * y
  BY <1>3
<1>6. ((m * y) * (d * b)) * v = ((b * y) * v) * (m * d)
  OBVIOUS
<1>7. ((k * v) * (q * b)) * y = ((b * y) * v) * (k * q)
  OBVIOUS
<1>8. e * (x * v) = ((b * y) * v) * (m * d)
  BY <1>2, <1>4, <1>6
<1>9. e * (y * u) = ((b * y) * v) * (k * q)
  BY <1>2, <1>5, <1>7
<1>10. ((b * y) * v) * (m * d) <= ((b * y) * v) * (k * q)
  <2>1. (b * y) * v \in Nat /\ m * d \in Int /\ k * q \in Int /\ m * d <= k * q
    BY <1>1, <1>2
  <2> QED BY <2>1, Monotone
<1>11. e * (x * v) <= e * (y * u)
  BY <1>8, <1>9, <1>10
<1>12. x * v \in Int /\ y * u \in Int
  OBVIOUS
<1> QED BY <1>11, <1>12, Cancelled

\* The same, of a named fact, so that it is found at once.
LEMMA PlaceIs ==
    ASSUME NEW p, NEW q, NEW a, NEW b, NEW c, NEW d, NEW x, NEW y, NEW u, NEW v,
           Placed(p, q, a, b, c, d, x, y, u, v)
    PROVE  x * v <= y * u
BY PlaceFound, ZenonT(30) DEF Placed

\* The order of fractions, in numbers.
LEMMA OrderIs ==
    ASSUME NEW a, NEW b, NEW n \in Nat, NEW d \in Nat, NEW m \in Nat, NEW e \in Nat,
           n = a.n, d = a.d, m = b.n, e = b.d
    PROVE  (AtMost(a, b) <=> n * e <= m * d) /\ (Less(a, b) <=> n * e < m * d)
BY DEF AtMost, Less

\* Stoch of a window of shares is a share; nothing is divided by zero.
LEMMA StochBounded ==
    ASSUME NEW w, Shares(w), Len(w) # 0
    PROVE  Bounded(Stoch(w), 1)
<1>1. PICK n \in Nat \ {0} : n = Len(w) /\ n \in 1..n /\ 1 \in 1..n
  <2>1. Len(w) \in Nat \ {0}
    BY SequenceIs DEF Shares
  <2> QED BY <2>1
<1>2. PICK lo, hi, x : /\ lo = FoldOf("least", 0, w, w[1]) /\ hi = FoldOf("most", 0, w, w[1]) /\ x = w[n]
  OBVIOUS
<1>3. IsLowest(w, lo) /\ IsHighest(w, hi)
  BY <1>2, LowestFound, HighestFound
<1>4. /\ IsFrac(lo) /\ IsFrac(hi) /\ IsFrac(x) /\ IsFrac(w[1])
      /\ AtMost(lo, x) /\ AtMost(x, hi) /\ AtMost(w[1], hi) /\ AtMost(lo, w[1])
  <2>1. Bounded(x, 1) /\ Bounded(w[1], 1)
    BY <1>1, <1>2 DEF Shares
  <2> QED BY <1>1, <1>2, <1>3, <2>1 DEF IsLowest, IsHighest, Bounded
<1>5. Stoch(w) = IF hi = lo THEN Zero ELSE Divided(Minus(x, lo), Minus(hi, lo))
  <2>1. FoldLeft(LAMBDA a, b : IF Less(b, a) THEN b ELSE a, w[1], w) = lo
    BY <1>2, MostIs
  <2>2. FoldLeft(LAMBDA a, b : IF Less(a, b) THEN b ELSE a, w[1], w) = hi
    BY <1>2, MostIs
  <2> QED BY <1>1, <1>2, <2>1, <2>2 DEF Stoch, Latest
<1>6. CASE hi = lo
  BY <1>5, <1>6, ZeroAndOne
<1>7. CASE hi # lo
  <2>1. Less(lo, hi)
    <3>1. CASE lo # w[1]
      <4>1. Less(lo, w[1])
        BY <1>3, <3>1 DEF IsLowest
      <4> QED BY <1>4, <4>1, Ordered
    <3>2. CASE hi # w[1]
      <4>1. Less(w[1], hi)
        BY <1>3, <3>2 DEF IsHighest
      <4> QED BY <1>4, <4>1, Ordered
    <3> QED BY <1>7, <3>1, <3>2
  <2>2. PICK p \in Nat, q \in Nat \ {0}, a \in Nat, b \in Nat \ {0}, c \in Nat, d \in Nat \ {0} :
          p = x.n /\ q = x.d /\ a = lo.n /\ b = lo.d /\ c = hi.n /\ d = hi.d
    BY <1>4 DEF IsFrac
  <2>3. a * q <= p * b /\ p * d <= c * q /\ a * d < c * b
    <3>1. AtMost(lo, x) <=> a * q <= p * b
      BY <2>2, OrderIs
    <3>2. AtMost(x, hi) <=> p * d <= c * q
      BY <2>2, OrderIs
    <3>3. Less(lo, hi) <=> a * d < c * b
      BY <2>2, OrderIs
    <3> QED BY <1>4, <2>1, <3>1, <3>2, <3>3
  <2>4. PICK f, g : f = Minus(x, lo) /\ g = Minus(hi, lo)
    OBVIOUS
  <2>5. Equals(f, p * b - a * q, q * b) /\ Equals(g, c * b - a * d, d * b)
    <3>1. lo.n * x.d <= x.n * lo.d /\ lo.n * hi.d <= hi.n * lo.d
      <4>1. a * d <= c * b
        <5>1. PICK y \in Int, z \in Int : y = a * d /\ z = c * b
          BY <2>2
        <5> QED BY <2>3, <5>1
      <4> QED BY <2>2, <2>3, <4>1, Zenon
    <3> QED BY <1>4, <2>2, <2>4, <3>1, MinusEquals
  <2>6. PICK s \in Nat, t \in Nat \ {0}, u \in Nat, v \in Nat \ {0} :
          /\ s = f.n /\ t = f.d /\ u = g.n /\ v = g.d
          /\ s * (q * b) = (p * b - a * q) * t /\ u * (d * b) = (c * b - a * d) * v
    BY <2>5 DEF Equals, IsFrac
  <2>7. u # 0
    <3>1. PICK k \in Nat \ {0} : k = c * b - a * d
      <4>1. c * b - a * d \in Nat \ {0}
        BY <2>3
      <4> QED BY <4>1
    <3>2. k * v # 0
      OBVIOUS
    <3>3. u * (d * b) # 0
      BY <2>6, <3>1, <3>2
    <3> QED BY <3>3
  <2>8. s * v <= t * u
    <3>1. p \in Nat /\ q \in Nat \ {0} /\ a \in Nat /\ b \in Nat \ {0} /\ c \in Nat /\ d \in Nat \ {0}
      BY <2>2
    <3>2. s \in Nat /\ t \in Nat \ {0} /\ u \in Nat /\ v \in Nat \ {0}
      BY <2>6
    <3>3. p * d <= c * q
      BY <2>3
    <3>4. s * (q * b) = (p * b - a * q) * t
      BY <2>6
    <3>5. u * (d * b) = (c * b - a * d) * v
      BY <2>6
    <3>6. Placed(p, q, a, b, c, d, s, t, u, v)
      BY <3>1, <3>2, <3>3, <3>4, <3>5, Zenon DEF Placed
    <3> QED BY <3>6, PlaceIs, Zenon
  <2>9. Equals(Divided(f, g), s * v, t * u) /\ s * v \in Nat /\ t * u \in Nat \ {0}
    <3>1. IsFrac(f) /\ IsFrac(g)
      BY <2>5 DEF Equals
    <3> QED BY <2>6, <2>7, <3>1, DividedEquals
  <2>10. PICK y \in Nat, z \in Nat \ {0} : y = s * v /\ z = t * u /\ y <= 1 * z
    <3>1. s * v <= 1 * (t * u)
      BY <2>8
    <3> QED BY <2>9, <3>1
  <2>11. Bounded(Divided(f, g), 1)
    BY <2>9, <2>10, EqualsBounded
  <2> QED BY <1>5, <1>7, <2>4, <2>11
<1> QED BY <1>6, <1>7

\* Windows over shares.
LEMMA StochShares ==
    ASSUME NEW v, Shares(v), NEW n \in Nat \ {0}
    PROVE  Shares(Viewed("stoch", v, n))
<1>1. PICK l \in Nat : l = Len(v) /\ Sequence(v)
  BY SequenceIs DEF Shares
<1>2. PICK x : x = Viewed("stoch", v, n)
  OBVIOUS
<1>3. /\ Sequence(x) /\ Len(x) = IF l < n THEN 0 ELSE l - n + 1
      /\ ~(l < n) => \A i \in 1..(l - n + 1) : x[i] = View("stoch", n, SubSeq(v, i, i + n - 1))
  BY <1>1, <1>2, ViewedLong
<1>4. ASSUME NEW i \in 1..Len(x) PROVE Bounded(x[i], 1)
  <2>1. ~(l < n) /\ i \in 1..(l - n + 1)
    BY <1>3, <1>4
  <2>2. PICK w : w = SubSeq(v, i, i + n - 1)
    OBVIOUS
  <2>3. Shares(w) /\ Len(w) = n
    BY <1>1, <2>1, <2>2, SharesIn
  <2>4. x[i] = Stoch(w)
    BY <1>3, <2>1, <2>2 DEF View
  <2> QED BY <2>3, <2>4, StochBounded
<1> QED BY <1>2, <1>3, <1>4 DEF Shares

\* The two lines of the StochRSI are shares.
LEMMA StochRSIShares ==
    ASSUME ExactScale, NEW c, Proper(c), NEW n \in Periods, NEW k \in Nat \ {0}, NEW d \in Nat \ {0},
           NEW x, x = StochRSI(c, n, k, d), NEW i \in 1..Len(x)
    PROVE  Bounded(x[i].k, 1) /\ Bounded(x[i].d, 1)
<1>1. PICK v : v = Viewed("stoch", RSI(c, n), k) /\ Shares(v)
  BY RSIShares, StochShares
<1>2. PICK l \in Nat : l = Len(v) /\ Sequence(v)
  BY <1>1, SequenceIs DEF Shares
<1>3. x = Viewed("kd", v, d)
  BY <1>1, StochRSIIs
<1>4. /\ Sequence(x) /\ Len(x) = IF l < d THEN 0 ELSE l - d + 1
      /\ ~(l < d) => \A j \in 1..(l - d + 1) : x[j] = View("kd", d, SubSeq(v, j, j + d - 1))
  <2>1. PICK y : y = Viewed("kd", v, d)
    OBVIOUS
  <2>2. /\ Sequence(y) /\ Len(y) = IF l < d THEN 0 ELSE l - d + 1
        /\ ~(l < d) => \A j \in 1..(l - d + 1) : y[j] = View("kd", d, SubSeq(v, j, j + d - 1))
    BY <1>2, <2>1, ViewedLong, SMTT(60)
  <2> QED BY <1>3, <2>1, <2>2
<1>5. ~(l < d) /\ i \in 1..(l - d + 1)
  BY <1>4
<1>6. PICK w : w = SubSeq(v, i, i + d - 1)
  OBVIOUS
<1>7. Shares(w) /\ Len(w) = d
  BY <1>1, <1>2, <1>5, <1>6, SharesIn
<1>8. x[i] = KD(w)
  BY <1>4, <1>5, <1>6 DEF View
<1>9. x[i].k = w[d] /\ x[i].d = Mean(w)
  BY <1>7, <1>8 DEF KD, Latest
<1>10. Bounded(w[d], 1)
  <2>1. d \in 1..Len(w)
    BY <1>7
  <2> QED BY <1>7, <2>1 DEF Shares
<1> QED BY <1>7, <1>9, <1>10, MeanBounded

\* A directional index is a share, as neither movement is negative.
LEMMA DXShares ==
    ASSUME ExactScale, NEW c, Proper(c), NEW n \in Periods, 2 * n <= Len(c)
    PROVE  Shares(DX(c, n)) /\ Len(DX(c, n)) = Len(c) - n /\ n <= Len(c) - n
<1>1. n \in Nat \ {0} /\ Depth \in 0..Depth
  BY RungsAre DEF Divisors
<1>2. PICK l \in Nat : l = Len(c) /\ Sequence(c)
  BY ProperAre
<1>3. 1 <= l /\ n <= l - 1 /\ l - 1 - n + 1 = l - n /\ n <= l - n
  BY <1>1, <1>2
<1>4. PICK t, p, m : t = Smooth(TrueRanges(c), n) /\ p = Smooth(PlusMoves(c), n) /\ m = Smooth(MinusMoves(c), n)
  OBVIOUS
<1>5. \A i \in 1..(l - n) : p[i] \in Nat /\ m[i] \in Nat
  <2>1. /\ OnNaturals(PlusMoves(c), Depth) /\ Len(PlusMoves(c)) = l - 1
        /\ OnNaturals(MinusMoves(c), Depth) /\ Len(MinusMoves(c)) = l - 1 /\ l - 1 <= Depth
    BY <1>2, <1>3, MovesOnGrid
  <2>2. \A i \in 1..(Len(PlusMoves(c)) - n + 1) : p[i] \in Nat
    BY <1>1, <1>3, <1>4, <2>1, SmoothOnGrid
  <2>3. \A i \in 1..(Len(MinusMoves(c)) - n + 1) : m[i] \in Nat
    BY <1>1, <1>3, <1>4, <2>1, SmoothOnGrid
  <2> QED BY <1>3, <2>1, <2>2, <2>3
<1>6. PICK x : x = DX(c, n) /\ Sequence(x) /\ Len(x) = l - n /\ DOMAIN t = 1..(l - n)
  BY <1>1, <1>2, <1>4, DXLong
<1>7. ASSUME NEW i \in 1..(l - n) PROVE Bounded(x[i], 1)
  <2>1. x[i] = IF t[i] = 0 \/ p[i] + m[i] = 0 THEN Zero ELSE Frac(Distance(p[i], m[i]), p[i] + m[i])
    BY <1>4, <1>6 DEF DX
  <2>2. PICK a \in Nat, b \in Nat : a = p[i] /\ b = m[i]
    BY <1>5
  <2>3. CASE t[i] = 0 \/ a + b = 0
    BY <2>1, <2>2, <2>3, ZeroAndOne
  <2>4. CASE ~(t[i] = 0 \/ a + b = 0)
    <3>1. PICK y \in Nat, z \in Nat \ {0} : y = Distance(a, b) /\ z = a + b /\ y <= z
      <4>1. Distance(a, b) \in Nat /\ Distance(a, b) <= a + b
        BY DEF Distance, Higher, Lower
      <4>2. a + b \in Nat \ {0}
        BY <2>4
      <4> QED BY <4>1, <4>2
    <3>2. x[i] = Frac(y, z)
      BY <2>1, <2>2, <2>4, <3>1
    <3> QED BY <3>1, <3>2, FracBounded
  <2> QED BY <2>3, <2>4
<1> QED BY <1>2, <1>3, <1>6, <1>7 DEF Shares

\* So is their running average.
LEMMA AverageDXShares ==
    ASSUME NEW v, Shares(v), NEW n \in Nat \ {0}, n <= Len(v)
    PROVE  Shares(AverageDX(v, n))
<1>1. PICK l \in Nat : l = Len(v) /\ Sequence(v)
  BY SequenceIs DEF Shares
<1>2. PICK a, q, e : a = Mean(SubSeq(v, 1, n)) /\ q = Rest(v, n) /\ e = AverageDX(v, n)
  OBVIOUS
<1>3. Sequence(q) /\ Len(q) = l - n /\ \A i \in 1..(l - n) : q[i] = v[n + i]
  BY <1>1, <1>2, RestIs
<1>4. Bounded(a, 1)
  <2>1. PICK i \in 1..(Len(v) - n + 1) : i = 1 /\ i + n - 1 = n
    <3>1. 1 \in 1..(Len(v) - n + 1) /\ 1 + n - 1 = n
      BY <1>1
    <3> QED BY <3>1
  <2>2. PICK w : w = SubSeq(v, i, i + n - 1)
    OBVIOUS
  <2>3. Shares(w) /\ Len(w) = n
    BY <2>2, SharesIn
  <2>4. a = Mean(w)
    BY <1>2, <2>1, <2>2
  <2> QED BY <2>3, <2>4, MeanBounded
<1>5. Grown("adx", n, q, a, e)
  <2>1. "adx" \notin Plain
    BY DEF Plain
  <2>2. e = Running("adx", n, v, a)
    BY <1>2, AverageDXIs
  <2> QED BY <1>1, <1>2, <2>1, <2>2, RunningLong
<1>6. /\ Sequence(e) /\ Len(e) = l - n + 1 /\ e[1] = a
      /\ \A i \in 1..(l - n) : e[i + 1] = Divided(Plus(Times(e[i], n - 1), v[n + i]), Frac(n, 1))
  BY <1>3, <1>5 DEF Grown, Stepped
<1> DEFINE T == {i \in 0..(l - n) : Bounded(e[i + 1], 1)}
<1>7. l - n \in Nat
  BY <1>1
<1>8. 0 \in T
  BY <1>4, <1>6, <1>7
<1>9. ASSUME NEW i \in 0..(l - n - 1), i \in T PROVE i + 1 \in T
  <2>1. PICK j \in 1..(l - n) : j = i + 1 /\ j \in 0..(l - n) /\ n + j \in 1..l
    BY <1>7
  <2>2. Bounded(e[j], 1) /\ Bounded(v[n + j], 1)
    BY <1>1, <1>9, <2>1 DEF Shares
  <2>3. n - 1 \in Nat /\ n - 1 + 1 = n
    OBVIOUS
  <2>4. Bounded(Times(e[j], n - 1), n - 1)
    BY <2>2, <2>3, TimesBounded
  <2>5. Bounded(Plus(Times(e[j], n - 1), v[n + j]), n - 1 + 1)
    BY <2>2, <2>3, <2>4, PlusBounded
  <2>6. Bounded(Divided(Plus(Times(e[j], n - 1), v[n + j]), Frac(n, 1)), 1)
    BY <2>3, <2>5, DividedBounded
  <2> QED BY <1>6, <2>1, <2>6
<1>10. ASSUME NEW i \in 1..(l - n + 1) PROVE Bounded(e[i], 1)
  <2>1. PICK j \in 0..(l - n) : i = j + 1
    <3>1. i - 1 \in 0..(l - n) /\ i = i - 1 + 1
      BY <1>7
    <3> QED BY <3>1
  <2>2. j \in T
    <3> HIDE DEF T
    <3> QED BY <1>7, <1>8, <1>9, InductionUpTo
  <2> QED BY <2>1, <2>2
<1> QED BY <1>2, <1>6, <1>10 DEF Shares

\* The ADX is a share.
LEMMA ADXShares ==
    ASSUME ExactScale, NEW c, Proper(c), NEW n \in Periods, NEW x, x = ADX(c, n), NEW i \in 1..Len(x)
    PROVE  Bounded(x[i].adx, 1)
<1>1. n \in Nat \ {0} /\ Sequence(c) /\ Len(c) \in Nat
  BY RungsAre, ProperAre DEF Divisors
<1>2. ~(Len(c) < 2 * n) /\ 2 * n <= Len(c) /\ Len(x) = Len(c) - (2 * n - 1)
  <2>1. Len(x) = IF Len(c) <= 2 * n - 1 THEN 0 ELSE Len(c) - (2 * n - 1)
    BY <1>1, ADXLong
  <2>2. PICK l \in Nat : l = Len(c)
    BY <1>1
  <2>3. ~(l <= 2 * n - 1)
    BY <2>1, <2>2
  <2> QED BY <1>1, <2>1, <2>2, <2>3
<1>3. PICK a : a = AverageDX(DX(c, n), n) /\ Shares(a) /\ Len(a) = Len(x)
  <2>1. Len(AverageDX(DX(c, n), n)) = Len(c) - (2 * n - 1)
    BY <1>1, <1>2, DXLong
  <2> QED BY <1>1, <1>2, <2>1, DXShares, AverageDXShares
<1>4. x = [j \in DOMAIN a |-> [adx |-> a[j], plusDI |-> Smooth(PlusMoves(c), n)[j + n - 1],
                                minusDI |-> Smooth(MinusMoves(c), n)[j + n - 1]]]
  BY <1>2, <1>3, ADXIs
<1>5. DOMAIN a = 1..Len(a)
  BY <1>3, SequenceIs DEF Shares
<1>6. x[i].adx = a[i]
  BY <1>3, <1>4, <1>5
<1> QED BY <1>3, <1>5, <1>6 DEF Shares

\* The highest and the lowest of a field of a window are folds.
LEMMA TopsAre ==
    ASSUME NEW w, NEW f, NEW b
    PROVE  /\ FoldLeft(LAMBDA a, k : Higher(a, k[f]), b, w) = FoldOf("highest", f, w, b)
           /\ FoldLeft(LAMBDA a, k : Lower(a, k[f]), b, w) = FoldOf("lowest", f, w, b)
<1>1. FoldLeft(LAMBDA a, k : Higher(a, k[f]), b, w) = FoldOf("highest", f, w, b)
  <2> DEFINE Eq(g) == g = [t \in SUBSET DOMAIN w |->
                             IF t = {} THEN b ELSE Higher(g[t \ {Max(t)}], w[Max(t)][f])]
  <2>1. \A g : Eq(g) <=> Folding("highest", f, w, b, DOMAIN w, g)
    BY DEF Folding, Combine, Gathered, Plain
  <2>2. FoldLeft(LAMBDA a, k : Higher(a, k[f]), b, w) = (CHOOSE g : Eq(g))[DOMAIN w]
    BY DEF FoldLeft, MapThenFoldSet
  <2> HIDE DEF Eq
  <2>3. (CHOOSE g : Eq(g)) = CHOOSE g : Folding("highest", f, w, b, DOMAIN w, g)
    BY <2>1
  <2> QED BY <2>2, <2>3 DEF FoldOf
<1>2. FoldLeft(LAMBDA a, k : Lower(a, k[f]), b, w) = FoldOf("lowest", f, w, b)
  <2> DEFINE Eq(g) == g = [t \in SUBSET DOMAIN w |->
                             IF t = {} THEN b ELSE Lower(g[t \ {Max(t)}], w[Max(t)][f])]
  <2>1. \A g : Eq(g) <=> Folding("lowest", f, w, b, DOMAIN w, g)
    BY DEF Folding, Combine, Gathered, Plain
  <2>2. FoldLeft(LAMBDA a, k : Lower(a, k[f]), b, w) = (CHOOSE g : Eq(g))[DOMAIN w]
    BY DEF FoldLeft, MapThenFoldSet
  <2> HIDE DEF Eq
  <2>3. (CHOOSE g : Eq(g)) = CHOOSE g : Folding("lowest", f, w, b, DOMAIN w, g)
    BY <2>1
  <2> QED BY <2>2, <2>3 DEF FoldOf
<1> QED BY <1>1, <1>2

\* The highest and the lowest value of a field.
IsTop(w, f, x) ==
    x \in Int /\ (\A i \in 1..Len(w) : w[i][f] <= x) /\ \E i \in 1..Len(w) : x = w[i][f]
IsBottom(w, f, x) ==
    x \in Int /\ (\A i \in 1..Len(w) : x <= w[i][f]) /\ \E i \in 1..Len(w) : x = w[i][f]

\* Which is what the folds find.
LEMMA TopFound ==
    ASSUME NEW w, Sequence(w), Len(w) # 0, NEW f, \A i \in 1..Len(w) : w[i][f] \in Int
    PROVE  IsTop(w, f, FoldOf("highest", f, w, w[1][f]))
<1>1. PICK n \in Nat \ {0} : n = Len(w)
  BY SequenceIs
<1>2. PICK s : Follows("highest", f, w, w[1][f], s) /\ FoldOf("highest", f, w, w[1][f]) = s[n]
  <2>1. "highest" \in Plain
    BY DEF Plain
  <2> QED BY <1>1, <2>1, PlainFolds
<1>3. s[0] = w[1][f] /\ \A i \in Nat : i < n => s[i + 1] = Higher(s[i], w[i + 1][f])
  BY <1>1, <1>2 DEF Follows, Gathered
<1> DEFINE Good(i, x) == /\ x \in Int /\ \A j \in 1..i : w[j][f] <= x
                         /\ \E j \in 1..n : x = w[j][f]
           T == {i \in 0..n : Good(i, s[i])}
<1>4. 0 \in T
  <2>1. 0 \in 0..n /\ 1 \in 1..n /\ \A j \in 1..0 : FALSE
    OBVIOUS
  <2>2. w[1][f] \in Int
    BY <1>1, <2>1
  <2>3. Good(0, s[0])
    BY <1>3, <2>1, <2>2
  <2> HIDE DEF Good
  <2> QED BY <2>1, <2>3
<1>5. ASSUME NEW i \in 0..(n - 1), i \in T PROVE i + 1 \in T
  <2>1. i \in Nat /\ i < n /\ i + 1 \in 0..n /\ i + 1 \in 1..n
    OBVIOUS
  <2>2. Good(i, s[i]) /\ w[i + 1][f] \in Int
    BY <1>1, <1>5, <2>1
  <2>3. PICK x \in Int, y \in Int : x = s[i] /\ y = w[i + 1][f]
    BY <2>2
  <2>4. PICK z : z = s[i + 1]
    OBVIOUS
  <2>5. z \in Int /\ x <= z /\ y <= z /\ (z = x \/ z = y)
    BY <1>3, <2>1, <2>3, <2>4 DEF Higher
  <2>6. ASSUME NEW j \in 1..(i + 1) PROVE w[j][f] <= z
    <3>1. CASE j = i + 1
      BY <2>3, <2>5, <3>1
    <3>2. CASE j # i + 1
      <4>1. j \in 1..i /\ j \in 1..n
        BY <2>1, <3>2
      <4>2. w[j][f] <= x /\ w[j][f] \in Int
        BY <1>1, <2>2, <2>3, <4>1
      <4> QED BY <2>5, <4>2
    <3> QED BY <3>1, <3>2
  <2>7. \E j \in 1..n : z = w[j][f]
    BY <2>1, <2>2, <2>3, <2>5
  <2>8. Good(i + 1, z)
    BY <2>5, <2>6, <2>7
  <2> HIDE DEF Good
  <2> QED BY <2>1, <2>4, <2>8
<1>6. Good(n, s[n])
  <2> HIDE DEF Good
  <2>1. n \in 0..n /\ n \in Nat
    OBVIOUS
  <2>2. n \in T
    <3> HIDE DEF T
    <3> QED BY <1>4, <1>5, <2>1, InductionUpTo
  <2> QED BY <2>2
<1> QED BY <1>1, <1>2, <1>6 DEF IsTop

\* The same for the lowest.
LEMMA BottomFound ==
    ASSUME NEW w, Sequence(w), Len(w) # 0, NEW f, \A i \in 1..Len(w) : w[i][f] \in Int
    PROVE  IsBottom(w, f, FoldOf("lowest", f, w, w[1][f]))
<1>1. PICK n \in Nat \ {0} : n = Len(w)
  BY SequenceIs
<1>2. PICK s : Follows("lowest", f, w, w[1][f], s) /\ FoldOf("lowest", f, w, w[1][f]) = s[n]
  <2>1. "lowest" \in Plain
    BY DEF Plain
  <2> QED BY <1>1, <2>1, PlainFolds
<1>3. s[0] = w[1][f] /\ \A i \in Nat : i < n => s[i + 1] = Lower(s[i], w[i + 1][f])
  BY <1>1, <1>2 DEF Follows, Gathered
<1> DEFINE Good(i, x) == /\ x \in Int /\ \A j \in 1..i : x <= w[j][f]
                         /\ \E j \in 1..n : x = w[j][f]
           T == {i \in 0..n : Good(i, s[i])}
<1>4. 0 \in T
  <2>1. 0 \in 0..n /\ 1 \in 1..n /\ \A j \in 1..0 : FALSE
    OBVIOUS
  <2>2. w[1][f] \in Int
    BY <1>1, <2>1
  <2>3. Good(0, s[0])
    BY <1>3, <2>1, <2>2
  <2> HIDE DEF Good
  <2> QED BY <2>1, <2>3
<1>5. ASSUME NEW i \in 0..(n - 1), i \in T PROVE i + 1 \in T
  <2>1. i \in Nat /\ i < n /\ i + 1 \in 0..n /\ i + 1 \in 1..n
    OBVIOUS
  <2>2. Good(i, s[i]) /\ w[i + 1][f] \in Int
    BY <1>1, <1>5, <2>1
  <2>3. PICK x \in Int, y \in Int : x = s[i] /\ y = w[i + 1][f]
    BY <2>2
  <2>4. PICK z : z = s[i + 1]
    OBVIOUS
  <2>5. z \in Int /\ z <= x /\ z <= y /\ (z = x \/ z = y)
    BY <1>3, <2>1, <2>3, <2>4 DEF Lower
  <2>6. ASSUME NEW j \in 1..(i + 1) PROVE z <= w[j][f]
    <3>1. CASE j = i + 1
      BY <2>3, <2>5, <3>1
    <3>2. CASE j # i + 1
      <4>1. j \in 1..i /\ j \in 1..n
        BY <2>1, <3>2
      <4>2. x <= w[j][f] /\ w[j][f] \in Int
        BY <1>1, <2>2, <2>3, <4>1
      <4> QED BY <2>5, <4>2
    <3> QED BY <3>1, <3>2
  <2>7. \E j \in 1..n : z = w[j][f]
    BY <2>1, <2>2, <2>3, <2>5
  <2>8. Good(i + 1, z)
    BY <2>5, <2>6, <2>7
  <2> HIDE DEF Good
  <2> QED BY <2>1, <2>4, <2>8
<1>6. Good(n, s[n])
  <2> HIDE DEF Good
  <2>1. n \in 0..n /\ n \in Nat
    OBVIOUS
  <2>2. n \in T
    <3> HIDE DEF T
    <3> QED BY <1>4, <1>5, <2>1, InductionUpTo
  <2> QED BY <2>2
<1> QED BY <1>1, <1>2, <1>6 DEF IsBottom

\* HighestHigh and LowestLow of a window of proper candles.
LEMMA ChannelFound ==
    ASSUME NEW w, Sequence(w), Len(w) # 0, \A i \in 1..Len(w) : w[i].high \in Int /\ w[i].low \in Int
    PROVE  IsTop(w, "high", HighestHigh(w)) /\ IsBottom(w, "low", LowestLow(w))
<1>1. HighestHigh(w) = FoldOf("highest", "high", w, w[1]["high"])
  BY TopsAre DEF HighestHigh
<1>2. LowestLow(w) = FoldOf("lowest", "low", w, w[1]["low"])
  BY TopsAre DEF LowestLow
<1> QED BY <1>1, <1>2, TopFound, BottomFound

\* The share of the range above the close is one: nothing is divided by zero, either.
LEMMA AboveCloseBounded ==
    ASSUME NEW w, Sequence(w), Len(w) # 0,
           \A i \in 1..Len(w) : /\ w[i].high \in Int /\ w[i].low \in Int /\ w[i].close \in Int
                                /\ w[i].low <= w[i].close /\ w[i].close <= w[i].high
    PROVE  Bounded(AboveClose(w), 1)
<1>1. PICK n \in 1..Len(w) : n = Len(w)
  BY SequenceIs
<1>2. PICK h \in Int, l \in Int, k \in Int : h = HighestHigh(w) /\ l = LowestLow(w) /\ k = w[n].close
  <2>1. HighestHigh(w) \in Int /\ LowestLow(w) \in Int
    BY ChannelFound DEF IsTop, IsBottom
  <2>2. w[n].close \in Int
    BY <1>1
  <2> QED BY <2>1, <2>2
<1>3. l <= k /\ k <= h
  <2>1. IsTop(w, "high", h) /\ IsBottom(w, "low", l)
    BY <1>2, ChannelFound
  <2>2. w[n].high <= h /\ l <= w[n].low
    BY <2>1 DEF IsTop, IsBottom
  <2> QED BY <1>2, <2>2
<1>4. AboveClose(w) = IF h = l THEN Frac(1, 2) ELSE Frac(h - k, h - l)
  BY <1>1, <1>2 DEF AboveClose, Latest
<1>5. CASE h = l
  BY <1>4, <1>5, FracBounded
<1>6. CASE h # l
  <2>1. h - k \in Nat /\ h - l \in Nat \ {0} /\ h - k <= h - l
    BY <1>3, <1>6
  <2>2. Bounded(Frac(h - k, h - l), 1)
    BY <2>1, FracBounded
  <2> QED BY <1>4, <1>6, <2>2
<1> QED BY <1>5, <1>6

\* The Williams %R is a share.
LEMMA WilliamsShares ==
    ASSUME NEW c, Proper(c), NEW n \in Nat \ {0}, NEW x, x = WilliamsR(c, n), NEW i \in 1..Len(x)
    PROVE  Bounded(x[i], 1)
<1>1. PICK l \in Nat : l = Len(c) /\ Sequence(c)
  BY ProperAre
<1>2. /\ Sequence(x) /\ Len(x) = IF l < n THEN 0 ELSE l - n + 1
      /\ ~(l < n) => \A j \in 1..(l - n + 1) : x[j] = View("range", n, SubSeq(c, j, j + n - 1))
  BY <1>1, ChannelsAre, ViewedLong
<1>3. n <= l /\ i \in 1..(l - n + 1)
  BY <1>2
<1>4. PICK k \in Nat : /\ k = i + n - 1 /\ k <= l /\ i <= k + 1 /\ k - i + 1 = n
                       /\ \A j \in 1..n : i + j - 1 \in 1..l
  <2>1. /\ i + n - 1 \in Nat /\ i + n - 1 <= l /\ i <= (i + n - 1) + 1 /\ (i + n - 1) - i + 1 = n
        /\ \A j \in 1..n : i + j - 1 \in 1..l
    BY <1>3
  <2> QED BY <2>1
<1>5. PICK w : w = SubSeq(c, i, k)
  OBVIOUS
<1>6. Sequence(w) /\ Len(w) = n /\ \A j \in 1..n : w[j] = c[i + j - 1]
  BY <1>1, <1>4, <1>5, Part
<1>7. ASSUME NEW j \in 1..n
      PROVE  /\ w[j].high \in Int /\ w[j].low \in Int /\ w[j].close \in Int
             /\ w[j].low <= w[j].close /\ w[j].close <= w[j].high
  <2>1. PICK m \in 1..l : m = i + j - 1 /\ w[j] = c[m]
    BY <1>4, <1>6
  <2>2. /\ c[m].high \in Nat /\ c[m].low \in Nat /\ c[m].close \in Nat
        /\ c[m].low <= c[m].close /\ c[m].close <= c[m].high
    BY <1>1, ProperAre
  <2> QED BY <2>1, <2>2
<1>8. Bounded(AboveClose(w), 1)
  BY <1>6, <1>7, AboveCloseBounded
<1>9. x[i] = AboveClose(w)
  <2>1. x[i] = View("range", n, w)
    BY <1>2, <1>3, <1>4, <1>5
  <2> QED BY <2>1 DEF View
<1> QED BY <1>8, <1>9

\* An average of the closes obeys the recursion and is whole.
LEMMA ClosesAverage ==
    ASSUME ExactScale, NEW c, Proper(c), NEW n \in Periods, n <= Len(c), NEW e, e = EMA(Closes(c), n)
    PROVE  /\ Sequence(Closes(c)) /\ Len(Closes(c)) = Len(c) /\ \A i \in 1..Len(c) : Closes(c)[i] \in Int
           /\ EMAOf(Closes(c), n, e) /\ Sequence(e) /\ Len(e) = Len(c) - n + 1
           /\ \A i \in 1..Len(e) : e[i] \in Int
<1>1. PICK l \in Nat : l = Len(c) /\ Sequence(c) /\ l <= Depth
  <2>1. Len(c) \in Nat /\ Len(c) <= MaxBars /\ MaxBars \in Nat /\ Sequence(c)
    BY ProperAre, SignalsConstantsOK
  <2>2. Len(c) <= Depth
    BY <2>1 DEF Depth
  <2> QED BY <2>1, <2>2
<1>2. n \in Nat \ {0} /\ Depth \in 0..Depth /\ Depth \in Nat
  BY RungsAre DEF Divisors
<1>3. PICK v : v = Closes(c) /\ Sequence(v) /\ Len(v) = l /\ \A i \in 1..l : v[i] = Scale * c[i].close
  BY <1>1, ClosesAre
<1>4. \A i \in 1..l : c[i].close \in Nat
  BY <1>1, ProperAre
<1>5. \A i \in 1..l : v[i] \in Grid(Depth) /\ v[i] \in Int
  <2>1. ASSUME NEW i \in 1..l PROVE v[i] \in Grid(Depth) /\ v[i] \in Int
    <3>1. PICK m \in Nat : m = c[i].close
      BY <1>4
    <3>2. v[i] = Scale * m
      BY <1>3, <3>1
    <3>3. Scale * m \in Grid(Depth)
      BY PricesOnGrid
    <3>4. Scale * m \in Int
      BY ScaleAssumption
    <3> QED BY <3>2, <3>3, <3>4
  <2> QED BY <2>1
<1>6. OnGrid(v, Depth)
  BY <1>3, <1>5 DEF OnGrid
<1>7. OnLadder(e, Depth) /\ EMAOf(v, n, e)
  BY <1>1, <1>2, <1>3, <1>6, EMAOnGrid
<1>8. Sequence(e) /\ Len(e) = l - n + 1
  BY <1>3, <1>7 DEF EMAOf
<1>9. ASSUME NEW i \in 1..Len(e) PROVE e[i] \in Int
  <2>1. e[i] \in Grid(Depth - i)
    BY <1>7 DEF OnLadder
  <2>2. Depth - i \in 0..Depth
    BY <1>1, <1>2, <1>8
  <2>3. Grid(Depth - i) \subseteq Int
    BY <2>2, GridIs
  <2> QED BY <2>1, <2>3
<1> QED BY <1>1, <1>3, <1>5, <1>7, <1>8, <1>9

\* The parts of MatchesReference that are about averages.
LatestAt(c, n) == Latest(EMA(Closes(c), n))
MeanHolds(c, x) == x # <<>> => Latest(x) = MeanOfLatest(Closes(c), P.bollinger_bands.period)
SumHolds(c, x, n) ==
    x # <<>> => Power(n + 1, Len(Closes(c)) - n) * Latest(x) = WeightedSum(Closes(c), n)

\* The periods' averages have what is divided come out.
LEMMA PeriodsAre ==
    /\ P.ema_cross.slow \in Periods /\ P.macd_cross.fast \in Periods /\ P.macd_cross.slow \in Periods
    /\ P.keltner_channel.period \in Periods /\ P.rsi_mean_revert.period \in Periods
    /\ P.stoch_rsi.period \in Periods /\ P.dmi_adx.period \in Periods
BY DEF Periods

\* The recursion of the EMA comes to its weighted sum.
LEMMA SlowIsWeighted ==
    ASSUME ExactScale, NEW c, Proper(c), NEW x, x = EMA(Closes(c), P.ema_cross.slow)
    PROVE  SumHolds(c, x, P.ema_cross.slow)
<1>1. PICK n : n = P.ema_cross.slow /\ n \in Periods /\ n \in Nat \ {0}
  BY PeriodsAre, PeriodsOK
<1>2. Len(c) \in Nat /\ Sequence(c)
  BY ProperAre
<1>3. ASSUME x # <<>> PROVE Power(n + 1, Len(Closes(c)) - n) * Latest(x) = WeightedSum(Closes(c), n)
  <2>1. Sequence(Closes(c)) /\ Len(Closes(c)) = Len(c)
    BY <1>2, ClosesAre
  <2>2. n <= Len(c)
    <3>1. ~(Len(Closes(c)) < n)
      BY <1>1, <1>3 DEF EMA
    <3> QED BY <1>1, <1>2, <2>1, <3>1
  <2>3. /\ \A i \in 1..Len(c) : Closes(c)[i] \in Int
        /\ EMAOf(Closes(c), n, x) /\ \A i \in 1..Len(x) : x[i] \in Int
    BY <1>1, <2>2, ClosesAverage
  <2> QED BY <1>1, <2>1, <2>2, <2>3, EMAIsWeighted
<1> QED BY <1>1, <1>3 DEF SumHolds

\* The latest Keltner band is about the average of its own bar.
LEMMA KeltnerLatest ==
    ASSUME ExactScale, P.keltner_channel.halves \in Nat, NEW c, Proper(c),
           NEW x, x = KeltnerChannel(c, P.keltner_channel.period, P.keltner_channel.halves), x # <<>>
    PROVE  \E mid \in Int, y \in Nat :
              /\ mid = LatestAt(c, P.keltner_channel.period)
              /\ y = Over(P.keltner_channel.halves * Latest(ATR(c, P.keltner_channel.period)), 2)
              /\ Latest(x) = [upper |-> mid + y, middle |-> mid, lower |-> mid - y]
<1>1. PICK n : n = P.keltner_channel.period /\ n \in Periods /\ n \in Nat \ {0}
  BY PeriodsAre, PeriodsOK
<1>2. PICK h \in Nat : h = P.keltner_channel.halves
  OBVIOUS
<1>3. PICK l \in Nat : l = Len(c) /\ Sequence(c)
  BY ProperAre
<1>4. Sequence(x) /\ Len(x) = IF l <= n THEN 0 ELSE l - n
  BY <1>1, <1>2, <1>3, KeltnerLong
<1>5. \E mid \in Int, y \in Nat :
         /\ mid = LatestAt(c, n) /\ y = Over(h * Latest(ATR(c, n)), 2)
         /\ Latest(x) = [upper |-> mid + y, middle |-> mid, lower |-> mid - y]
  <2>1. ~(l <= n)
    BY <1>4, SequenceIs
  <2>2. PICK m \in Nat \ {0} : m = l - n /\ n + m = l /\ n < l /\ n <= l
    <3>1. l - n \in Nat \ {0} /\ n + (l - n) = l /\ n < l /\ n <= l
      BY <1>1, <2>1
    <3> QED BY <3>1
  <2>3. PICK a, e : a = ATR(c, n) /\ e = EMA(Closes(c), n)
    OBVIOUS
  <2>4. Sequence(a) /\ Len(a) = m /\ OnLadder(a, Depth) /\ \A i \in 1..m : a[i] \in Nat
    BY <1>1, <1>3, <2>2, <2>3, ATROnGrid
  <2>5. Sequence(e) /\ Len(e) = m + 1 /\ \A i \in 1..(m + 1) : e[i] \in Int
    <3>1. Len(e) = l - n + 1 /\ Sequence(e) /\ \A i \in 1..Len(e) : e[i] \in Int
      <4>1. n \in Periods /\ n <= Len(c) /\ e = EMA(Closes(c), n)
        BY <1>1, <1>3, <2>2, <2>3, Zenon
      <4>2. Len(e) = Len(c) - n + 1 /\ Sequence(e) /\ \A i \in 1..Len(e) : e[i] \in Int
        BY ONLY ExactScale, Proper(c), <4>1, ClosesAverage
      <4> QED BY <1>3, <4>2
    <3> QED BY <2>2, <3>1
  <2>6. Latest(x) = x[m] /\ m \in 1..m /\ m \in DOMAIN a
    <3>1. DOMAIN a = 1..m
      BY <2>4, SequenceIs
    <3> QED BY <1>4, <2>1, <2>2, <3>1 DEF Latest
  <2>7. PICK y : y = Over(h * a[m], 2)
    OBVIOUS
  <2>8. y \in Nat
    <3>1. PICK z \in Nat : z = a[m] /\ z \in Grid(Depth - m)
      BY <2>4, <2>6 DEF OnLadder
    <3>2. m <= Depth - 1 /\ Depth \in Nat
      <4>1. l <= MaxBars /\ MaxBars \in Nat
        BY <1>3, ProperAre, SignalsConstantsOK
      <4> QED BY <1>1, <2>2, <4>1 DEF Depth
    <3>3. PICK k \in 1..Depth : k = Depth - m /\ k \in 0..Depth
      <4>1. Depth - m \in 1..Depth /\ Depth - m \in 0..Depth
        BY ONLY <3>2, m \in Nat \ {0}
      <4> QED BY <4>1
    <3>4. h * z \in Grid(k)
      <4>1. h \in Int /\ z \in Grid(k)
        BY <3>1, <3>3
      <4> QED BY ONLY ExactScale, <3>3, <4>1, GridIs
    <3>5. Over(h * z, 2) \in Int /\ Over(h * z, 2) * 2 = h * z
      <4>1. 2 \in Divisors
        BY DEF Divisors
      <4> QED BY <3>4, <4>1, ComesOut
    <3>6. y \in Int /\ y * 2 = h * z
      BY <2>7, <3>1, <3>5
    <3>7. h * z >= 0
      BY <3>1
    <3>8. PICK w \in Int : w = h * z
      BY <3>1
    <3> QED BY <3>6, <3>7, <3>8
  <2>9. PICK mid \in Int : mid = e[m + 1]
    BY <2>5
  <2>10. x[m] = [upper |-> mid + y, middle |-> mid, lower |-> mid - y]
    <3>1. m + (m + 1) - m = m + 1
      BY ONLY m \in Nat \ {0}, SMTT(60)
    <3>2. x[m] = LET z == e[m + Len(e) - Len(a)]
                 IN [upper |-> z + y, middle |-> z, lower |-> z - y]
      BY <1>1, <1>2, <2>3, <2>6, <2>7 DEF KeltnerChannel
    <3> QED BY <2>4, <2>5, <2>9, <3>1, <3>2
  <2>11. LatestAt(c, n) = mid
    BY <2>3, <2>5, <2>9 DEF LatestAt, Latest
  <2>12. y = Over(h * Latest(ATR(c, n)), 2)
    BY <2>3, <2>4, <2>7 DEF Latest
  <2> QED BY <2>6, <2>8, <2>10, <2>11, <2>12
<1> QED BY <1>1, <1>2, <1>5, Zenon

\* The average of a bar is in the series, where its bar is.
LEMMA AverageOfBar ==
    ASSUME NEW v, Sequence(v), NEW n \in Nat \ {0}, NEW j \in Nat, n <= j, j <= Len(v)
    PROVE  AverageAt(v, n, j) = EMA(v, n)[j - n + 1]
<1>1. PICK u : u = SubSeq(v, 1, j)
  OBVIOUS
<1>2. Sequence(u) /\ Len(u) = j /\ \A i \in 1..j : u[i] = v[i]
  <2>1. 1 \in Nat \ {0} /\ 1 <= j + 1 /\ j - 1 + 1 = j
    OBVIOUS
  <2>2. Sequence(u) /\ Len(u) = j /\ \A i \in 1..j : u[i] = v[1 + i - 1]
    BY <1>1, <2>1, Part
  <2>3. \A i \in 1..j : 1 + i - 1 = i
    OBVIOUS
  <2> QED BY <2>2, <2>3
<1>3. Agree(u, v, j)
  BY <1>2 DEF Agree
<1>4. Agree(EMA(u, n), EMA(v, n), j - n + 1)
  BY <1>3, EMAAlike
<1>5. PICK m \in Nat \ {0} : m = j - n + 1
  <2>1. j - n + 1 \in Nat \ {0}
    OBVIOUS
  <2> QED BY <2>1
<1>6. Len(EMA(u, n)) = m
  <2>1. Len(EMA(u, n)) = IF j < n THEN 0 ELSE j - n + 1
    BY <1>2, EMALong
  <2> QED BY <1>5, <2>1
<1>7. EMA(u, n)[m] = EMA(v, n)[m]
  <2>1. m \in 1..m
    OBVIOUS
  <2> QED BY ONLY <1>4, <1>5, <2>1 DEF Agree
<1> QED BY ONLY <1>1, <1>5, <1>6, <1>7 DEF AverageAt, Latest

\* What is subtracted are averages of the same bar.
LEMMA LinesOfBars ==
    ASSUME NEW c, Sequence(c), NEW fast \in Nat \ {0}, NEW slow \in Nat \ {0}, fast <= slow,
           ~(Len(c) < slow), NEW k
    PROVE  Line(c, fast, slow, k) = LineOfBars(Closes(c), fast, slow, k)
<1>1. PICK l \in Nat : l = Len(c) /\ slow <= l
  BY SequenceIs
<1>2. PICK v : v = Closes(c) /\ Sequence(v) /\ Len(v) = l
  BY <1>1, ClosesAre
<1>3. PICK a, b : a = EMA(v, fast) /\ b = EMA(v, slow)
  OBVIOUS
<1>4. PICK m \in Nat \ {0} : m = l - slow + 1
  <2>1. l - slow + 1 \in Nat \ {0}
    BY <1>1
  <2> QED BY <2>1
<1>5. PICK h \in Nat : h = slow - fast
  <2>1. slow - fast \in Nat
    OBVIOUS
  <2> QED BY <2>1
<1>6. Len(a) = m + h /\ Len(b) = m /\ DOMAIN b = 1..m
  <2>1. Len(a) = (IF l < fast THEN 0 ELSE l - fast + 1) /\ Len(b) = (IF l < slow THEN 0 ELSE l - slow + 1) /\ Sequence(b)
    BY <1>2, <1>3, EMALong
  <2>2. Len(a) = m + h /\ Len(b) = m
    BY <1>1, <1>4, <1>5, <2>1
  <2> QED BY <2>1, <2>2, SequenceIs
<1>7. Line(c, fast, slow, k) = [i \in 1..m |-> k * a[i + (m + h) - m] - b[i]]
  BY <1>2, <1>3, <1>6 DEF Line, Difference
<1>8. LineOfBars(v, fast, slow, k)
        = [i \in 1..m |-> k * AverageAt(v, fast, i + slow - 1) - AverageAt(v, slow, i + slow - 1)]
  BY <1>2, <1>4 DEF LineOfBars
<1>9. ASSUME NEW i \in 1..m
      PROVE  /\ a[i + (m + h) - m] = AverageAt(v, fast, i + slow - 1)
             /\ b[i] = AverageAt(v, slow, i + slow - 1)
  <2>1. PICK j \in Nat : /\ j = i + slow - 1 /\ fast <= j /\ slow <= j /\ j <= l
                         /\ j - slow + 1 = i /\ j - fast + 1 = i + (m + h) - m
    <3>1. /\ i + slow - 1 \in Nat /\ fast <= i + slow - 1 /\ slow <= i + slow - 1 /\ i + slow - 1 <= l
          /\ (i + slow - 1) - slow + 1 = i /\ (i + slow - 1) - fast + 1 = i + (m + h) - m
      BY <1>1, <1>4, <1>5
    <3> QED BY <3>1
  <2> QED BY <1>2, <1>3, <2>1, AverageOfBar
<1> QED BY <1>2, <1>7, <1>8, <1>9

\* The MACD, its signal and the Hull average go over lines of the same bars.
LEMMA LinesHold ==
    ASSUME NEW c, Sequence(c), NEW x,
           x.macd_cross = MACD(c, P.macd_cross.fast, P.macd_cross.slow, P.macd_cross.signal),
           x.hull_ma = HullMA(c, P.hull_ma.period, P.hull_ma.half, P.hull_ma.root)
    PROVE  LinesMatch(c, x)
<1>1. PICK f \in Nat \ {0}, s \in Nat \ {0}, m \in Nat \ {0} :
        f = P.macd_cross.fast /\ s = P.macd_cross.slow /\ m = P.macd_cross.signal /\ f <= s
  BY PeriodsOK
<1>2. PICK n \in Nat \ {0}, h \in Nat \ {0}, r \in Nat \ {0} :
        n = P.hull_ma.period /\ h = P.hull_ma.half /\ r = P.hull_ma.root /\ h <= n
  BY PeriodsOK
<1>3. PICK y : y = x.macd_cross
  OBVIOUS
<1>4. ASSUME y # <<>>, NEW line, line = LineOfBars(Closes(c), f, s, 1)
      PROVE  /\ Latest(y).macd = Latest(line) /\ Latest(y).signal = Latest(EMA(line, m))
             /\ Latest(y).histogram = Latest(y).macd - Latest(y).signal
  <2>1. y = MACD(c, f, s, m) /\ Sequence(y)
    <3>1. y = MACD(c, f, s, m) /\ f <= s
      BY <1>1, <1>3
    <3>2. Sequence(MACD(c, f, s, m))
      BY ONLY <3>1, Sequence(c), f \in Nat \ {0}, s \in Nat \ {0}, m \in Nat \ {0}, MACDLong, ZenonT(60)
    <3> QED BY ONLY <3>1, <3>2, Zenon
  <2>2. Len(y) # 0
    BY <1>4, <2>1, SequenceIs
  <2>3. ~(Len(c) < s)
    BY <1>1, <1>4, <2>1, MACDIs
  <2>4. line = Line(c, f, s, 1)
    BY <1>1, <1>4, <2>3, LinesOfBars
  <2>5. PICK sig : sig = EMA(line, m)
    OBVIOUS
  <2>6. y = MACDOn(line, sig) /\ Sequence(line)
    BY <1>1, <1>3, <2>3, <2>4, <2>5, MACDOnLine
  <2>7. Sequence(sig)
    BY <2>5, <2>6, EMALong
  <2>8. DOMAIN y = DOMAIN sig
    BY ONLY <2>6 DEF MACDOn
  <2>9. PICK k \in Nat \ {0} : k = Len(y) /\ k = Len(sig) /\ k \in DOMAIN sig
    <3>1. Len(y) \in Nat /\ DOMAIN y = 1..Len(y) /\ Len(sig) \in Nat /\ DOMAIN sig = 1..Len(sig)
      BY <2>1, <2>7, SequenceIs, SMTT(60)
    <3>2. PICK a \in Nat, b \in Nat : a = Len(y) /\ b = Len(sig) /\ 1..a = 1..b /\ DOMAIN sig = 1..b
      BY ONLY <2>8, <3>1, Zenon
    <3>3. a # 0 /\ a \in 1..a
      BY ONLY <2>2, <3>2, a \in Nat
    <3>4. b = a
      BY ONLY <3>2, <3>3, a \in Nat, b \in Nat
    <3> QED BY ONLY <3>2, <3>3, <3>4, a \in Nat
  <2>10. PICK j \in Nat : j = Len(line)
    BY <2>6, SequenceIs
  <2>11. k + j - k = j
    OBVIOUS
  <2>12. y[k] = [macd |-> line[j], signal |-> sig[k], histogram |-> line[j] - sig[k]]
    BY ONLY <2>6, <2>9, <2>10, <2>11 DEF MACDOn
  <2> QED BY ONLY <2>5, <2>9, <2>10, <2>12 DEF Latest
<1>5. ASSUME x.hull_ma # <<>>
      PROVE  Latest(x.hull_ma) = Latest(EMA(LineOfBars(Closes(c), h, n, 2), r))
  <2>1. x.hull_ma = IF Len(c) < n THEN <<>> ELSE EMA(Line(c, h, n, 2), r)
    BY <1>2, HullIs
  <2>2. ~(Len(c) < n)
    BY <1>5, <2>1
  <2>3. Line(c, h, n, 2) = LineOfBars(Closes(c), h, n, 2)
    BY <1>2, <2>2, LinesOfBars
  <2> QED BY <2>1, <2>2, <2>3
<1> QED BY ONLY <1>1, <1>2, <1>3, <1>4, <1>5 DEF LinesMatch

\* The band is about the average of its bar.
LEMMA BandOfBar ==
    ASSUME ExactScale, P.keltner_channel.halves \in Nat, NEW c, Proper(c), NEW x,
           x.keltner_channel = KeltnerChannel(c, P.keltner_channel.period, P.keltner_channel.halves)
    PROVE  BandMatches(c, x)
<1>1. PICK n \in Nat \ {0} : n = P.keltner_channel.period
  BY PeriodsOK
<1>2. PICK h \in Nat : h = P.keltner_channel.halves
  OBVIOUS
<1>3. PICK l \in Nat : l = Len(c) /\ Sequence(c)
  BY ProperAre
<1>4. PICK y : y = x.keltner_channel
  OBVIOUS
<1>5. ASSUME y # <<>>, NEW w, w = Over(h * Latest(EMA(TrueRanges(c), n)), 2)
      PROVE  /\ Latest(y).middle = Latest(EMA(Closes(c), n))
             /\ Latest(y).upper = Latest(y).middle + w /\ Latest(y).lower = Latest(y).middle - w
             /\ Latest(y).lower <= Latest(y).upper
  <2>1. PICK mid \in Int, z \in Nat :
           /\ mid = LatestAt(c, n) /\ z = Over(h * Latest(ATR(c, n)), 2)
           /\ Latest(y) = [upper |-> mid + z, middle |-> mid, lower |-> mid - z]
    BY <1>1, <1>2, <1>4, <1>5, KeltnerLatest
  <2>2. z = w
    <3>1. Sequence(y) /\ Len(y) = IF l <= n THEN 0 ELSE l - n
      BY <1>1, <1>2, <1>3, <1>4, KeltnerLong
    <3>2. Len(y) # 0
      BY <1>5, <3>1, SequenceIs
    <3>3. ~(Len(c) < n + 1)
      BY <1>3, <3>1, <3>2
    <3> QED BY <1>5, <2>1, <3>3 DEF ATR
  <2>3. Latest(y).middle = mid /\ Latest(y).upper = mid + z /\ Latest(y).lower = mid - z
    BY ONLY <2>1
  <2>4. mid - z <= mid + z
    OBVIOUS
  <2> QED BY ONLY <2>1, <2>2, <2>3, <2>4 DEF LatestAt
<1> QED BY ONLY <1>1, <1>2, <1>4, <1>5 DEF BandMatches

\* The latest directional movements are the smoothed ones of the latest candle.
LEMMA MovesOfBar ==
    ASSUME NEW c, Sequence(c), NEW n \in Nat \ {0}, NEW x, x = ADX(c, n), x # <<>>
    PROVE  /\ Latest(x).plusDI = Latest(Smooth(PlusMoves(c), n))
           /\ Latest(x).minusDI = Latest(Smooth(MinusMoves(c), n))
<1>1. PICK l \in Nat : l = Len(c)
  BY SequenceIs
<1>2. Sequence(x) /\ Len(x) = IF l <= 2 * n - 1 THEN 0 ELSE l - (2 * n - 1)
  BY <1>1, ADXLong
<1>3. ~(Len(c) < 2 * n) /\ l >= 2 * n
  <2>1. Len(x) # 0
    BY <1>2, SequenceIs
  <2> QED BY <1>1, <1>2, <2>1
<1>4. PICK k \in Nat \ {0} : k = l - (2 * n - 1) /\ k \in 1..k /\ k + n - 1 = (l - 1) - n + 1
  <2>1. l - (2 * n - 1) \in Nat \ {0} /\ l - (2 * n - 1) + n - 1 = (l - 1) - n + 1
    BY <1>3
  <2> QED BY <2>1
<1>5. Len(x) = k /\ k \in DOMAIN x
  <2>1. Len(x) = k
    BY <1>2, <1>3, <1>4
  <2> QED BY <1>2, <1>4, <2>1, SequenceIs
<1>6. PICK p, m : p = Smooth(PlusMoves(c), n) /\ m = Smooth(MinusMoves(c), n)
  OBVIOUS
<1>7. x[k].plusDI = p[k + n - 1] /\ x[k].minusDI = m[k + n - 1]
  BY <1>3, <1>5, <1>6 DEF ADX
<1>8. /\ Sequence(PlusMoves(c)) /\ Len(PlusMoves(c)) = l - 1
      /\ Sequence(MinusMoves(c)) /\ Len(MinusMoves(c)) = l - 1
  <2>1. l - 1 \in Nat /\ PlusMoves(c) = [i \in 1..(l - 1) |-> PlusMoves(c)[i]]
        /\ MinusMoves(c) = [i \in 1..(l - 1) |-> MinusMoves(c)[i]]
    BY <1>1, <1>3 DEF PlusMoves, MinusMoves
  <2> QED BY <2>1, Listed
<1>9. Len(p) = (l - 1) - n + 1 /\ Len(m) = (l - 1) - n + 1
  <2>1. n <= l - 1 \/ n = 1
    BY <1>3
  <2>2. n <= l - 1
    BY <1>3
  <2> QED BY <1>6, <1>8, <2>2, SmoothedLong
<1> QED BY ONLY <1>4, <1>5, <1>6, <1>7, <1>9 DEF Latest

\* A midpoint of the latest candles is one of their highest high and lowest low.
LEMMA MidpointFound ==
    ASSUME ExactScale, NEW c, Proper(c), NEW n \in Nat \ {0}, n <= Len(c)
    PROVE  IsMidpoint(c, Midpoint(c, Len(c) - n + 1, Len(c)), n)
           /\ Midpoint(c, Len(c) - n + 1, Len(c)) \in Grid(Depth - 1)
<1>1. PICK l \in Nat : l = Len(c) /\ Sequence(c) /\ n <= l
  BY ProperAre
<1>2. PICK b \in Nat : b = l - n
  <2>1. l - n \in Nat
    BY ONLY <1>1, l \in Nat, n \in Nat \ {0}
  <2> QED BY <2>1
<1>3. PICK w : w = SubSeq(c, b + 1, l)
  OBVIOUS
<1>4. Sequence(w) /\ Len(w) = n /\ \A i \in 1..n : w[i] = c[b + i] /\ b + i \in 1..l
  <2>1. b + 1 \in Nat \ {0} /\ b + 1 <= l + 1 /\ l - (b + 1) + 1 = n /\ l <= l
    BY <1>1, <1>2
  <2>2. Sequence(w) /\ Len(w) = n /\ \A i \in 1..n : w[i] = c[(b + 1) + i - 1]
    BY <1>1, <1>3, <2>1, Part
  <2>3. \A i \in 1..n : (b + 1) + i - 1 = b + i /\ b + i \in 1..l
    BY <1>1, <1>2
  <2> QED BY <2>2, <2>3
<1>5. \A i \in 1..l : c[i].high \in Nat /\ c[i].low \in Nat
  BY <1>1, ProperAre
<1>6. IsTop(w, "high", HighestHigh(w)) /\ IsBottom(w, "low", LowestLow(w))
  <2>1. \A i \in 1..Len(w) : w[i].high \in Int /\ w[i].low \in Int
    <3>1. ASSUME NEW i \in 1..n PROVE w[i].high \in Int /\ w[i].low \in Int
      <4>1. b + i \in 1..l /\ w[i] = c[b + i]
        BY <1>4
      <4> QED BY ONLY <1>5, <4>1
    <3> QED BY <1>4, <3>1
  <2> QED BY <1>4, <2>1, ChannelFound
<1>7. PICK h \in Int, g \in Int : h = HighestHigh(w) /\ g = LowestLow(w)
  BY <1>6 DEF IsTop, IsBottom
<1>8. PICK i \in 1..n, j \in 1..n : h = w[i].high /\ g = w[j].low
  BY <1>4, <1>6, <1>7 DEF IsTop, IsBottom
<1>9. \A k \in 1..n : w[k].high <= h /\ g <= w[k].low
  BY <1>4, <1>6, <1>7 DEF IsTop, IsBottom
<1>10. b + i \in (b + 1)..l /\ b + j \in (b + 1)..l /\ c[b + i].high = h /\ c[b + j].low = g
  <2>1. b + i \in (b + 1)..l /\ b + j \in (b + 1)..l
    BY ONLY <1>2, n \in Nat \ {0}, b \in Nat, i \in 1..n, j \in 1..n, l \in Nat
  <2> QED BY ONLY <1>4, <1>8, <2>1, i \in 1..n, j \in 1..n
<1>11. ASSUME NEW k \in (b + 1)..l PROVE c[k].high <= c[b + i].high /\ c[b + j].low <= c[k].low
  <2>1. PICK m \in 1..n : k = b + m
    <3>1. k - b \in 1..n /\ k = b + (k - b)
      BY <1>1, <1>2
    <3> QED BY <3>1
  <2>2. w[m] = c[k]
    BY <1>4, <2>1
  <2> QED BY <1>9, <1>10, <2>2
<1>12. PICK x : x = Over(Scale * (h + g), 2)
  OBVIOUS
<1>13. x \in Grid(Depth - 1) /\ x \in Int /\ x * 2 = Scale * (h + g)
  <2>1. 2 \in Divisors /\ Depth \in 1..Depth
    BY SignalsConstantsOK DEF Divisors, Depth
  <2>2. Scale * (h + g) \in Grid(Depth)
    <3>1. h + g \in Int
      OBVIOUS
    <3> QED BY <3>1, PricesOnGrid
  <2> QED BY <1>12, <2>1, <2>2, ComesOut
<1>14. 2 * x = Scale * (c[b + i].high + c[b + j].low)
  <2>1. x * 2 = 2 * x
    BY <1>13
  <2> QED BY <1>10, <1>13, <2>1
<1>15. Midpoint(c, b + 1, l) = x
  BY <1>3, <1>7, <1>12 DEF Midpoint
<1>16. Len(c) - n + 1 = b + 1 /\ Len(c) = l
  BY <1>1, <1>2
<1>17. IsMidpoint(c, x, n)
  BY <1>10, <1>11, <1>14, <1>16 DEF IsMidpoint
<1> QED BY <1>13, <1>15, <1>16, <1>17

\* The lines of Ichimoku are those midpoints.
LEMMA CloudHolds ==
    ASSUME ExactScale, NEW c, Proper(c), NEW x,
           x.ichimoku = Ichimoku(c, P.ichimoku.tenkan, P.ichimoku.kijun, P.ichimoku.senkou)
    PROVE  CloudMatches(c, x)
<1>1. PICK t \in Nat \ {0}, k \in Nat \ {0}, s \in Nat \ {0} :
        t = P.ichimoku.tenkan /\ k = P.ichimoku.kijun /\ s = P.ichimoku.senkou
  BY PeriodsOK
<1>2. k <= s
  BY <1>1, PeriodsOK
<1>3. PICK l \in Nat : l = Len(c) /\ Sequence(c)
  BY ProperAre
<1>4. PICK y : y = x.ichimoku
  OBVIOUS
<1>5. y = Ichimoku(c, t, k, s)
  BY <1>1, <1>4
<1>6. /\ Sequence(y) /\ Len(y) = IF l <= s - 1 THEN 0 ELSE l - (k - 1)
      /\ ~(l < s) => \A j \in 1..(l - k + 1) : y[j] = IchimokuAt(c, t, k, s, j + k - 1)
  BY <1>2, <1>3, <1>5, IchimokuLong, ZenonT(60)
<1>7. ASSUME y # <<>>
      PROVE  /\ l >= t => IsMidpoint(c, Latest(y).tenkan, t) /\ 2 * Latest(y).senkouA = Latest(y).tenkan + Latest(y).kijun
             /\ IsMidpoint(c, Latest(y).kijun, k) /\ IsMidpoint(c, Latest(y).senkouB, s)
             /\ Latest(y).chikou = Scale * Price(c)
  <2>1. ~(l < s) /\ s <= l /\ k <= l
    <3>1. Len(y) # 0
      BY <1>6, <1>7, SequenceIs
    <3> QED BY <1>2, <1>6, <3>1
  <2>2. Latest(y) = IchimokuAt(c, t, k, s, l)
    <3>1. Len(y) = l - k + 1 /\ l - k + 1 \in 1..(l - k + 1) /\ (l - k + 1) + k - 1 = l
      BY <1>6, <2>1
    <3> QED BY <1>6, <2>1, <3>1 DEF Latest
  <2>3. IsMidpoint(c, Midpoint(c, l - k + 1, l), k) /\ Midpoint(c, l - k + 1, l) \in Grid(Depth - 1)
    BY <1>3, <2>1, MidpointFound
  <2>4. IsMidpoint(c, Midpoint(c, l - s + 1, l), s)
    BY <1>3, <2>1, MidpointFound
  <2>5. ASSUME l >= t
        PROVE  /\ IsMidpoint(c, Midpoint(c, l - t + 1, l), t)
               /\ 2 * Over(Midpoint(c, l - t + 1, l) + Midpoint(c, l - k + 1, l), 2)
                    = Midpoint(c, l - t + 1, l) + Midpoint(c, l - k + 1, l)
    <3>1. IsMidpoint(c, Midpoint(c, l - t + 1, l), t) /\ Midpoint(c, l - t + 1, l) \in Grid(Depth - 1)
      <4>1. t <= Len(c)
        BY <1>3, <2>5
      <4> QED BY <1>3, <4>1, MidpointFound
    <3>2. Depth - 1 \in 1..Depth /\ Depth - 1 \in 0..Depth /\ 2 \in Divisors
      BY SignalsConstantsOK DEF Depth, Divisors
    <3>3. PICK z : z = Midpoint(c, l - t + 1, l) + Midpoint(c, l - k + 1, l) /\ z \in Grid(Depth - 1)
      BY <2>3, <3>1, <3>2, GridIs
    <3>4. Over(z, 2) \in Int /\ Over(z, 2) * 2 = z
      BY <3>2, <3>3, ComesOut
    <3>5. 2 * Over(z, 2) = Over(z, 2) * 2
      BY <3>4
    <3> QED BY <3>1, <3>3, <3>4, <3>5
  <2>6. /\ l >= t => Latest(y).tenkan = Midpoint(c, l - t + 1, l)
        /\ Latest(y).kijun = Midpoint(c, l - k + 1, l)
        /\ l >= t => Latest(y).senkouA = Over(Midpoint(c, l - t + 1, l) + Midpoint(c, l - k + 1, l), 2)
        /\ Latest(y).senkouB = Midpoint(c, l - s + 1, l)
        /\ Latest(y).chikou = Scale * c[l].close
    <3>1. l >= s
      BY <2>1
    <3> QED BY <2>2, <3>1 DEF IchimokuAt
  <2>7. c[l].close = Price(c)
    BY <1>3 DEF Price, Latest
  <2> QED BY ONLY <2>3, <2>4, <2>5, <2>6, <2>7
<1> QED BY ONLY <1>1, <1>3, <1>4, <1>7, ZenonT(60) DEF CloudMatches

\* A share's numerator is within its denominator.
LEMMA BoundedIsWithin ==
    ASSUME NEW f, Bounded(f, 1)
    PROVE  f.n \in 0..f.d
BY DEF Bounded, IsFrac

\* Every value of the oscillators is a share.
OscillatorsHold(x) ==
    /\ \A i \in DOMAIN x.rsi_mean_revert : x.rsi_mean_revert[i].n \in 0..x.rsi_mean_revert[i].d
    /\ \A i \in DOMAIN x.williams_r : x.williams_r[i].n \in 0..x.williams_r[i].d
    /\ \A i \in DOMAIN x.stoch_rsi : x.stoch_rsi[i].k.n \in 0..x.stoch_rsi[i].k.d
    /\ \A i \in DOMAIN x.stoch_rsi : x.stoch_rsi[i].d.n \in 0..x.stoch_rsi[i].d.d
    /\ \A i \in DOMAIN x.dmi_adx : x.dmi_adx[i].adx.n \in 0..x.dmi_adx[i].adx.d

\* All five of them.
LEMMA OscillatorsAreShares ==
    ASSUME ExactScale, NEW c, Proper(c), NEW x, \A s \in Names : x[s] = Series(c)[s],
           \A s \in Names : Sequence(x[s])
    PROVE  OscillatorsHold(x)
<1>1. /\ x.rsi_mean_revert = RSI(c, P.rsi_mean_revert.period)
      /\ x.williams_r = WilliamsR(c, P.williams_r.period)
      /\ x.stoch_rsi = StochRSI(c, P.stoch_rsi.period, P.stoch_rsi.k, P.stoch_rsi.d)
      /\ x.dmi_adx = ADX(c, P.dmi_adx.period)
  BY SeriesAre DEF Names
<1>2. /\ DOMAIN x.rsi_mean_revert = 1..Len(x.rsi_mean_revert)
      /\ DOMAIN x.williams_r = 1..Len(x.williams_r)
      /\ DOMAIN x.stoch_rsi = 1..Len(x.stoch_rsi)
      /\ DOMAIN x.dmi_adx = 1..Len(x.dmi_adx)
  BY SequenceIs DEF Names
<1>3. \A i \in DOMAIN x.rsi_mean_revert : x.rsi_mean_revert[i].n \in 0..x.rsi_mean_revert[i].d
  BY <1>1, <1>2, PeriodsAre, RSIShares, BoundedIsWithin DEF Shares
<1>4. \A i \in DOMAIN x.williams_r : x.williams_r[i].n \in 0..x.williams_r[i].d
  <2>1. PICK n, y : n = P.williams_r.period /\ y = x.williams_r
    OBVIOUS
  <2>2. n \in Nat \ {0} /\ y = WilliamsR(c, n) /\ DOMAIN y = 1..Len(y)
    BY <1>1, <1>2, <2>1, PeriodsOK
  <2>3. ASSUME NEW i \in 1..Len(y) PROVE Bounded(y[i], 1)
    BY ONLY Proper(c), <2>2, WilliamsShares
  <2> QED BY ONLY <2>1, <2>2, <2>3, BoundedIsWithin
<1>5. \A i \in DOMAIN x.stoch_rsi : /\ x.stoch_rsi[i].k.n \in 0..x.stoch_rsi[i].k.d
                                    /\ x.stoch_rsi[i].d.n \in 0..x.stoch_rsi[i].d.d
  <2>1. PICK n, k, d, y : /\ n = P.stoch_rsi.period /\ k = P.stoch_rsi.k /\ d = P.stoch_rsi.d
                          /\ y = x.stoch_rsi
    OBVIOUS
  <2>2. n \in Periods /\ k \in Nat \ {0} /\ d \in Nat \ {0} /\ y = StochRSI(c, n, k, d) /\ DOMAIN y = 1..Len(y)
    BY <1>1, <1>2, <2>1, PeriodsOK, PeriodsAre
  <2>3. ASSUME NEW i \in 1..Len(y) PROVE Bounded(y[i].k, 1) /\ Bounded(y[i].d, 1)
    BY ONLY ExactScale, Proper(c), <2>2, StochRSIShares
  <2> QED BY ONLY <2>1, <2>2, <2>3, BoundedIsWithin
<1>6. \A i \in DOMAIN x.dmi_adx : x.dmi_adx[i].adx.n \in 0..x.dmi_adx[i].adx.d
  BY <1>1, <1>2, PeriodsAre, ADXShares, BoundedIsWithin
<1> QED BY <1>3, <1>4, <1>5, <1>6 DEF OscillatorsHold

\* The latest values are what the definitions say of the latest bar, for every market of
\* proper candles: the running sum is the sum of its window, the recursion of the EMA a
\* weighted sum; MACD, its signal, the Hull average, the Keltner bands and the directional
\* movements combine values of the same bar; the Ichimoku lines are midpoints of their
\* windows; and each oscillator is a fraction within its range, never one over zero.
THEOREM ReferenceMatched ==
    ASSUME ExactScale, ProperBars, P.keltner_channel.halves \in Nat
    PROVE  Spec => []MatchesReference
<1>1. Invariant /\ AveragesAreOfTheirBars /\ Seen => MatchesReference
  <2> SUFFICES ASSUME Invariant, AveragesAreOfTheirBars, Seen PROVE MatchesReference
    OBVIOUS
  <2>1. Proper(candles) /\ Sequence(candles)
    BY SeenIsProper, ProperAre
  <2>2. series = Series(candles)
    BY DEF Invariant
  <2>3. \A s \in Names : Sequence(series[s])
    BY <2>2, SeriesLong DEF IsLong, Invariant
  <2>4. /\ series.ema_slow = EMA(Closes(candles), P.ema_cross.slow)
        /\ series.macd_cross = MACD(candles, P.macd_cross.fast, P.macd_cross.slow, P.macd_cross.signal)
        /\ series.hull_ma = HullMA(candles, P.hull_ma.period, P.hull_ma.half, P.hull_ma.root)
        /\ series.keltner_channel = KeltnerChannel(candles, P.keltner_channel.period, P.keltner_channel.halves)
        /\ series.ichimoku = Ichimoku(candles, P.ichimoku.tenkan, P.ichimoku.kijun, P.ichimoku.senkou)
        /\ series.dmi_adx = ADX(candles, P.dmi_adx.period)
    BY <2>2, SeriesAre
  <2>5. AveragesMatch(candles, series)
    <3>1. MeanHolds(candles, series.sma)
      BY DEF AveragesAreOfTheirBars, MeanHolds
    <3>2. SumHolds(candles, series.ema_slow, P.ema_cross.slow)
      BY <2>1, <2>4, SlowIsWeighted
    <3> QED BY ONLY <3>1, <3>2 DEF AveragesMatch, MeanHolds, SumHolds
  <2>6. LinesMatch(candles, series)
    BY <2>1, <2>4, LinesHold
  <2>7. BandMatches(candles, series)
    BY <2>1, <2>4, BandOfBar
  <2>8. CloudMatches(candles, series)
    BY <2>1, <2>4, CloudHolds
  <2>9. OscillatorsMatch(candles, series)
    <3>1. OscillatorsHold(series)
      BY <2>1, <2>2, <2>3, OscillatorsAreShares
    <3>2. PICK n \in Nat \ {0} : n = P.dmi_adx.period
      BY PeriodsOK
    <3>3. series.dmi_adx # <<>> =>
            /\ Latest(series.dmi_adx).plusDI = Latest(Smooth(PlusMoves(candles), n))
            /\ Latest(series.dmi_adx).minusDI = Latest(Smooth(MinusMoves(candles), n))
      BY <2>1, <2>4, <3>2, MovesOfBar
    <3> QED BY ONLY <3>1, <3>2, <3>3 DEF OscillatorsMatch, OscillatorsHold
  <2> QED BY ONLY <2>5, <2>6, <2>7, <2>8, <2>9 DEF MatchesReference
<1> QED BY <1>1, CandlesAreSeen, AveragesMeetTheirDefinition, PTL
=============================================================================
