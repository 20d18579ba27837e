---------------------------- MODULE JournalProofs ----------------------------
(***************************************************************************)
(* Proofs about Journal, for any set of trades, profits and strategies,    *)
(* and files of any length: the statistics are those of the trades, and a  *)
(* replay restores what was recorded but for what cut-short writes cost.   *)
(* The statistics are sums, the loops of the code folds, over sequences of *)
(* any length: the first parts provide induction and what these compute.   *)
(***************************************************************************)
EXTENDS Journal, FiniteSetTheorems, SequenceTheorems, TLAPS

-----------------------------------------------------------------------------
(* Induction *)

\* Induction on natural numbers, with the property as a set T of numbers.
LEMMA NatSetInduction ==
    ASSUME NEW T, 0 \in T, \A n \in Nat : n \in T => n + 1 \in T
    PROVE  \A n \in Nat : n \in T
<1> SUFFICES ASSUME NEW m \in Nat, m \notin T PROVE FALSE
  OBVIOUS
<1> DEFINE M == 0..m
           U == {0..k : k \in {j \in M : j \notin T}}
           R == StrictSubsetOrdering(M)
<1>1. IsWellFoundedOn(R, SUBSET M)
  <2>1. IsFiniteSet(M)
    BY FS_Interval
  <2> HIDE DEF M
  <2> QED BY <2>1, FS_StrictSubsetOrderingWellFounded, FS_FiniteSubsetsOfFinite
<1>2. U \subseteq SUBSET M /\ U # {}
  OBVIOUS
<1>3. PICK u \in U : \A v \in U : <<v, u>> \notin R
  <2> HIDE DEF R, U, M
  <2> QED BY <1>1, <1>2, WFMin
<1>4. PICK k \in M : k \notin T /\ u = 0..k
  BY <1>3
<1>5. k # 0 /\ k - 1 \in M /\ k - 1 \notin T
  BY <1>4
<1>6. 0..k - 1 \in U
  BY <1>5
<1>7. 0..k - 1 \subseteq u /\ k \in u /\ k \notin 0..k - 1
  BY <1>4, <1>5
<1>8. <<0..k - 1, u>> \in R
  BY <1>2, <1>6, <1>7 DEF StrictSubsetOrdering
<1> QED BY <1>3, <1>6, <1>8

-----------------------------------------------------------------------------
(* Sums over finite sets, in whatever order CHOOSE takes their elements *)

First(s) == CHOOSE x \in s : TRUE

\* g adds up f over the subsets of S.
Sums(f, S, g) ==
    g = [s \in SUBSET S |-> IF s = {} THEN 0 ELSE f[First(s)] + g[s \ {First(s)}]]

\* SumOver in these terms.
LEMMA SumsDef ==
    ASSUME NEW f, NEW S, NEW g, Sums(f, S, g)
    PROVE  SumOver(S, f) = (CHOOSE h : Sums(f, S, h))[S]
BY DEF SumOver, FoldSet, MapThenFoldSet, Sums, First

\* The subsets of up to n elements.
UpTo(S, n) == {s \in SUBSET S : Cardinality(s) <= n}

\* One element fewer is one size smaller.
LEMMA OneLess ==
    ASSUME NEW S, IsFiniteSet(S), NEW n \in Nat, NEW s \in UpTo(S, n + 1), NEW x \in s
    PROVE  /\ s \ {x} \in UpTo(S, n) /\ s \ {x} \in UpTo(S, n + 1)
           /\ IsFiniteSet(s)
<1>1. IsFiniteSet(s) /\ s \in SUBSET S /\ Cardinality(s) <= n + 1 /\ Cardinality(s) \in Nat
  BY FS_Subset, FS_CardinalityType DEF UpTo
<1>2. Cardinality(s \ {x}) = Cardinality(s) - 1
  BY <1>1, FS_RemoveElement
<1> QED BY <1>1, <1>2 DEF UpTo

\* There is such a g for a finite set, and so CHOOSE finds it.
LEMMA SumsExist ==
    ASSUME NEW f, NEW S, IsFiniteSet(S)
    PROVE  \E g : Sums(f, S, g)
<1> DEFINE Is(g, n) == g = [s \in UpTo(S, n) |->
                              IF s = {} THEN 0 ELSE f[First(s)] + g[s \ {First(s)}]]
           T == {n \in Nat : \E g : Is(g, n)}
<1>1. 0 \in T
  <2>1. UpTo(S, 0) = {{}}
    BY FS_Subset, FS_EmptySet, FS_CardinalityType DEF UpTo
  <2>2. Is([s \in UpTo(S, 0) |-> 0], 0)
    BY <2>1
  <2> QED BY <2>2
<1>2. ASSUME NEW n \in Nat, n \in T PROVE n + 1 \in T
  <2>1. PICK g : Is(g, n)
    BY <1>2
  <2> DEFINE h == [s \in UpTo(S, n + 1) |-> IF s = {} THEN 0 ELSE f[First(s)] + g[s \ {First(s)}]]
  <2>2. ASSUME NEW s \in UpTo(S, n + 1), s # {}
        PROVE  h[s \ {First(s)}] = g[s \ {First(s)}]
    <3>1. First(s) \in s
      BY <2>2 DEF First
    <3> DEFINE r == s \ {First(s)}
    <3>2. r \in UpTo(S, n) /\ r \in UpTo(S, n + 1)
      BY <3>1, OneLess
    <3> HIDE DEF r
    <3>3. g[r] = IF r = {} THEN 0 ELSE f[First(r)] + g[r \ {First(r)}]
      BY <2>1, <3>2
    <3>4. h[r] = IF r = {} THEN 0 ELSE f[First(r)] + g[r \ {First(r)}]
      BY <3>2
    <3> QED BY <3>3, <3>4 DEF r
  <2>3. h = [s \in UpTo(S, n + 1) |-> IF s = {} THEN 0 ELSE f[First(s)] + h[s \ {First(s)}]]
    <3>1. \A s \in UpTo(S, n + 1) : h[s] = IF s = {} THEN 0 ELSE f[First(s)] + h[s \ {First(s)}]
      BY <2>2
    <3>2. h = [s \in UpTo(S, n + 1) |-> h[s]]
      OBVIOUS
    <3> HIDE DEF h
    <3> QED BY <3>1, <3>2
  <2>4. \E k : Is(k, n + 1)
    <3> HIDE DEF h
    <3> QED BY <2>3
  <2> HIDE DEF Is, h
  <2> QED BY <2>4
<1>3. PICK n \in Nat : n = Cardinality(S)
  BY FS_CardinalityType
<1>4. \E g : Is(g, n)
  <2>1. n \in T
    <3> HIDE DEF T
    <3> QED BY <1>1, <1>2, NatSetInduction
  <2> QED BY <2>1
<1>5. UpTo(S, n) = SUBSET S
  BY <1>3, FS_Subset DEF UpTo
<1> QED BY <1>4, <1>5 DEF Sums

\* The order does not matter: any element may be the last one added.
LEMMA SumsAny ==
    ASSUME NEW S, IsFiniteSet(S), NEW f, \A x \in S : f[x] \in Int, NEW g, Sums(f, S, g)
    PROVE  \A s \in SUBSET S : g[s] \in Int /\ \A x \in s : g[s] = f[x] + g[s \ {x}]
<1> DEFINE Additive(s) == g[s] \in Int /\ \A x \in s : g[s] = f[x] + g[s \ {x}]
           T == {n \in Nat : \A s \in UpTo(S, n) : Additive(s)}
<1>1. 0 \in T
  <2>1. UpTo(S, 0) = {{}}
    BY FS_Subset, FS_EmptySet, FS_CardinalityType DEF UpTo
  <2>2. g[{}] = 0
    BY DEF Sums
  <2>3. Additive({})
    BY <2>2
  <2> HIDE DEF Additive
  <2> QED BY <2>1, <2>3
<1>2. ASSUME NEW n \in Nat, n \in T PROVE n + 1 \in T
  <2>1. ASSUME NEW s \in UpTo(S, n + 1) PROVE Additive(s)
    <3>1. CASE s = {}
      <4>1. g[{}] = 0
        BY DEF Sums
      <4> QED BY <3>1, <4>1
    <3>2. CASE s # {}
      <4>1. PICK c \in s : c = First(s)
        BY <3>2 DEF First
      <4>2. s \in SUBSET S /\ f[c] \in Int /\ g[s] = f[c] + g[s \ {c}]
        BY <3>2, <4>1 DEF Sums, UpTo
      <4>3. \A y \in s : s \ {y} \in UpTo(S, n)
        BY OneLess
      <4>4. \A y \in s : Additive(s \ {y})
        BY <1>2, <4>3
      <4>5. g[s \ {c}] \in Int
        BY <4>4
      <4>6. ASSUME NEW x \in s PROVE g[s] = f[x] + g[s \ {x}]
        <5>1. CASE x = c
          BY <4>2, <5>1
        <5>2. CASE x # c
          <6>1. x \in s \ {c} /\ c \in s \ {x} /\ (s \ {c}) \ {x} = (s \ {x}) \ {c}
            BY <5>2
          <6>2. PICK r : r = (s \ {c}) \ {x}
            OBVIOUS
          <6>3. g[s \ {c}] = f[x] + g[r] /\ g[s \ {x}] = f[c] + g[r]
            BY <4>4, <6>1, <6>2
          <6>4. r \in UpTo(S, n)
            <7>1. r \in SUBSET S /\ r \subseteq s \ {c} /\ IsFiniteSet(s \ {c})
              BY <4>2, <6>2, FS_Subset
            <7>2. Cardinality(r) <= Cardinality(s \ {c}) /\ Cardinality(s \ {c}) <= n
                  /\ Cardinality(r) \in Int /\ Cardinality(s \ {c}) \in Int
              BY <4>3, <7>1, FS_Subset, FS_CardinalityType DEF UpTo
            <7> QED BY <7>1, <7>2 DEF UpTo
          <6>5. g[r] \in Int /\ f[x] \in Int
            BY <1>2, <4>2, <6>4
          <6> QED BY <4>2, <6>3, <6>5
        <5> QED BY <5>1, <5>2
      <4>7. g[s] \in Int
        BY <4>2, <4>5
      <4> QED BY <4>6, <4>7
    <3> QED BY <3>1, <3>2
  <2> QED BY <2>1
<1>3. PICK n \in Nat : n = Cardinality(S)
  BY FS_CardinalityType
<1>4. n \in T
  <2> HIDE DEF T
  <2> QED BY <1>1, <1>2, NatSetInduction
<1>5. UpTo(S, n) = SUBSET S
  BY <1>3, FS_Subset DEF UpTo
<1> QED BY <1>4, <1>5

\* Only the values on the set matter.
LEMMA SumsSame ==
    ASSUME NEW S, IsFiniteSet(S), NEW R, IsFiniteSet(R), S \subseteq R, NEW f, NEW e,
           \A x \in R : f[x] \in Int, \A x \in S : e[x] = f[x],
           NEW g, Sums(e, S, g), NEW h, Sums(f, R, h)
    PROVE  \A s \in SUBSET S : g[s] = h[s]
<1> DEFINE T == {n \in Nat : \A s \in UpTo(S, n) : g[s] = h[s]}
<1>1. 0 \in T
  <2>1. UpTo(S, 0) = {{}}
    BY FS_Subset, FS_EmptySet, FS_CardinalityType DEF UpTo
  <2>2. g[{}] = 0 /\ h[{}] = 0
    BY DEF Sums
  <2> QED BY <2>1, <2>2
<1>2. ASSUME NEW n \in Nat, n \in T PROVE n + 1 \in T
  <2>1. ASSUME NEW s \in UpTo(S, n + 1) PROVE g[s] = h[s]
    <3>1. CASE s = {}
      <4>1. g[{}] = 0 /\ h[{}] = 0
        BY DEF Sums
      <4> QED BY <3>1, <4>1
    <3>2. CASE s # {}
      <4>1. PICK c \in s : c = First(s)
        BY <3>2 DEF First
      <4>2. s \in SUBSET S /\ s \in SUBSET R
        BY DEF UpTo
      <4>3. g[s] = e[c] + g[s \ {c}] /\ h[s] = f[c] + h[s \ {c}]
        BY <3>2, <4>1, <4>2 DEF Sums
      <4>4. s \ {c} \in UpTo(S, n)
        BY OneLess
      <4>5. g[s \ {c}] = h[s \ {c}]
        BY <1>2, <4>4
      <4> QED BY <4>2, <4>3, <4>5
    <3> QED BY <3>1, <3>2
  <2> QED BY <2>1
<1>3. PICK n \in Nat : n = Cardinality(S)
  BY FS_CardinalityType
<1>4. n \in T
  <2> HIDE DEF T
  <2> QED BY <1>1, <1>2, NatSetInduction
<1>5. UpTo(S, n) = SUBSET S
  BY <1>3, FS_Subset DEF UpTo
<1> QED BY <1>4, <1>5

\* What the sums of the statistics need: their type, the same sum of the same
\* values, and a sum without one of its elements.
LEMMA SumIs ==
    ASSUME NEW S, IsFiniteSet(S), NEW f
    PROVE  \E g : Sums(f, S, g) /\ SumOver(S, f) = g[S]
<1>1. PICK h : Sums(f, S, h)
  BY SumsExist
<1>2. Sums(f, S, CHOOSE g : Sums(f, S, g))
  BY <1>1
<1> QED BY <1>1, <1>2, SumsDef

\* The empty sum.
LEMMA SumOfNone == \A f : SumOver({}, f) = 0
<1> TAKE f
<1>1. PICK g : Sums(f, {}, g) /\ SumOver({}, f) = g[{}]
  BY SumIs, FS_EmptySet
<1> QED BY <1>1 DEF Sums

\* Sums of integers are integers.
LEMMA SumType ==
    ASSUME NEW S, IsFiniteSet(S), NEW f, \A x \in S : f[x] \in Int
    PROVE  SumOver(S, f) \in Int
<1>1. PICK g : Sums(f, S, g) /\ SumOver(S, f) = g[S]
  BY SumIs
<1> QED BY <1>1, SumsAny

\* Equal values have equal sums.
LEMMA SumSame ==
    ASSUME NEW S, IsFiniteSet(S), NEW f, NEW e, \A x \in S : f[x] \in Int /\ e[x] = f[x]
    PROVE  SumOver(S, e) = SumOver(S, f)
<1>1. PICK g : Sums(e, S, g) /\ SumOver(S, e) = g[S]
  BY SumIs
<1>2. PICK h : Sums(f, S, h) /\ SumOver(S, f) = h[S]
  BY SumIs
<1> QED BY <1>1, <1>2, SumsSame

\* Any one value may be taken out of a sum.
LEMMA SumLessOne ==
    ASSUME NEW R, IsFiniteSet(R), NEW x \in R, NEW f, NEW e, \A y \in R : f[y] \in Int,
           \A y \in R \ {x} : e[y] = f[y]
    PROVE  SumOver(R, f) = f[x] + SumOver(R \ {x}, e)
<1>2. R \ {x} \subseteq R /\ IsFiniteSet(R \ {x})
  BY FS_RemoveElement
<1>3. PICK S : S = R \ {x}
  OBVIOUS
<1>4. PICK g : Sums(e, S, g) /\ SumOver(S, e) = g[S]
  BY <1>2, <1>3, SumIs
<1>5. PICK h : Sums(f, R, h) /\ SumOver(R, f) = h[R]
  BY SumIs
<1>6. h[R] = f[x] + h[S]
  <2>1. R \in SUBSET R
    OBVIOUS
  <2>2. \A y \in R : h[R] = f[y] + h[R \ {y}]
    BY <1>5, <2>1, SumsAny
  <2> QED BY <1>3, <2>2
<1>7. g[S] = h[S]
  BY <1>2, <1>3, <1>4, <1>5, SumsSame
<1> QED BY <1>3, <1>4, <1>5, <1>6, <1>7

\* A sum of zeros.
LEMMA SumOfZeros ==
    ASSUME NEW S, IsFiniteSet(S), NEW f, \A x \in S : f[x] = 0
    PROVE  SumOver(S, f) = 0
<1>1. PICK g : Sums(f, S, g) /\ SumOver(S, f) = g[S]
  BY SumIs
<1> DEFINE T == {n \in Nat : \A s \in UpTo(S, n) : g[s] = 0}
<1>2. 0 \in T
  <2>1. UpTo(S, 0) = {{}}
    BY FS_Subset, FS_EmptySet, FS_CardinalityType DEF UpTo
  <2>2. g[{}] = 0
    BY <1>1 DEF Sums
  <2> QED BY <2>1, <2>2
<1>3. ASSUME NEW n \in Nat, n \in T PROVE n + 1 \in T
  <2>1. ASSUME NEW s \in UpTo(S, n + 1), s # {} PROVE g[s] = 0
    <3>1. PICK c \in s : c = First(s)
      BY <2>1 DEF First
    <3>2. s \in SUBSET S /\ g[s] = f[c] + g[s \ {c}]
      BY <1>1, <2>1, <3>1 DEF Sums, UpTo
    <3>3. s \ {c} \in UpTo(S, n)
      BY OneLess
    <3> QED BY <1>3, <3>2, <3>3
  <2>2. g[{}] = 0
    BY <1>1 DEF Sums
  <2> QED BY <2>1, <2>2
<1>4. PICK n \in Nat : n = Cardinality(S)
  BY FS_CardinalityType
<1>5. n \in T
  <2> HIDE DEF T
  <2> QED BY <1>2, <1>3, NatSetInduction
<1>6. UpTo(S, n) = SUBSET S
  BY <1>4, FS_Subset DEF UpTo
<1> QED BY <1>1, <1>5, <1>6

-----------------------------------------------------------------------------
(* Folds *)

\* The bases of the folds below.
NoTrades == [trades |-> <<>>, stats |-> EmptyStats]
NoStreak == [w |-> 0, l |-> 0, maxW |-> 0, maxL |-> 0]
NoSeries == [equity |-> InitialCapital, peak |-> InitialCapital, series |-> <<>>]
NoLoss == [loss |-> 0, peak |-> 1]

\* The bodies of the four loops of the journal.
Step(k, a, x) ==
    IF k = "replay" THEN ReplayLine(a, x)
    ELSE IF k = "streaks"
    THEN LET w == IF Win(x) THEN a.w + 1 ELSE 0
             l == IF Win(x) THEN 0 ELSE a.l + 1
         IN  [w |-> w, l |-> l, maxW |-> Max({a.maxW, w}), maxL |-> Max({a.maxL, l})]
    ELSE IF k = "series"
    THEN LET eq == a.equity + PnL[x]
             peak == Max({a.peak, eq})
         IN  [equity |-> eq, peak |-> peak,
              series |-> Append(a.series, [loss |-> peak - eq, peak |-> peak])]
    ELSE IF Larger(x, a) THEN x ELSE a

\* f folds the parts of the first n elements of s, from the base b.
Folds(k, b, s, n, f) ==
    f = [t \in SUBSET (1..n) |-> IF t = {} THEN b ELSE Step(k, f[t \ {Max(t)}], s[Max(t)])]

\* The largest position of a part that has the last one.
LEMMA MaxOfTop ==
    ASSUME NEW n \in Nat, NEW t \in SUBSET (1..n + 1), n + 1 \in t
    PROVE  Max(t) = n + 1
<1>1. n + 1 \in t /\ \A y \in t : n + 1 >= y
  OBVIOUS
<1>2. \A x \in t : (\A y \in t : x >= y) => x = n + 1
  OBVIOUS
<1> QED BY <1>1, <1>2 DEF Max

\* There is such an f, and so CHOOSE finds it.
LEMMA FoldExists ==
    ASSUME NEW k, NEW b, NEW s PROVE \A n \in Nat : \E f : Folds(k, b, s, n, f)
<1> DEFINE T == {n \in Nat : \E f : Folds(k, b, s, n, f)}
<1>1. 0 \in T
  <2>1. Folds(k, b, s, 0, [t \in SUBSET (1..0) |-> b])
    BY DEF Folds
  <2> QED BY <2>1
<1>2. ASSUME NEW n \in Nat, n \in T PROVE n + 1 \in T
  <2>1. PICK f : Folds(k, b, s, n, f)
    BY <1>2
  <2> DEFINE g == [t \in SUBSET (1..n + 1) |->
                     IF n + 1 \in t THEN Step(k, f[t \ {n + 1}], s[n + 1]) ELSE f[t]]
  <2>2. ASSUME NEW t \in SUBSET (1..n + 1)
        PROVE  g[t] = IF t = {} THEN b ELSE Step(k, g[t \ {Max(t)}], s[Max(t)])
    <3>1. CASE n + 1 \in t
      <4>1. Max(t) = n + 1
        BY <3>1, MaxOfTop
      <4>2. t \ {n + 1} \in SUBSET (1..n + 1) /\ n + 1 \notin t \ {n + 1}
        OBVIOUS
      <4> QED BY <3>1, <4>1, <4>2
    <3>2. CASE n + 1 \notin t
      <4>1. /\ t \in SUBSET (1..n) /\ t \ {Max(t)} \in SUBSET (1..n)
            /\ t \ {Max(t)} \in SUBSET (1..n + 1) /\ n + 1 \notin t \ {Max(t)}
        <5>1. t \in SUBSET (1..n)
          BY <3>2
        <5> QED BY <3>2, <5>1
      <4>2. g[t] = f[t] /\ g[t \ {Max(t)}] = f[t \ {Max(t)}]
        BY <3>2, <4>1
      <4> HIDE DEF g
      <4> QED BY <2>1, <4>1, <4>2 DEF Folds
    <3> QED BY <3>1, <3>2
  <2>3. Folds(k, b, s, n + 1, g)
    <3>1. g = [t \in SUBSET (1..n + 1) |-> g[t]]
      OBVIOUS
    <3> HIDE DEF g
    <3> QED BY <2>2, <3>1 DEF Folds
  <2> QED BY <2>3
<1>3. \A n \in Nat : n \in T
  <2> HIDE DEF T
  <2> QED BY <1>1, <1>2, NatSetInduction
<1> QED BY <1>3

\* One element after the other.
LEMMA FoldStart ==
    ASSUME NEW k, NEW b, NEW s, NEW n \in Nat, NEW f, Folds(k, b, s, n, f)
    PROVE  f[1..0] = b
<1>1. 1..0 = {} /\ 1..0 \in SUBSET (1..n)
  OBVIOUS
<1> QED BY <1>1 DEF Folds

\* ... and the next element is folded last.
LEMMA FoldNext ==
    ASSUME NEW k, NEW b, NEW s, NEW n \in Nat, NEW f, Folds(k, b, s, n, f),
           NEW i \in Nat, i + 1 <= n
    PROVE  f[1..i + 1] = Step(k, f[1..i], s[i + 1])
<1>1. 1..i + 1 \in SUBSET (1..n) /\ 1..i + 1 # {} /\ (1..i + 1) \ {i + 1} = 1..i
  OBVIOUS
<1>2. Max(1..i + 1) = i + 1
  <2>1. 1..i + 1 \in SUBSET (1..i + 1) /\ i + 1 \in 1..i + 1
    OBVIOUS
  <2> QED BY <2>1, MaxOfTop
<1> QED BY <1>1, <1>2 DEF Folds

\* Only the elements folded matter.
LEMMA FoldSame ==
    ASSUME NEW k, NEW b, NEW s, NEW r, NEW n \in Nat, NEW m \in Nat, n <= m,
           \A i \in 1..n : s[i] = r[i],
           NEW f, Folds(k, b, s, n, f), NEW g, Folds(k, b, r, m, g)
    PROVE  f[1..n] = g[1..n]
<1> DEFINE T == {i \in Nat : i <= n => f[1..i] = g[1..i]}
<1>1. 0 \in T
  <2>1. f[1..0] = b /\ g[1..0] = b
    BY FoldStart
  <2> QED BY <2>1
<1>2. ASSUME NEW i \in Nat, i \in T PROVE i + 1 \in T
  <2> SUFFICES ASSUME i + 1 <= n PROVE f[1..i + 1] = g[1..i + 1]
    OBVIOUS
  <2>1. i + 1 \in 1..n /\ i + 1 <= m /\ f[1..i] = g[1..i]
    BY <1>2
  <2>2. f[1..i + 1] = Step(k, f[1..i], s[i + 1]) /\ g[1..i + 1] = Step(k, g[1..i], r[i + 1])
    BY <2>1, FoldNext
  <2> QED BY <2>1, <2>2
<1>3. n \in T
  <2> HIDE DEF T
  <2> QED BY <1>1, <1>2, NatSetInduction
<1> QED BY <1>3

\* What a fold of a sequence is.
FoldValue(k, b, s) ==
    LET f == CHOOSE f : Folds(k, b, s, Len(s), f) IN f[1..Len(s)]

\* Any f that folds s computes it.
LEMMA FoldIs ==
    ASSUME NEW k, NEW b, NEW S, NEW s \in Seq(S), NEW f, Folds(k, b, s, Len(s), f)
    PROVE  FoldValue(k, b, s) = f[1..Len(s)]
<1>1. PICK n \in Nat : n = Len(s)
  OBVIOUS
<1>2. PICK g : g = CHOOSE h : Folds(k, b, s, n, h)
  OBVIOUS
<1>3. Folds(k, b, s, n, g)
  BY <1>1, <1>2
<1>4. g[1..n] = f[1..n]
  BY <1>1, <1>3, FoldSame
<1> QED BY <1>1, <1>2, <1>4 DEF FoldValue

\* The fold of no elements is the base.
LEMMA FoldEmpty == \A k, b : FoldValue(k, b, <<>>) = b
<1> TAKE k, b
<1>1. PICK s \in Seq({}) : s = <<>> /\ Len(s) = 0
  <2>1. <<>> \in Seq({}) /\ Len(<<>>) = 0
    OBVIOUS
  <2> QED BY <2>1
<1>2. PICK f : Folds(k, b, s, 0, f)
  BY FoldExists
<1>3. f[1..0] = b
  <2>1. 0 \in Nat
    OBVIOUS
  <2> QED BY <1>2, <2>1, FoldStart
<1>4. FoldValue(k, b, s) = f[1..Len(s)]
  <2>1. Folds(k, b, s, Len(s), f)
    BY <1>1, <1>2
  <2> QED BY <2>1, FoldIs
<1> QED BY ONLY <1>1, <1>3, <1>4

\* The fold of one element more is one step more.
LEMMA FoldAppend ==
    ASSUME NEW k, NEW b, NEW S, NEW s \in Seq(S), NEW x \in S
    PROVE  FoldValue(k, b, Append(s, x)) = Step(k, FoldValue(k, b, s), x)
<1>1. PICK n \in Nat : n = Len(s)
  OBVIOUS
<1>2. PICK r \in Seq(S) : r = Append(s, x)
  BY AppendProperties
<1>3. Len(r) = n + 1 /\ r[n + 1] = x /\ \A i \in 1..n : s[i] = r[i]
  BY <1>1, <1>2
<1>4. PICK f : Folds(k, b, s, n, f)
  BY FoldExists
<1>5. PICK g : Folds(k, b, r, n + 1, g)
  <2>1. n + 1 \in Nat
    OBVIOUS
  <2> QED BY <2>1, FoldExists
<1>6. f[1..n] = g[1..n]
  BY <1>3, <1>4, <1>5, FoldSame
<1>7. g[1..n + 1] = Step(k, f[1..n], x)
  <2>1. PICK m \in Nat : m = n + 1
    OBVIOUS
  <2>2. Folds(k, b, r, m, g) /\ n + 1 <= m
    BY <1>5, <2>1
  <2>3. g[1..n + 1] = Step(k, g[1..n], r[n + 1])
    BY <2>2, FoldNext
  <2> QED BY <1>3, <1>6, <2>3
<1>8. FoldValue(k, b, s) = f[1..n] /\ FoldValue(k, b, r) = g[1..n + 1]
  BY <1>1, <1>3, <1>4, <1>5, FoldIs
<1> QED BY <1>2, <1>7, <1>8

\* The folds of the journal are folds in this sense: FoldLeft is a recursion over
\* the sets of positions, whose largest element is folded last.
Replaying(ts) == FoldLeft(ReplayLine, NoTrades, ts)

\* The loop of replay.
LEMMA ReplayFold ==
    ASSUME NEW S, NEW ts \in Seq(S)
    PROVE  Replaying(ts) = FoldValue("replay", NoTrades, ts)
<1> DEFINE Eq(f) == f = [t \in SUBSET DOMAIN ts |->
                           IF t = {} THEN NoTrades
                           ELSE ReplayLine(f[t \ {Max(t)}], ts[Max(t)])]
<1>1. Len(ts) \in Nat /\ DOMAIN ts = 1..Len(ts)
  OBVIOUS
<1>2. \A f : Eq(f) <=> Folds("replay", NoTrades, ts, Len(ts), f)
  BY <1>1 DEF Folds, Step
<1>3. PICK f : Eq(f)
  <2>1. PICK f : Folds("replay", NoTrades, ts, Len(ts), f)
    BY <1>1, FoldExists
  <2> HIDE DEF Eq
  <2> QED BY <1>2, <2>1
<1>4. Replaying(ts) = (CHOOSE g : Eq(g))[DOMAIN ts]
  BY DEF Replaying, FoldLeft, MapThenFoldSet
<1>5. Eq(CHOOSE g : Eq(g))
  <2> HIDE DEF Eq
  <2> QED BY <1>3
<1> HIDE DEF Eq
<1>6. FoldValue("replay", NoTrades, ts) = (CHOOSE g : Eq(g))[1..Len(ts)]
  BY <1>2, <1>5, FoldIs
<1> QED BY <1>1, <1>4, <1>6

\* The loop of updateStats over all trades (CountStreaks) is a fold.
LEMMA StreaksFold ==
    ASSUME NEW S, NEW ts \in Seq(S)
    PROVE  CountStreaks(ts) = FoldValue("streaks", NoStreak, ts)
<1> DEFINE Eq(f) == f = [t \in SUBSET DOMAIN ts |->
                           IF t = {} THEN NoStreak
                           ELSE LET a == f[t \ {Max(t)}]
                                    w == IF Win(ts[Max(t)]) THEN a.w + 1 ELSE 0
                                    l == IF Win(ts[Max(t)]) THEN 0 ELSE a.l + 1
                                IN  [w |-> w, l |-> l, maxW |-> Max({a.maxW, w}), maxL |-> Max({a.maxL, l})]]
<1>1. Len(ts) \in Nat /\ DOMAIN ts = 1..Len(ts)
  OBVIOUS
<1>2. \A f : Eq(f) <=> Folds("streaks", NoStreak, ts, Len(ts), f)
  BY <1>1 DEF Folds, Step
<1>3. PICK f : Eq(f)
  <2>1. PICK f : Folds("streaks", NoStreak, ts, Len(ts), f)
    BY <1>1, FoldExists
  <2> HIDE DEF Eq
  <2> QED BY <1>2, <2>1
<1>4. CountStreaks(ts) = (CHOOSE g : Eq(g))[DOMAIN ts]
  BY DEF CountStreaks, FoldLeft, MapThenFoldSet, NoStreak
<1>5. Eq(CHOOSE g : Eq(g))
  <2> HIDE DEF Eq
  <2> QED BY <1>3
<1> HIDE DEF Eq
<1>6. FoldValue("streaks", NoStreak, ts) = (CHOOSE g : Eq(g))[1..Len(ts)]
  BY <1>2, <1>5, FoldIs
<1> QED BY <1>1, <1>4, <1>6

\* So is the loop over the equity in DrawdownSeries.
LEMMA SeriesFold ==
    ASSUME NEW S, NEW ts \in Seq(S)
    PROVE  DrawdownSeries(ts) = FoldValue("series", NoSeries, ts).series
<1> DEFINE Eq(f) == f = [t \in SUBSET DOMAIN ts |->
                           IF t = {} THEN NoSeries
                           ELSE LET a == f[t \ {Max(t)}]
                                    eq == a.equity + PnL[ts[Max(t)]]
                                    peak == Max({a.peak, eq})
                                IN  [equity |-> eq, peak |-> peak,
                                     series |-> Append(a.series, [loss |-> peak - eq, peak |-> peak])]]
<1>1. Len(ts) \in Nat /\ DOMAIN ts = 1..Len(ts)
  OBVIOUS
<1>2. \A f : Eq(f) <=> Folds("series", NoSeries, ts, Len(ts), f)
  BY <1>1 DEF Folds, Step
<1>3. PICK f : Eq(f)
  <2>1. PICK f : Folds("series", NoSeries, ts, Len(ts), f)
    BY <1>1, FoldExists
  <2> HIDE DEF Eq
  <2> QED BY <1>2, <2>1
<1>4. DrawdownSeries(ts) = (CHOOSE g : Eq(g))[DOMAIN ts].series
  BY DEF DrawdownSeries, FoldLeft, MapThenFoldSet, NoSeries
<1>5. Eq(CHOOSE g : Eq(g))
  <2> HIDE DEF Eq
  <2> QED BY <1>3
<1> HIDE DEF Eq
<1>6. FoldValue("series", NoSeries, ts) = (CHOOSE g : Eq(g))[1..Len(ts)]
  BY <1>2, <1>5, FoldIs
<1> QED BY <1>1, <1>4, <1>6

\* The second loop of MaxDrawdown.
LargestOf(ds) == FoldLeft(LAMBDA m, d : IF Larger(d, m) THEN d ELSE m, NoLoss, ds)

\* So is its search for the largest drawdown.
LEMMA LargestFold ==
    ASSUME NEW S, NEW ts \in Seq(S)
    PROVE  LargestOf(ts) = FoldValue("max", NoLoss, ts)
<1> DEFINE Eq(f) == f = [t \in SUBSET DOMAIN ts |->
                           IF t = {} THEN NoLoss
                           ELSE IF Larger(ts[Max(t)], f[t \ {Max(t)}])
                           THEN ts[Max(t)] ELSE f[t \ {Max(t)}]]
<1>1. Len(ts) \in Nat /\ DOMAIN ts = 1..Len(ts)
  OBVIOUS
<1>2. \A f : Eq(f) <=> Folds("max", NoLoss, ts, Len(ts), f)
  BY <1>1 DEF Folds, Step
<1>3. PICK f : Eq(f)
  <2>1. PICK f : Folds("max", NoLoss, ts, Len(ts), f)
    BY <1>1, FoldExists
  <2> HIDE DEF Eq
  <2> QED BY <1>2, <2>1
<1>4. LargestOf(ts) = (CHOOSE g : Eq(g))[DOMAIN ts]
  BY DEF LargestOf, FoldLeft, MapThenFoldSet, NoLoss
<1>5. Eq(CHOOSE g : Eq(g))
  <2> HIDE DEF Eq
  <2> QED BY <1>3
<1> HIDE DEF Eq
<1>6. FoldValue("max", NoLoss, ts) = (CHOOSE g : Eq(g))[1..Len(ts)]
  BY <1>2, <1>5, FoldIs
<1> QED BY <1>1, <1>4, <1>6

\* The largest element of a set.
LEMMA MaxIs ==
    ASSUME NEW S \in SUBSET Int, NEW m \in S, \A y \in S : m >= y
    PROVE  Max(S) = m
<1>1. \A x \in S : (\A y \in S : x >= y) => x = m
  OBVIOUS
<1> QED BY <1>1 DEF Max

\* The smallest element.
LEMMA MinIs ==
    ASSUME NEW S \in SUBSET Int, NEW m \in S, \A y \in S : m <= y
    PROVE  Min(S) = m
<1>1. \A x \in S : (\A y \in S : x <= y) => x = m
  OBVIOUS
<1> QED BY <1>1 DEF Min

\* The larger of two numbers.
LEMMA MaxOfTwo ==
    ASSUME NEW x \in Int, NEW y \in Int
    PROVE  Max({x, y}) = IF x >= y THEN x ELSE y
<1>1. CASE x >= y
  BY <1>1, MaxIs
<1>2. CASE ~(x >= y)
  BY <1>2, MaxIs
<1> QED BY <1>1, <1>2

\* The smaller of two numbers.
LEMMA MinOfTwo ==
    ASSUME NEW x \in Int, NEW y \in Int
    PROVE  Min({x, y}) = IF x <= y THEN x ELSE y
<1>1. CASE x <= y
  BY <1>1, MinIs
<1>2. CASE ~(x <= y)
  BY <1>2, MinIs
<1> QED BY <1>1, <1>2

-----------------------------------------------------------------------------
(* Streaks *)

\* The lengths of the runs of S among positions up to n.
Runs(S, n) == {k \in 0..n : \E i \in 1..n + 1 : i..i + k - 1 \subseteq S}

\* Among the positions up to n, w of S end it, and k of S is the longest run.
Streak(S, n, w, k) ==
    /\ S \subseteq 1..n /\ w \in 0..n
    /\ n - w + 1..n \subseteq S /\ n - w \notin S
    /\ k \in Runs(S, n) /\ \A j \in Runs(S, n) : j <= k

\* A Streak's k is the longest run.
LEMMA StreakIsLongest ==
    ASSUME NEW S, NEW n \in Nat, NEW w, NEW k, Streak(S, n, w, k)
    PROVE  LongestRunIn(S, n) = k /\ k \in Nat /\ w \in Nat
<1> DEFINE R == Runs(S, n)
<1>1. R \in SUBSET Int /\ k \in R /\ \A j \in R : k >= j
  <2>1. R \in SUBSET Int
    BY DEF Runs
  <2>2. k \in R /\ \A j \in R : j <= k
    BY DEF Streak
  <2> HIDE DEF R
  <2> QED BY <2>1, <2>2
<1>2. Max(Runs(S, n)) = k
  BY <1>1, MaxIs
<1> QED BY <1>2 DEF LongestRunIn, Runs, Streak

\* No positions, no run.
LEMMA NoRun == Streak({}, 0, 0, 0)
<1>1. 0 \in Runs({}, 0)
  <2>1. 1..1 + 0 - 1 \subseteq {} /\ 1 \in 1..0 + 1
    OBVIOUS
  <2> QED BY <2>1 DEF Runs
<1>2. \A j \in Runs({}, 0) : j <= 0
  BY DEF Runs
<1> QED BY <1>1, <1>2 DEF Streak

\* A run that reaches the last position, and the one that does not.
LEMMA RunGoesOn ==
    ASSUME NEW S, NEW n \in Nat, NEW w, NEW k, Streak(S, n, w, k)
    PROVE  Streak(S \cup {n + 1}, n + 1, w + 1, Max({k, w + 1}))
<1> DEFINE R == S \cup {n + 1}
           m == Max({k, w + 1})
<1>1. /\ S \subseteq 1..n /\ w \in 0..n /\ n - w + 1..n \subseteq S /\ n - w \notin S
      /\ k \in 0..n /\ k \in Runs(S, n) /\ \A j \in Runs(S, n) : j <= k
  BY DEF Streak, Runs
<1>2. m = IF k >= w + 1 THEN k ELSE w + 1
  BY <1>1, MaxOfTwo
<1> HIDE DEF m
<1>3. /\ R \subseteq 1..n + 1 /\ w + 1 \in 0..n + 1
      /\ (n + 1) - (w + 1) + 1..n + 1 \subseteq R /\ (n + 1) - (w + 1) \notin R
  BY <1>1
<1>4. m \in Runs(R, n + 1)
  <2>1. PICK i \in 1..n + 1 : i..i + k - 1 \subseteq S
    BY <1>1 DEF Runs
  <2>2. k \in Runs(R, n + 1)
    <3>1. i \in 1..(n + 1) + 1 /\ k \in 0..n + 1 /\ i..i + k - 1 \subseteq R
      BY <1>1, <2>1
    <3> QED BY <3>1 DEF Runs
  <2>3. w + 1 \in Runs(R, n + 1)
    <3>1. PICK a \in 1..n + 2 : a = n - w + 1
      BY <1>1
    <3>2. a..a + (w + 1) - 1 \subseteq R
      BY <1>1, <3>1
    <3> QED BY <1>3, <3>1, <3>2 DEF Runs
  <2> QED BY <1>2, <2>2, <2>3
<1>5. ASSUME NEW j \in Runs(R, n + 1) PROVE j <= m
  <2>1. PICK i \in 1..n + 2 : i..i + j - 1 \subseteq R /\ j \in 0..n + 1
    BY DEF Runs
  <2>2. CASE n + 1 \in i..i + j - 1
    <3>1. i + j - 1 \in i..i + j - 1 /\ i + j - 1 \in R
      BY <2>1, <2>2
    <3>2. i + j - 1 = n + 1
      BY <1>3, <2>1, <2>2, <3>1
    <3>3. ~(i <= n - w)
      <4> SUFFICES ASSUME i <= n - w PROVE FALSE
        OBVIOUS
      <4>1. n - w \in i..i + j - 1 /\ n - w # n + 1
        BY <1>1, <2>1, <3>2
      <4> QED BY <1>1, <2>1, <4>1
    <3>4. j <= w + 1
      BY <1>1, <2>1, <3>2, <3>3
    <3> QED BY <1>1, <1>2, <2>1, <3>4
  <2>3. CASE n + 1 \notin i..i + j - 1
    <3>1. i..i + j - 1 \subseteq S
      BY <2>1, <2>3
    <3>2. CASE j = 0
      BY <1>1, <1>2, <3>2
    <3>3. CASE j # 0
      <4>1. i \in i..i + j - 1 /\ i + j - 1 \in i..i + j - 1
        BY <2>1, <3>3
      <4>2. i <= n /\ i + j - 1 <= n
        BY <1>1, <3>1, <4>1
      <4>3. j \in Runs(S, n)
        <5>1. i \in 1..n + 1 /\ j \in 0..n
          BY <2>1, <4>2
        <5> QED BY <3>1, <5>1 DEF Runs
      <4> QED BY <1>1, <1>2, <2>1, <4>3
    <3> QED BY <3>2, <3>3
  <2> QED BY <2>2, <2>3
<1> QED BY <1>3, <1>4, <1>5 DEF Streak, m

\* A position not in S: the run at the end is empty, and no run is new.
LEMMA RunEnds ==
    ASSUME NEW S, NEW n \in Nat, NEW w, NEW k, Streak(S, n, w, k)
    PROVE  Streak(S, n + 1, 0, Max({k, 0}))
<1>1. /\ S \subseteq 1..n /\ k \in 0..n /\ k \in Runs(S, n) /\ \A j \in Runs(S, n) : j <= k
  BY DEF Streak, Runs
<1>2. Max({k, 0}) = k
  BY <1>1, MaxOfTwo
<1>3. k \in Runs(S, n + 1)
  <2>1. PICK i \in 1..n + 1 : i..i + k - 1 \subseteq S
    BY <1>1 DEF Runs
  <2>2. i \in 1..(n + 1) + 1 /\ k \in 0..n + 1
    BY <1>1
  <2> QED BY <2>1, <2>2 DEF Runs
<1>4. ASSUME NEW j \in Runs(S, n + 1) PROVE j <= k
  <2>1. PICK i \in 1..n + 2 : i..i + j - 1 \subseteq S /\ j \in 0..n + 1
    BY DEF Runs
  <2>2. CASE j = 0
    BY <1>1, <2>2
  <2>3. CASE j # 0
    <3>1. i \in i..i + j - 1 /\ i + j - 1 \in i..i + j - 1
      BY <2>1, <2>3
    <3>2. i <= n /\ i + j - 1 <= n
      BY <1>1, <2>1, <3>1
    <3>3. j \in Runs(S, n)
      BY <2>1, <3>2 DEF Runs
    <3> QED BY <1>1, <3>3
  <2> QED BY <2>2, <2>3
<1>5. S \subseteq 1..n + 1 /\ 0 \in 0..n + 1 /\ (n + 1) - 0 + 1..n + 1 \subseteq S /\ (n + 1) - 0 \notin S
  BY <1>1
<1> QED BY <1>2, <1>3, <1>4, <1>5 DEF Streak

-----------------------------------------------------------------------------
(* The drawdown *)

\* Comparing fractions by multiplying them out.
LEMMA Multiplied ==
    ASSUME NEW x \in Int, NEW y \in Int, NEW c \in Nat \ {0}
    PROVE  x <= y <=> x * c <= y * c
<1>1. ASSUME x <= y PROVE x * c <= y * c
  BY <1>1
<1>2. ASSUME y < x PROVE y * c < x * c
  BY <1>2
<1>3. x * c \in Int /\ y * c \in Int
  OBVIOUS
<1> QED BY <1>1, <1>2, <1>3

\* Drawdowns as fractions, and the one from q down to x.
Drawdowns == [loss : Int, peak : Nat \ {0}]
From(q, x) == [loss |-> q - x, peak |-> q]

\* Not being larger is transitive, although equity may be negative.
LEMMA LargerIsTransitive ==
    ASSUME NEW a \in Drawdowns, NEW b \in Drawdowns, NEW c \in Drawdowns,
           ~Larger(a, b), ~Larger(b, c)
    PROVE  ~Larger(a, c)
<1>1. PICK al \in Int, ap \in Nat \ {0} : al = a.loss /\ ap = a.peak
  BY DEF Drawdowns
<1>2. PICK bl \in Int, bp \in Nat \ {0} : bl = b.loss /\ bp = b.peak
  BY DEF Drawdowns
<1>3. PICK cl \in Int, cp \in Nat \ {0} : cl = c.loss /\ cp = c.peak
  BY DEF Drawdowns
<1>4. al * bp <= bl * ap /\ bl * cp <= cl * bp
  BY <1>1, <1>2, <1>3 DEF Larger
<1>5. (al * bp) * cp <= (bl * ap) * cp
  <2>1. al * bp \in Int /\ bl * ap \in Int
    OBVIOUS
  <2> QED BY <1>4, <2>1, Multiplied
<1>6. (bl * cp) * ap <= (cl * bp) * ap
  <2>1. bl * cp \in Int /\ cl * bp \in Int
    OBVIOUS
  <2> QED BY <1>4, <2>1, Multiplied
<1>7. (al * cp) * bp <= (cl * ap) * bp
  <2>1. /\ (al * bp) * cp = (al * cp) * bp /\ (bl * ap) * cp = (bl * cp) * ap
        /\ (cl * bp) * ap = (cl * ap) * bp
    OBVIOUS
  <2>2. (al * cp) * bp \in Int /\ (bl * cp) * ap \in Int /\ (cl * ap) * bp \in Int
    OBVIOUS
  <2> QED BY <1>5, <1>6, <2>1, <2>2
<1>8. al * cp <= cl * ap
  <2>1. al * cp \in Int /\ cl * ap \in Int
    OBVIOUS
  <2> QED BY <1>7, <2>1, Multiplied
<1>9. al * cp \in Int /\ cl * ap \in Int
  OBVIOUS
<1> QED BY <1>1, <1>3, <1>8, <1>9 DEF Larger

\* Of two drawdowns one is not larger.
LEMMA LargerIsTotal ==
    ASSUME NEW a \in Drawdowns, NEW b \in Drawdowns, Larger(a, b)
    PROVE  ~Larger(b, a)
<1>1. a.loss * b.peak \in Int /\ b.loss * a.peak \in Int
  BY DEF Drawdowns
<1> QED BY <1>1 DEF Larger

\* Down to a point that is not negative more is lost from a higher peak.
LEMMA HigherPeakLosesMore ==
    ASSUME NEW q \in Nat \ {0}, NEW top \in Nat \ {0}, q <= top, NEW x \in Nat
    PROVE  ~Larger(From(q, x), From(top, x))
<1>1. x * q <= x * top
  OBVIOUS
<1>2. /\ (q - x) * top = q * top - x * top /\ (top - x) * q = top * q - x * q
      /\ q * top = top * q
  OBVIOUS
<1>3. q * top \in Int /\ x * top \in Int /\ x * q \in Int
  OBVIOUS
<1>4. (q - x) * top <= (top - x) * q
  BY <1>1, <1>2, <1>3
<1>5. (q - x) * top \in Int /\ (top - x) * q \in Int
  OBVIOUS
<1> QED BY <1>4, <1>5 DEF Larger, From

\* Among the points c[0] to c[n], top is the highest and m the largest drawdown.
Tracks(c, n, top, m) ==
    /\ top \in Nat \ {0} /\ m \in Drawdowns
    /\ \A i \in 0..n : c[i] <= top
    /\ \E i \in 0..n : c[i] = top
    /\ \A i, j \in 0..n : i <= j /\ c[i] > 0 /\ c[j] >= 0 => ~Larger(From(c[i], c[j]), m)
    /\ \E i, j \in 0..n : i <= j /\ c[i] > 0 /\ ~Larger(m, From(c[i], c[j]))

\* Nothing is lost at the first point.
LEMMA FirstPoint ==
    ASSUME NEW c, c[0] \in Nat \ {0}
    PROVE  Tracks(c, 0, c[0], NoLoss)
<1>1. NoLoss \in Drawdowns
  BY DEF NoLoss, Drawdowns
<1>2. ~Larger(From(c[0], c[0]), NoLoss) /\ ~Larger(NoLoss, From(c[0], c[0]))
  BY DEF Larger, NoLoss, From
<1>3. 0..0 = {0}
  OBVIOUS
<1> QED BY <1>1, <1>2, <1>3 DEF Tracks

\* One point more: only drawdowns down to it are new, and the one from the highest
\* peak is the largest of these.
LEMMA NextPoint ==
    ASSUME NEW n \in Nat, NEW c, NEW top, NEW m, Tracks(c, n, top, m),
           NEW e \in [0..n + 1 -> Int], \A i \in 0..n : e[i] = c[i]
    PROVE  LET peak == Max({top, e[n + 1]})
               dd == From(peak, e[n + 1])
           IN  dd \in Drawdowns /\ Tracks(e, n + 1, peak, IF Larger(dd, m) THEN dd ELSE m)
<1> DEFINE x == e[n + 1]
           peak == Max({top, x})
           dd == From(peak, x)
           new == IF Larger(dd, m) THEN dd ELSE m
<1>1. x \in Int /\ top \in Nat \ {0} /\ m \in Drawdowns
  BY DEF Tracks
<1>2. peak \in Nat \ {0} /\ top <= peak /\ x <= peak /\ (peak = x \/ peak = top)
  <2>1. peak = IF top >= x THEN top ELSE x
    BY <1>1, MaxOfTwo
  <2> HIDE DEF peak, x
  <2> QED BY <1>1, <2>1
<1>3. n + 1 \in 0..n + 1 /\ \A i \in 0..n + 1 : i # n + 1 => i \in 0..n
  OBVIOUS
<1> HIDE DEF peak
<1>4. \A i \in 0..n + 1 : e[i] <= peak
  <2> SUFFICES ASSUME NEW i \in 0..n + 1 PROVE e[i] <= peak
    OBVIOUS
  <2>1. CASE i = n + 1
    BY <1>2, <2>1
  <2>2. CASE i # n + 1
    <3>1. e[i] <= top /\ e[i] \in Int
      BY <1>3, <2>2 DEF Tracks
    <3> QED BY <1>1, <1>2, <3>1
  <2> QED BY <2>1, <2>2
<1>5. \E i \in 0..n + 1 : e[i] = peak
  <2>1. CASE peak = x
    BY <1>3, <2>1
  <2>2. CASE peak = top
    <3>1. PICK i \in 0..n : c[i] = top
      BY DEF Tracks
    <3> QED BY <1>3, <2>2, <3>1
  <2> QED BY <1>2, <2>1, <2>2
<1>6. dd \in Drawdowns
  BY <1>1, <1>2 DEF Drawdowns, From
<1>7. \A d \in Drawdowns : ~Larger(d, d)
  BY DEF Larger, Drawdowns
<1>8. new \in Drawdowns /\ ~Larger(dd, new) /\ ~Larger(m, new)
  <2> HIDE DEF dd
  <2> QED BY <1>1, <1>6, <1>7, LargerIsTotal
<1>9. ASSUME NEW i \in 0..n + 1, NEW j \in 0..n + 1, i <= j, e[i] > 0, e[j] >= 0
      PROVE  ~Larger(From(e[i], e[j]), new)
  <2>1. e[i] \in Nat \ {0} /\ e[j] \in Nat /\ From(e[i], e[j]) \in Drawdowns
    <3>1. e[i] \in Nat \ {0} /\ e[j] \in Nat
      BY <1>9
    <3> QED BY <3>1 DEF From, Drawdowns
  <2> HIDE DEF new
  <2>2. CASE j = n + 1
    <3>1. e[i] <= peak /\ x \in Nat
      BY <1>4, <2>1, <2>2
    <3>2. ~Larger(From(e[i], x), dd)
      BY <1>2, <2>1, <3>1, HigherPeakLosesMore
    <3> QED BY <1>6, <1>8, <2>1, <2>2, <3>2, LargerIsTransitive
  <2>3. CASE j # n + 1
    <3>1. i \in 0..n /\ j \in 0..n
      BY <1>9, <2>3
    <3>2. ~Larger(From(e[i], e[j]), m)
      <4>1. e[i] = c[i] /\ e[j] = c[j]
        BY <3>1
      <4> QED BY <1>9, <3>1, <4>1 DEF Tracks
    <3> QED BY <1>1, <1>8, <2>1, <3>2, LargerIsTransitive
  <2> QED BY <2>2, <2>3
<1>10. \E i, j \in 0..n + 1 : i <= j /\ e[i] > 0 /\ ~Larger(new, From(e[i], e[j]))
  <2>1. CASE Larger(dd, m)
    <3>1. PICK i \in 0..n + 1 : e[i] = peak
      BY <1>5
    <3>2. new = From(e[i], e[n + 1])
      BY <2>1, <3>1
    <3>3. ~Larger(new, From(e[i], e[n + 1]))
      BY <1>7, <1>8, <3>2
    <3> QED BY <1>2, <1>3, <3>1, <3>3
  <2>2. CASE ~Larger(dd, m)
    <3>1. PICK i \in 0..n, j \in 0..n : i <= j /\ c[i] > 0 /\ ~Larger(m, From(c[i], c[j]))
      BY DEF Tracks
    <3>2. i \in 0..n + 1 /\ j \in 0..n + 1 /\ e[i] = c[i] /\ e[j] = c[j] /\ new = m
      BY <2>2
    <3> QED BY <3>1, <3>2
  <2> QED BY <2>1, <2>2
<1> HIDE DEF new
<1>11. Tracks(e, n + 1, peak, new)
  BY <1>2, <1>4, <1>5, <1>8, <1>9, <1>10 DEF Tracks
<1> QED BY <1>6, <1>11 DEF peak, new

-----------------------------------------------------------------------------
(* One trade more *)

\* The positions, winners and profits of a sequence of trades.
LEMMA TradesHaveProfit ==
    ASSUME NEW ts \in Seq(Trades)
    PROVE  /\ Len(ts) \in Nat /\ DOMAIN ts = 1..Len(ts)
           /\ \A i \in 1..Len(ts) : ts[i] \in Trades /\ PnL[ts[i]] \in Int /\ PnLs(ts)[i] = PnL[ts[i]]
           /\ Wins(ts) \subseteq 1..Len(ts) /\ IsFiniteSet(Wins(ts)) /\ IsFiniteSet(1..Len(ts))
<1>1. PICK n \in Nat : n = Len(ts)
  OBVIOUS
<1>2. DOMAIN ts = 1..n /\ \A i \in 1..n : ts[i] \in Trades
  BY <1>1
<1>3. \A i \in 1..n : PnL[ts[i]] \in Int
  BY <1>2, JournalConstantsOK
<1>4. \A i \in 1..n : PnLs(ts)[i] = PnL[ts[i]]
  BY <1>2 DEF PnLs
<1>5. Wins(ts) \subseteq 1..n /\ IsFiniteSet(1..n)
  BY <1>2, FS_Interval DEF Wins
<1>6. IsFiniteSet(Wins(ts))
  BY <1>5, FS_Subset
<1> QED BY <1>1, <1>2, <1>3, <1>4, <1>5, <1>6

\* What a trade appended changes of them.
LEMMA TradeAppended ==
    ASSUME NEW ts \in Seq(Trades), NEW t \in Trades
    PROVE  LET us == Append(ts, t)
               n == Len(ts)
           IN  /\ us \in Seq(Trades) /\ Len(us) = n + 1 /\ us[n + 1] = t
               /\ \A i \in 1..n : us[i] = ts[i] /\ PnLs(us)[i] = PnLs(ts)[i]
               /\ PnLs(us)[n + 1] = PnL[t] /\ PnL[t] \in Int
               /\ Wins(us) = IF Win(t) THEN Wins(ts) \cup {n + 1} ELSE Wins(ts)
               /\ DOMAIN us = DOMAIN ts \cup {n + 1}
               /\ DOMAIN us \ Wins(us) = IF Win(t) THEN DOMAIN ts \ Wins(ts)
                                         ELSE (DOMAIN ts \ Wins(ts)) \cup {n + 1}
<1> DEFINE us == Append(ts, t)
<1>1. PICK n \in Nat : n = Len(ts)
  OBVIOUS
<1>2. /\ us \in Seq(Trades) /\ Len(us) = n + 1 /\ us[n + 1] = t
      /\ \A i \in 1..n : us[i] = ts[i]
  BY <1>1
<1> HIDE DEF us
<1>3. DOMAIN us = 1..n + 1 /\ DOMAIN ts = 1..n
  BY <1>1, <1>2
<1>4. /\ \A i \in 1..n : PnLs(us)[i] = PnLs(ts)[i]
      /\ PnLs(us)[n + 1] = PnL[t] /\ PnL[t] \in Int
  BY <1>2, <1>3, JournalConstantsOK DEF PnLs
<1>5. 1..n + 1 = (1..n) \cup {n + 1} /\ n + 1 \notin 1..n
  OBVIOUS
<1>6. \A i : i \in Wins(us) <=> i \in Wins(ts) \/ (Win(t) /\ i = n + 1)
  BY <1>2, <1>3, <1>5 DEF Wins
<1>7. Wins(us) = IF Win(t) THEN Wins(ts) \cup {n + 1} ELSE Wins(ts)
  BY <1>6
<1>8. Wins(ts) \subseteq 1..n
  BY <1>3 DEF Wins
<1>9. DOMAIN us \ Wins(us) = IF Win(t) THEN DOMAIN ts \ Wins(ts)
                             ELSE (DOMAIN ts \ Wins(ts)) \cup {n + 1}
  BY <1>3, <1>5, <1>7, <1>8
<1> QED BY <1>1, <1>2, <1>3, <1>4, <1>5, <1>7, <1>9 DEF us

-----------------------------------------------------------------------------
(* Totals *)

\* Statistics, field by field.
StatsType ==
    [total : Nat, pnl : Int, winners : Nat, losers : Nat, grossProfit : Int, grossLoss : Int,
     largestWin : Int, largestLoss : Int, maxConsecWins : Int, maxConsecLoss : Int,
     byStrategy : [Strategies -> StrategyStats]]

\* The types of the single fields.
LEMMA StatsFields ==
    ASSUME NEW s \in StatsType
    PROVE  /\ s.total \in Nat /\ s.pnl \in Int /\ s.winners \in Nat /\ s.losers \in Nat
           /\ s.grossProfit \in Int /\ s.grossLoss \in Int
           /\ s.largestWin \in Int /\ s.largestLoss \in Int
           /\ s.byStrategy \in [Strategies -> StrategyStats]
BY DEF StatsType

\* Counts and sums.
Totals(s, ts) ==
    /\ s.total = Len(ts) /\ s.winners = Cardinality(Wins(ts))
    /\ s.winners + s.losers = s.total
    /\ s.pnl = SumOver(DOMAIN ts, PnLs(ts))
    /\ s.grossProfit = SumOver(Wins(ts), PnLs(ts))
    /\ s.grossProfit - s.grossLoss = s.pnl

\* updateStats keeps the totals those of the trades.
LEMMA TotalsGrow ==
    ASSUME NEW ts \in Seq(Trades), NEW t \in Trades, NEW s \in StatsType, Totals(s, ts)
    PROVE  Totals(UpdateStats(s, Append(ts, t), t), Append(ts, t))
<1> DEFINE us == Append(ts, t)
           r == UpdateStats(s, us, t)
           n == Len(ts)
           p == PnL[t]
<1>1. /\ n \in Nat /\ DOMAIN ts = 1..n
      /\ \A i \in 1..n : PnLs(ts)[i] \in Int
      /\ Wins(ts) \subseteq 1..n /\ IsFiniteSet(Wins(ts)) /\ IsFiniteSet(1..n)
  BY TradesHaveProfit
<1>2. /\ us \in Seq(Trades) /\ Len(us) = n + 1
      /\ \A i \in 1..n : PnLs(us)[i] = PnLs(ts)[i]
      /\ PnLs(us)[n + 1] = p /\ p \in Int
      /\ Wins(us) = IF Win(t) THEN Wins(ts) \cup {n + 1} ELSE Wins(ts)
      /\ DOMAIN us = (1..n) \cup {n + 1}
  BY <1>1, TradeAppended
<1>5. /\ s.total \in Nat /\ s.pnl \in Int /\ s.winners \in Nat /\ s.losers \in Nat
      /\ s.grossProfit \in Int /\ s.grossLoss \in Int
  BY StatsFields
<1>3. /\ r.total = s.total + 1 /\ r.pnl = s.pnl + p
      /\ r.winners = IF Win(t) THEN s.winners + 1 ELSE s.winners
      /\ r.losers = IF Win(t) THEN s.losers ELSE s.losers + 1
      /\ r.grossProfit = IF Win(t) THEN s.grossProfit + p ELSE s.grossProfit
      /\ r.grossLoss = IF Win(t) THEN s.grossLoss ELSE s.grossLoss - p
  BY <1>5 DEF UpdateStats
<1>4. /\ s.total = n /\ s.winners = Cardinality(Wins(ts))
      /\ s.winners + s.losers = s.total
      /\ s.pnl = SumOver(1..n, PnLs(ts))
      /\ s.grossProfit = SumOver(Wins(ts), PnLs(ts))
      /\ s.grossProfit - s.grossLoss = s.pnl
  BY <1>1 DEF Totals
<1> HIDE DEF us, r, p, n
<1>6. n + 1 \notin 1..n /\ n + 1 \notin Wins(ts)
  BY <1>1
<1>7. \A S \in SUBSET (1..n) :
         SumOver(S \cup {n + 1}, PnLs(us)) = p + SumOver(S, PnLs(ts))
  <2> SUFFICES ASSUME NEW S \in SUBSET (1..n)
               PROVE  SumOver(S \cup {n + 1}, PnLs(us)) = p + SumOver(S, PnLs(ts))
    OBVIOUS
  <2>1. IsFiniteSet(S) /\ n + 1 \notin S
    BY <1>1, <1>6, FS_Subset
  <2>2. PICK R : R = S \cup {n + 1}
    OBVIOUS
  <2>3. IsFiniteSet(R) /\ n + 1 \in R /\ R \ {n + 1} = S
    BY <2>1, <2>2, FS_AddElement
  <2>4. (\A i \in R : PnLs(us)[i] \in Int) /\ \A i \in R \ {n + 1} : PnLs(ts)[i] = PnLs(us)[i]
    BY <1>1, <1>2, <2>2, <2>3
  <2>5. SumOver(R, PnLs(us)) = PnLs(us)[n + 1] + SumOver(R \ {n + 1}, PnLs(ts))
    BY <2>3, <2>4, SumLessOne
  <2> QED BY <1>2, <2>2, <2>3, <2>5
<1>8. r.grossProfit = SumOver(Wins(us), PnLs(us))
  <2>1. CASE Win(t)
    <3>1. SumOver(Wins(ts) \cup {n + 1}, PnLs(us)) = p + SumOver(Wins(ts), PnLs(ts))
      BY <1>1, <1>7
    <3> QED BY <1>2, <1>3, <1>4, <1>5, <2>1, <3>1
  <2>2. CASE ~Win(t)
    <3>1. SumOver(Wins(ts), PnLs(us)) = SumOver(Wins(ts), PnLs(ts))
      BY <1>1, <1>2, SumSame
    <3> QED BY <1>2, <1>3, <1>4, <2>2, <3>1
  <2> QED BY <2>1, <2>2
<1>9. r.winners = Cardinality(Wins(us))
  <2>1. Cardinality(Wins(ts) \cup {n + 1}) = Cardinality(Wins(ts)) + 1
    BY <1>1, <1>6, FS_AddElement
  <2> QED BY <1>2, <1>3, <1>4, <1>5, <2>1
<1>10. r.winners + r.losers = r.total /\ r.total = Len(us)
  <2>1. r.total = Len(us)
    BY <1>2, <1>3, <1>4
  <2>2. r.winners + r.losers = s.winners + s.losers + 1
    BY <1>3, <1>5
  <2> QED BY <1>3, <1>4, <2>1, <2>2
<1>11. r.pnl = SumOver(DOMAIN us, PnLs(us))
  <2>1. SumOver(DOMAIN us, PnLs(us)) = p + SumOver(1..n, PnLs(ts))
    BY <1>2, <1>7
  <2> QED BY <1>2, <1>3, <1>4, <1>5, <2>1
<1>12. r.grossProfit - r.grossLoss = r.pnl
  BY <1>2, <1>3, <1>4, <1>5
<1>13. Totals(r, us)
  BY <1>8, <1>9, <1>10, <1>11, <1>12 DEF Totals
<1> QED BY <1>13 DEF r, us

-----------------------------------------------------------------------------
(* The largest win and the largest loss *)

\* The candidates for the largest win and the largest loss.
Gains(ts) == {0} \cup {PnL[ts[i]] : i \in Wins(ts)}
Losses(ts) == {0} \cup {PnL[ts[i]] : i \in DOMAIN ts}

\* The largest win and loss are the extremes of these.
Extremes(s, ts) ==
    /\ s.largestWin \in Gains(ts) /\ \A y \in Gains(ts) : y <= s.largestWin
    /\ s.largestLoss \in Losses(ts) /\ \A y \in Losses(ts) : s.largestLoss <= y

\* updateStats keeps the largest win and loss.
LEMMA ExtremesGrow ==
    ASSUME NEW ts \in Seq(Trades), NEW t \in Trades, NEW s \in StatsType, Extremes(s, ts)
    PROVE  Extremes(UpdateStats(s, Append(ts, t), t), Append(ts, t))
<1> DEFINE us == Append(ts, t)
           r == UpdateStats(s, us, t)
           n == Len(ts)
           p == PnL[t]
<1>1. n \in Nat /\ DOMAIN ts = 1..n /\ Wins(ts) \subseteq 1..n
  BY TradesHaveProfit
<1>2. /\ us[n + 1] = t /\ \A i \in 1..n : us[i] = ts[i]
      /\ p \in Int /\ DOMAIN us = (1..n) \cup {n + 1}
      /\ Wins(us) = IF Win(t) THEN Wins(ts) \cup {n + 1} ELSE Wins(ts)
  BY <1>1, TradeAppended
<1>3. /\ r.largestWin = IF Win(t) THEN Max({s.largestWin, p}) ELSE s.largestWin
      /\ r.largestLoss = IF Win(t) THEN s.largestLoss ELSE Min({s.largestLoss, p})
  BY DEF UpdateStats
<1>4. s.largestWin \in Int /\ s.largestLoss \in Int
  BY StatsFields
<1> HIDE DEF us, r, n
<1>5. Gains(us) = IF Win(t) THEN Gains(ts) \cup {p} ELSE Gains(ts)
  <2>1. \A i \in Wins(ts) : us[i] = ts[i]
    BY <1>1, <1>2
  <2>2. {PnL[us[i]] : i \in Wins(ts)} = {PnL[ts[i]] : i \in Wins(ts)}
    BY <2>1
  <2>3. {PnL[us[i]] : i \in Wins(ts) \cup {n + 1}} = {PnL[ts[i]] : i \in Wins(ts)} \cup {p}
    BY <1>2, <2>1
  <2> QED BY <1>2, <2>2, <2>3 DEF Gains
<1>6. Losses(us) = Losses(ts) \cup {p}
  <2>1. {PnL[us[i]] : i \in (1..n) \cup {n + 1}} = {PnL[ts[i]] : i \in 1..n} \cup {p}
    BY <1>2
  <2> QED BY <1>1, <1>2, <2>1 DEF Losses
<1>7. Win(t) <=> p > 0
  BY DEF Win
<1> HIDE DEF p
<1>8. \A y \in Gains(ts) \cup Losses(ts) : y \in Int
  <2>1. \A i \in 1..n : PnL[ts[i]] \in Int
    BY TradesHaveProfit DEF n
  <2> QED BY <1>1, <2>1 DEF Gains, Losses
<1>9. r.largestWin \in Gains(us) /\ \A y \in Gains(us) : y <= r.largestWin
  <2>1. CASE Win(t)
    <3>1. r.largestWin = IF s.largestWin >= p THEN s.largestWin ELSE p
      BY <1>2, <1>3, <1>4, <2>1, MaxOfTwo
    <3> QED BY <1>2, <1>4, <1>5, <1>8, <2>1, <3>1 DEF Extremes
  <2>2. CASE ~Win(t)
    BY <1>3, <1>5, <2>2 DEF Extremes
  <2> QED BY <2>1, <2>2
<1>10. r.largestLoss \in Losses(us) /\ \A y \in Losses(us) : r.largestLoss <= y
  <2>1. CASE Win(t)
    <3>1. s.largestLoss <= 0 /\ 0 <= p
      <4>1. 0 \in Losses(ts)
        BY DEF Losses
      <4> QED BY <1>2, <1>7, <2>1, <4>1 DEF Extremes
    <3> QED BY <1>2, <1>3, <1>4, <1>6, <1>8, <2>1, <3>1 DEF Extremes
  <2>2. CASE ~Win(t)
    <3>1. r.largestLoss = IF s.largestLoss <= p THEN s.largestLoss ELSE p
      BY <1>2, <1>3, <1>4, <2>2, MinOfTwo
    <3> QED BY <1>2, <1>4, <1>6, <1>8, <2>2, <3>1 DEF Extremes
  <2> QED BY <2>1, <2>2
<1> QED BY <1>9, <1>10 DEF Extremes, r, us

-----------------------------------------------------------------------------
(* The strategies *)

\* One value changed by d changes the sum by d.
LEMMA SumOneChanged ==
    ASSUME NEW R, IsFiniteSet(R), NEW x \in R, NEW f, NEW e, NEW d \in Int,
           \A y \in R : e[y] \in Int, f[x] = e[x] + d, \A y \in R \ {x} : f[y] = e[y]
    PROVE  SumOver(R, f) = SumOver(R, e) + d
<1>1. \A y \in R : f[y] \in Int
  <2> SUFFICES ASSUME NEW y \in R PROVE f[y] \in Int
    OBVIOUS
  <2>1. CASE y = x
    <3>1. e[x] + d \in Int
      OBVIOUS
    <3> QED BY <2>1, <3>1
  <2>2. CASE y # x
    BY <2>2
  <2> QED BY <2>1, <2>2
<1>2. SumOver(R, f) = f[x] + SumOver(R \ {x}, e)
  <2>1. \A y \in R \ {x} : e[y] = f[y]
    OBVIOUS
  <2> QED BY <1>1, <2>1, SumLessOne
<1>3. SumOver(R, e) = e[x] + SumOver(R \ {x}, e)
  BY SumLessOne
<1>4. SumOver(R \ {x}, e) \in Int
  <2>1. IsFiniteSet(R \ {x})
    BY FS_RemoveElement
  <2> QED BY <2>1, SumType
<1> QED BY <1>2, <1>3, <1>4

\* Columns of the statistics by strategy.
TradesBy(b) == [g \in Strategies |-> b[g].trades]
WinnersBy(b) == [g \in Strategies |-> b[g].winners]
PnLBy(b) == [g \in Strategies |-> b[g].pnl]

\* Each column adds up to the total.
ByStrategy(s) ==
    /\ s.total = SumOver(Strategies, TradesBy(s.byStrategy))
    /\ s.winners = SumOver(Strategies, WinnersBy(s.byStrategy))
    /\ s.pnl = SumOver(Strategies, PnLBy(s.byStrategy))

\* updateStats adds a trade to the totals and to one strategy alike.
LEMMA ByStrategyGrows ==
    ASSUME NEW us, NEW t \in Trades, NEW s \in StatsType, ByStrategy(s)
    PROVE  /\ UpdateStats(s, us, t).byStrategy \in [Strategies -> StrategyStats]
           /\ ByStrategy(UpdateStats(s, us, t))
<1> DEFINE r == UpdateStats(s, us, t)
           wins == IF Win(t) THEN 1 ELSE 0
<1>1. PICK x \in Strategies : x = StrategyOf[t]
  BY JournalConstantsOK
<1>2. PICK p \in Int : p = PnL[t]
  BY JournalConstantsOK
<1>3. IsFiniteSet(Strategies)
  BY JournalConstantsOK
<1>4. PICK b \in [Strategies -> StrategyStats] : b = s.byStrategy
  BY StatsFields
<1>5. /\ r.total = s.total + 1 /\ r.winners = s.winners + wins /\ r.pnl = s.pnl + p
      /\ r.byStrategy = [b EXCEPT ![x] = [trades |-> b[x].trades + 1,
                                           winners |-> b[x].winners + wins, pnl |-> b[x].pnl + p]]
  BY <1>1, <1>2, <1>4 DEF UpdateStats
<1>6. PICK c : c = r.byStrategy
  OBVIOUS
<1>7. wins \in Nat
  OBVIOUS
<1> HIDE DEF r, wins
<1>8. \A g \in Strategies : b[g].trades \in Nat /\ b[g].winners \in Nat /\ b[g].pnl \in Int
  BY DEF StrategyStats
<1>9. /\ c[x] = [trades |-> b[x].trades + 1, winners |-> b[x].winners + wins, pnl |-> b[x].pnl + p]
      /\ \A g \in Strategies \ {x} : c[g] = b[g]
      /\ DOMAIN c = Strategies
      /\ c = [g \in Strategies |-> c[g]]
  BY <1>5, <1>6
<1>10. c[x].trades = b[x].trades + 1 /\ c[x].winners = b[x].winners + wins /\ c[x].pnl = b[x].pnl + p
  BY <1>9
<1>11. c \in [Strategies -> StrategyStats]
  <2>1. c[x] \in StrategyStats
    BY <1>7, <1>8, <1>9 DEF StrategyStats
  <2>2. \A g \in Strategies : c[g] \in StrategyStats
    BY <1>9, <2>1
  <2> QED BY <1>9, <2>2
<1>12. SumOver(Strategies, TradesBy(c)) = SumOver(Strategies, TradesBy(b)) + 1
  <2>1. PICK f, e : f = TradesBy(c) /\ e = TradesBy(b)
    OBVIOUS
  <2>2. (\A y \in Strategies : e[y] \in Int) /\ f[x] = e[x] + 1
        /\ \A y \in Strategies \ {x} : f[y] = e[y]
    BY <1>8, <1>9, <1>10, <2>1 DEF TradesBy
  <2>3. 1 \in Int
    OBVIOUS
  <2> QED BY <1>3, <2>1, <2>2, <2>3, SumOneChanged
<1>13. SumOver(Strategies, WinnersBy(c)) = SumOver(Strategies, WinnersBy(b)) + wins
  <2>1. PICK f, e : f = WinnersBy(c) /\ e = WinnersBy(b)
    OBVIOUS
  <2>2. (\A y \in Strategies : e[y] \in Int) /\ f[x] = e[x] + wins
        /\ \A y \in Strategies \ {x} : f[y] = e[y]
    BY <1>8, <1>9, <1>10, <2>1 DEF WinnersBy
  <2>3. wins \in Int
    BY <1>7
  <2> QED BY <1>3, <2>1, <2>2, <2>3, SumOneChanged
<1>14. SumOver(Strategies, PnLBy(c)) = SumOver(Strategies, PnLBy(b)) + p
  <2>1. PICK f, e : f = PnLBy(c) /\ e = PnLBy(b)
    OBVIOUS
  <2>2. (\A y \in Strategies : e[y] \in Int) /\ f[x] = e[x] + p
        /\ \A y \in Strategies \ {x} : f[y] = e[y]
    BY <1>8, <1>9, <1>10, <2>1 DEF PnLBy
  <2> QED BY <1>3, <2>1, <2>2, SumOneChanged
<1>15. ByStrategy(r)
  BY <1>4, <1>5, <1>6, <1>12, <1>13, <1>14 DEF ByStrategy
<1> QED BY <1>6, <1>11, <1>15 DEF r

-----------------------------------------------------------------------------
(* Streaks *)

\* The fold behind the streaks has the runs of wins and losses.
Streaks(s, ts) ==
    LET a == FoldValue("streaks", NoStreak, ts)
    IN  /\ s.maxConsecWins = a.maxW /\ s.maxConsecLoss = a.maxL
        /\ Streak(Wins(ts), Len(ts), a.w, a.maxW)
        /\ Streak(DOMAIN ts \ Wins(ts), Len(ts), a.l, a.maxL)

\* updateStats recounts the streaks over all trades, the new one included.
LEMMA StreaksGrow ==
    ASSUME NEW ts \in Seq(Trades), NEW t \in Trades, NEW s, Streaks(s, ts)
    PROVE  Streaks(UpdateStats(s, Append(ts, t), t), Append(ts, t))
<1>1. PICK n \in Nat : n = Len(ts)
  OBVIOUS
<1>2. PICK us : us = Append(ts, t)
  OBVIOUS
<1>3. /\ us \in Seq(Trades) /\ Len(us) = n + 1
      /\ Wins(us) = IF Win(t) THEN Wins(ts) \cup {n + 1} ELSE Wins(ts)
      /\ DOMAIN us \ Wins(us) = IF Win(t) THEN DOMAIN ts \ Wins(ts)
                                ELSE (DOMAIN ts \ Wins(ts)) \cup {n + 1}
  BY <1>1, <1>2, TradeAppended
<1>4. PICK a : a = FoldValue("streaks", NoStreak, ts)
  OBVIOUS
<1>5. PICK b : b = FoldValue("streaks", NoStreak, us)
  OBVIOUS
<1>6. b = Step("streaks", a, t)
  BY <1>2, <1>4, <1>5, FoldAppend
<1>7. /\ b.w = IF Win(t) THEN a.w + 1 ELSE 0
      /\ b.l = IF Win(t) THEN 0 ELSE a.l + 1
      /\ b.maxW = Max({a.maxW, b.w}) /\ b.maxL = Max({a.maxL, b.l})
  BY <1>6 DEF Step
<1>8. /\ Streak(Wins(ts), n, a.w, a.maxW)
      /\ Streak(DOMAIN ts \ Wins(ts), n, a.l, a.maxL)
  BY <1>1, <1>4 DEF Streaks
<1>9. UpdateStats(s, us, t).maxConsecWins = b.maxW /\ UpdateStats(s, us, t).maxConsecLoss = b.maxL
  <2>1. CountStreaks(us) = b
    BY <1>3, <1>5, StreaksFold
  <2> QED BY <2>1 DEF UpdateStats
<1>10. Streak(Wins(us), n + 1, b.w, b.maxW)
  <2>1. CASE Win(t)
    <3>1. Streak(Wins(ts) \cup {n + 1}, n + 1, a.w + 1, Max({a.maxW, a.w + 1}))
      BY <1>8, RunGoesOn
    <3> QED BY <1>3, <1>7, <2>1, <3>1
  <2>2. CASE ~Win(t)
    <3>1. Streak(Wins(ts), n + 1, 0, Max({a.maxW, 0}))
      BY <1>8, RunEnds
    <3> QED BY <1>3, <1>7, <2>2, <3>1
  <2> QED BY <2>1, <2>2
<1>11. Streak(DOMAIN us \ Wins(us), n + 1, b.l, b.maxL)
  <2>1. CASE ~Win(t)
    <3>1. Streak((DOMAIN ts \ Wins(ts)) \cup {n + 1}, n + 1, a.l + 1, Max({a.maxL, a.l + 1}))
      BY <1>8, RunGoesOn
    <3> QED BY <1>3, <1>7, <2>1, <3>1
  <2>2. CASE Win(t)
    <3>1. Streak(DOMAIN ts \ Wins(ts), n + 1, 0, Max({a.maxL, 0}))
      BY <1>8, RunEnds
    <3> QED BY <1>3, <1>7, <2>2, <3>1
  <2> QED BY <2>1, <2>2
<1> QED BY <1>2, <1>3, <1>5, <1>9, <1>10, <1>11 DEF Streaks

-----------------------------------------------------------------------------
(* The equity *)

\* Equity after each trade.
Curve(ts) == [i \in 0..Len(ts) |-> InitialCapital + SumOver(1..i, PnLs(ts))]

\* The equity after each trade is a number.
LEMMA CurveType ==
    ASSUME NEW ts \in Seq(Trades) PROVE Curve(ts) \in [0..Len(ts) -> Int]
<1> SUFFICES ASSUME NEW i \in 0..Len(ts)
             PROVE  InitialCapital + SumOver(1..i, PnLs(ts)) \in Int
  BY DEF Curve
<1>1. Len(ts) \in Nat /\ \A j \in 1..Len(ts) : PnL[ts[j]] \in Int /\ PnLs(ts)[j] = PnL[ts[j]]
  BY TradesHaveProfit
<1>2. \A j \in 1..i : PnLs(ts)[j] \in Int
  BY <1>1
<1>3. IsFiniteSet(1..i)
  BY <1>1, FS_Interval
<1>4. SumOver(1..i, PnLs(ts)) \in Int
  BY <1>2, <1>3, SumType
<1>5. InitialCapital \in Int
  BY JournalConstantsOK
<1> QED BY <1>4, <1>5

\* A trade more adds its profit to the equity.
LEMMA CurveGoesOn ==
    ASSUME NEW ts \in Seq(Trades), NEW t \in Trades
    PROVE  LET us == Append(ts, t)
               n == Len(ts)
           IN  /\ \A i \in 0..n : Curve(us)[i] = Curve(ts)[i]
               /\ Curve(us)[n + 1] = Curve(ts)[n] + PnL[t]
<1>1. PICK n \in Nat : n = Len(ts)
  OBVIOUS
<1>2. PICK us : us = Append(ts, t)
  OBVIOUS
<1>3. /\ us \in Seq(Trades) /\ Len(us) = n + 1
      /\ \A i \in 1..n : PnLs(us)[i] = PnLs(ts)[i]
      /\ PnLs(us)[n + 1] = PnL[t] /\ PnL[t] \in Int
  BY <1>1, <1>2, TradeAppended
<1>4. \A i \in 1..n : PnLs(ts)[i] \in Int
  BY <1>1, TradesHaveProfit
<1>5. ASSUME NEW i \in 0..n PROVE SumOver(1..i, PnLs(us)) = SumOver(1..i, PnLs(ts))
  <2>1. IsFiniteSet(1..i)
    <3>1. 1 \in Int /\ i \in Int
      OBVIOUS
    <3> QED BY <3>1, FS_Interval
  <2>2. \A j \in 1..i : j \in 1..n
    OBVIOUS
  <2>3. \A j \in 1..i : PnLs(ts)[j] \in Int /\ PnLs(us)[j] = PnLs(ts)[j]
    BY <1>3, <1>4, <2>2
  <2> QED BY <2>1, <2>3, SumSame
<1>6. SumOver(1..n + 1, PnLs(us)) = PnL[t] + SumOver(1..n, PnLs(ts))
  <2>1. PICK R : R = 1..n + 1
    OBVIOUS
  <2>2. IsFiniteSet(R) /\ n + 1 \in R /\ R \ {n + 1} = 1..n
    <3>1. IsFiniteSet(1..n + 1)
      BY FS_Interval
    <3> QED BY <2>1, <3>1
  <2>3. (\A i \in R : PnLs(us)[i] \in Int) /\ \A i \in R \ {n + 1} : PnLs(ts)[i] = PnLs(us)[i]
    BY <1>3, <1>4, <2>1, <2>2
  <2>4. SumOver(R, PnLs(us)) = PnLs(us)[n + 1] + SumOver(R \ {n + 1}, PnLs(ts))
    BY <2>2, <2>3, SumLessOne
  <2> QED BY <1>3, <2>1, <2>2, <2>4
<1>7. SumOver(1..n, PnLs(ts)) \in Int /\ InitialCapital \in Int
  <2>1. IsFiniteSet(1..n)
    BY FS_Interval
  <2>2. SumOver(1..n, PnLs(ts)) \in Int
    BY <1>4, <2>1, SumType
  <2> QED BY <2>2, JournalConstantsOK
<1>8. \A i \in 0..n : Curve(us)[i] = Curve(ts)[i]
  BY <1>1, <1>3, <1>5 DEF Curve
<1>9. Curve(us)[n + 1] = Curve(ts)[n] + PnL[t]
  <2>1. /\ Curve(us)[n + 1] = InitialCapital + SumOver(1..n + 1, PnLs(us))
        /\ Curve(ts)[n] = InitialCapital + SumOver(1..n, PnLs(ts))
    BY <1>1, <1>3 DEF Curve
  <2> QED BY <1>3, <1>6, <1>7, <2>1
<1> QED BY <1>1, <1>2, <1>8, <1>9

\* The loop of MaxDrawdown, as far as the trades ts, has the last point of the
\* equity, its highest point and its largest drawdown.
Drawdown(ts) ==
    LET d == FoldValue("series", NoSeries, ts)
    IN  /\ d.series \in Seq(Drawdowns)
        /\ d.equity = Curve(ts)[Len(ts)]
        /\ Tracks(Curve(ts), Len(ts), d.peak, FoldValue("max", NoLoss, d.series))

\* Before the first trade nothing is lost.
LEMMA DrawdownStarts == Drawdown(<<>>)
<1>1. PICK ts : ts = <<>>
  OBVIOUS
<1>2. ts \in Seq(Trades) /\ Len(ts) = 0
  BY <1>1
<1>3. FoldValue("series", NoSeries, ts) = NoSeries /\ FoldValue("max", NoLoss, <<>>) = NoLoss
  BY <1>1, FoldEmpty
<1>4. Curve(ts)[0] = InitialCapital /\ InitialCapital \in Nat \ {0}
  <2>1. SumOver(1..0, PnLs(ts)) = 0
    <3>1. 1..0 = {}
      OBVIOUS
    <3> QED BY <3>1, SumOfNone
  <2>2. InitialCapital \in Nat \ {0}
    BY JournalConstantsOK
  <2> QED BY <1>2, <2>1, <2>2 DEF Curve
<1>5. Tracks(Curve(ts), 0, InitialCapital, NoLoss)
  BY <1>4, FirstPoint
<1>6. NoSeries.series = <<>> /\ NoSeries.equity = InitialCapital /\ NoSeries.peak = InitialCapital
  BY DEF NoSeries
<1>7. <<>> \in Seq(Drawdowns)
  OBVIOUS
<1>8. Drawdown(ts)
  BY <1>2, <1>3, <1>4, <1>5, <1>6, <1>7 DEF Drawdown
<1> QED BY <1>1, <1>8

\* A trade more is one step more of each loop.
LEMMA DrawdownGrows ==
    ASSUME NEW ts \in Seq(Trades), NEW t \in Trades, Drawdown(ts)
    PROVE  Drawdown(Append(ts, t))
<1>1. PICK n \in Nat : n = Len(ts)
  OBVIOUS
<1>2. PICK us : us = Append(ts, t)
  OBVIOUS
<1>3. us \in Seq(Trades) /\ Len(us) = n + 1 /\ PnL[t] \in Int
  BY <1>1, <1>2, TradeAppended
<1>4. PICK a : a = FoldValue("series", NoSeries, ts)
  OBVIOUS
<1>5. PICK b : b = FoldValue("series", NoSeries, us)
  OBVIOUS
<1>6. PICK c : c = Curve(ts)
  OBVIOUS
<1>7. PICK e : e = Curve(us)
  OBVIOUS
<1>8. PICK m : m = FoldValue("max", NoLoss, a.series)
  OBVIOUS
<1>9. a.series \in Seq(Drawdowns) /\ a.equity = c[n] /\ Tracks(c, n, a.peak, m)
  BY <1>1, <1>4, <1>6, <1>8 DEF Drawdown
<1>10. e \in [0..n + 1 -> Int] /\ (\A i \in 0..n : e[i] = c[i]) /\ e[n + 1] = c[n] + PnL[t]
  <2>1. e \in [0..n + 1 -> Int]
    BY <1>3, <1>7, CurveType
  <2> QED BY <1>1, <1>2, <1>6, <1>7, <2>1, CurveGoesOn
<1>11. PICK peak : peak = Max({a.peak, e[n + 1]})
  OBVIOUS
<1>12. PICK dd : dd = From(peak, e[n + 1])
  OBVIOUS
<1>13. b = Step("series", a, t)
  BY <1>2, <1>4, <1>5, FoldAppend
<1>14. b.equity = e[n + 1] /\ b.peak = peak /\ b.series = Append(a.series, dd)
  <2>1. a.equity + PnL[t] = e[n + 1]
    BY <1>9, <1>10
  <2> QED BY <1>11, <1>12, <1>13, <2>1 DEF Step, From
<1>15. dd \in Drawdowns /\ Tracks(e, n + 1, peak, IF Larger(dd, m) THEN dd ELSE m)
  BY <1>9, <1>10, <1>11, <1>12, NextPoint
<1>16. FoldValue("max", NoLoss, b.series) = IF Larger(dd, m) THEN dd ELSE m
  <2>1. FoldValue("max", NoLoss, b.series) = Step("max", m, dd)
    BY <1>8, <1>9, <1>14, <1>15, FoldAppend
  <2> QED BY <2>1 DEF Step
<1>17. b.series \in Seq(Drawdowns)
  BY <1>9, <1>14, <1>15, AppendProperties
<1> QED BY <1>2, <1>3, <1>5, <1>7, <1>14, <1>15, <1>16, <1>17 DEF Drawdown

-----------------------------------------------------------------------------
(* Statistics of trades *)

\* s and the fold behind MaxDrawdown are those of the trades ts.
Good(s, ts) ==
    /\ ts \in Seq(Trades) /\ s \in StatsType
    /\ Totals(s, ts) /\ Extremes(s, ts) /\ Streaks(s, ts) /\ ByStrategy(s) /\ Drawdown(ts)

\* The empty statistics are those of no trades.
LEMMA NothingIsGood == Good(EmptyStats, <<>>)
<1>1. PICK ts : ts = <<>>
  OBVIOUS
<1>2. ts \in Seq(Trades) /\ Len(ts) = 0 /\ DOMAIN ts = {} /\ Wins(ts) = {}
  BY <1>1 DEF Wins
<1>3. EmptyStats \in StatsType
  <2>1. EmptyStats.byStrategy \in [Strategies -> StrategyStats]
    BY DEF EmptyStats, StrategyStats
  <2> QED BY <2>1 DEF EmptyStats, StatsType
<1>4. Totals(EmptyStats, ts)
  <2>1. Cardinality({}) = 0
    BY FS_EmptySet
  <2>2. SumOver({}, PnLs(ts)) = 0
    BY SumOfNone
  <2> QED BY <1>2, <2>1, <2>2 DEF Totals, EmptyStats
<1>5. Extremes(EmptyStats, ts)
  <2>1. Gains(ts) = {0} /\ Losses(ts) = {0}
    BY <1>2 DEF Gains, Losses
  <2> QED BY <2>1 DEF Extremes, EmptyStats
<1>6. Streaks(EmptyStats, ts)
  <2>1. FoldValue("streaks", NoStreak, ts) = NoStreak
    BY <1>1, FoldEmpty
  <2> QED BY <1>2, <2>1, NoRun DEF Streaks, NoStreak, EmptyStats
<1>7. ByStrategy(EmptyStats)
  <2>1. PICK b : b = EmptyStats.byStrategy
    OBVIOUS
  <2>2. b = [s \in Strategies |-> [trades |-> 0, winners |-> 0, pnl |-> 0]]
        /\ EmptyStats.total = 0 /\ EmptyStats.winners = 0 /\ EmptyStats.pnl = 0
    BY <2>1 DEF EmptyStats
  <2>3. \A g \in Strategies : TradesBy(b)[g] = 0 /\ WinnersBy(b)[g] = 0 /\ PnLBy(b)[g] = 0
    BY <2>2 DEF TradesBy, WinnersBy, PnLBy
  <2>4. ASSUME NEW f, \A g \in Strategies : f[g] = 0 PROVE SumOver(Strategies, f) = 0
    <3>1. IsFiniteSet(Strategies)
      BY JournalConstantsOK
    <3> QED BY <2>4, <3>1, SumOfZeros
  <2> QED BY <2>1, <2>2, <2>3, <2>4 DEF ByStrategy
<1>8. Drawdown(ts)
  BY <1>1, DrawdownStarts
<1> QED BY <1>1, <1>2, <1>3, <1>4, <1>5, <1>6, <1>7, <1>8 DEF Good

\* updateStats keeps the statistics those of the trades.
LEMMA StatsGrow ==
    ASSUME NEW s, NEW ts, Good(s, ts), NEW t \in Trades
    PROVE  Good(UpdateStats(s, Append(ts, t), t), Append(ts, t))
<1>1. PICK us : us = Append(ts, t)
  OBVIOUS
<1>2. PICK r : r = UpdateStats(s, us, t)
  OBVIOUS
<1>3. ts \in Seq(Trades) /\ s \in StatsType /\ us \in Seq(Trades)
  BY <1>1, AppendProperties DEF Good
<1>4. Totals(r, us) /\ Extremes(r, us) /\ Streaks(r, us) /\ Drawdown(us)
  <2>1. Totals(r, us)
    BY <1>1, <1>2, <1>3, TotalsGrow DEF Good
  <2>2. Extremes(r, us)
    BY <1>1, <1>2, <1>3, ExtremesGrow DEF Good
  <2>3. Streaks(r, us)
    BY <1>1, <1>2, <1>3, StreaksGrow DEF Good
  <2>4. Drawdown(us)
    BY <1>1, <1>3, DrawdownGrows DEF Good
  <2> QED BY <2>1, <2>2, <2>3, <2>4
<1>5. r.byStrategy \in [Strategies -> StrategyStats] /\ ByStrategy(r)
  BY <1>2, <1>3, ByStrategyGrows DEF Good
<1>6. r \in StatsType
  <2>1. r = [total |-> r.total, pnl |-> r.pnl, winners |-> r.winners, losers |-> r.losers,
             grossProfit |-> r.grossProfit, grossLoss |-> r.grossLoss,
             largestWin |-> r.largestWin, largestLoss |-> r.largestLoss,
             maxConsecWins |-> r.maxConsecWins, maxConsecLoss |-> r.maxConsecLoss,
             byStrategy |-> r.byStrategy]
    BY <1>2 DEF UpdateStats
  <2>2. PICK p \in Int : p = PnL[t]
    BY JournalConstantsOK
  <2>3. /\ s.total \in Nat /\ s.pnl \in Int /\ s.winners \in Nat /\ s.losers \in Nat
        /\ s.grossProfit \in Int /\ s.grossLoss \in Int
    BY <1>3, StatsFields
  <2>4. /\ r.total = s.total + 1 /\ r.pnl = s.pnl + p
        /\ r.winners = IF Win(t) THEN s.winners + 1 ELSE s.winners
        /\ r.losers = IF Win(t) THEN s.losers ELSE s.losers + 1
        /\ r.grossProfit = IF Win(t) THEN s.grossProfit + p ELSE s.grossProfit
        /\ r.grossLoss = IF Win(t) THEN s.grossLoss ELSE s.grossLoss - p
    BY <1>2, <2>2, <2>3 DEF UpdateStats
  <2>5. /\ r.total \in Nat /\ r.pnl \in Int /\ r.winners \in Nat /\ r.losers \in Nat
        /\ r.grossProfit \in Int /\ r.grossLoss \in Int
    BY <2>3, <2>4
  <2>6. \A i \in DOMAIN us : PnL[us[i]] \in Int
    BY <1>3, TradesHaveProfit
  <2>7. Wins(us) \subseteq DOMAIN us
    BY DEF Wins
  <2>8. r.largestWin \in Int /\ r.largestLoss \in Int
    BY <1>4, <2>6, <2>7 DEF Extremes, Gains, Losses
  <2>9. r.maxConsecWins \in Int /\ r.maxConsecLoss \in Int
    <3>1. Len(us) \in Nat
      BY <1>3
    <3>2. PICK a : a = FoldValue("streaks", NoStreak, us)
      OBVIOUS
    <3>3. /\ r.maxConsecWins = a.maxW /\ r.maxConsecLoss = a.maxL
          /\ Streak(Wins(us), Len(us), a.w, a.maxW)
          /\ Streak(DOMAIN us \ Wins(us), Len(us), a.l, a.maxL)
      BY <1>4, <3>2 DEF Streaks
    <3>4. a.maxW \in Nat /\ a.maxL \in Nat
      BY <3>1, <3>3, StreakIsLongest
    <3> QED BY <3>3, <3>4
  <2> QED BY <1>5, <2>1, <2>5, <2>8, <2>9 DEF StatsType
<1> QED BY <1>1, <1>2, <1>3, <1>4, <1>5, <1>6 DEF Good

\* What the statistics promise follows.
LEMMA GoodStatsMatch ==
    ASSUME NEW s, NEW ts, Good(s, ts) PROVE StatsOf(s, ts)
<1>1. ts \in Seq(Trades) /\ s \in StatsType
  BY DEF Good
<1>2. /\ s.total = Len(ts) /\ s.winners = Cardinality(Wins(ts))
      /\ s.winners + s.losers = s.total
      /\ s.pnl = SumOver(DOMAIN ts, PnLs(ts))
      /\ s.grossProfit = SumOver(Wins(ts), PnLs(ts))
      /\ s.grossProfit - s.grossLoss = s.pnl
  BY DEF Good, Totals
<1>3. PICK n \in Nat : n = Len(ts)
  BY <1>1
<1>4. /\ DOMAIN ts = 1..n /\ Wins(ts) \subseteq 1..n
      /\ \A i \in 1..n : PnL[ts[i]] \in Int
  BY <1>1, <1>3, TradesHaveProfit
<1>5. Gains(ts) \in SUBSET Int /\ Losses(ts) \in SUBSET Int
  BY <1>4 DEF Gains, Losses
<1>6. s.largestWin = Max(Gains(ts))
  <2>1. s.largestWin \in Gains(ts) /\ \A y \in Gains(ts) : s.largestWin >= y
    BY <1>5 DEF Good, Extremes
  <2> QED BY <1>5, <2>1, MaxIs
<1>7. s.largestLoss = Min(Losses(ts))
  <2>1. s.largestLoss \in Losses(ts) /\ \A y \in Losses(ts) : s.largestLoss <= y
    BY <1>5 DEF Good, Extremes
  <2> QED BY <1>5, <2>1, MinIs
<1>8. /\ s.maxConsecWins = LongestRunIn(Wins(ts), Len(ts))
      /\ s.maxConsecLoss = LongestRunIn(DOMAIN ts \ Wins(ts), Len(ts))
  <2>1. PICK a : a = FoldValue("streaks", NoStreak, ts)
    OBVIOUS
  <2>2. /\ s.maxConsecWins = a.maxW /\ s.maxConsecLoss = a.maxL
        /\ Streak(Wins(ts), n, a.w, a.maxW)
        /\ Streak(DOMAIN ts \ Wins(ts), n, a.l, a.maxL)
    BY <1>3, <2>1 DEF Good, Streaks
  <2>3. LongestRunIn(Wins(ts), n) = a.maxW /\ LongestRunIn(DOMAIN ts \ Wins(ts), n) = a.maxL
    BY <2>2, StreakIsLongest
  <2> QED BY <1>3, <2>2, <2>3
<1>9. /\ s.total = SumOver(Strategies, [g \in Strategies |-> s.byStrategy[g].trades])
      /\ s.winners = SumOver(Strategies, [g \in Strategies |-> s.byStrategy[g].winners])
      /\ s.pnl = SumOver(Strategies, [g \in Strategies |-> s.byStrategy[g].pnl])
  BY DEF Good, ByStrategy, TradesBy, WinnersBy, PnLBy
<1> QED BY <1>2, <1>6, <1>7, <1>8, <1>9 DEF StatsOf, Gains, Losses

\* What MaxDrawdown returns is the largest drawdown.
LEMMA DrawdownFound ==
    ASSUME NEW ts \in Seq(Trades), Drawdown(ts) PROVE DrawdownIsLargest(ts)
<1>1. PICK n \in Nat : n = Len(ts)
  OBVIOUS
<1>2. PICK c : c = Curve(ts)
  OBVIOUS
<1>3. PICK d : d = FoldValue("series", NoSeries, ts)
  OBVIOUS
<1>4. PICK m : m = FoldValue("max", NoLoss, d.series)
  OBVIOUS
<1>5. d.series \in Seq(Drawdowns) /\ Tracks(c, n, d.peak, m)
  BY <1>1, <1>2, <1>3, <1>4 DEF Drawdown
<1>6. MaxDrawdown(ts) = m
  <2>1. DrawdownSeries(ts) = d.series
    BY <1>3, SeriesFold
  <2>2. LargestOf(d.series) = m
    BY <1>4, <1>5, LargestFold
  <2> QED BY <2>1, <2>2 DEF MaxDrawdown, LargestOf, NoLoss
<1>7. \A i \in 0..n : c[i] = InitialCapital + SumOver(1..i, PnLs(ts))
  BY <1>1, <1>2 DEF Curve
<1>8. \A i, j \in 0..n : i <= j /\ c[i] > 0 /\ c[j] >= 0 => ~Larger(From(c[i], c[j]), m)
  BY <1>5 DEF Tracks
<1>9. PICK i \in 0..n, j \in 0..n : i <= j /\ c[i] > 0 /\ ~Larger(m, From(c[i], c[j]))
  BY <1>5 DEF Tracks
<1> DEFINE At(k) == InitialCapital + SumOver(1..k, PnLs(ts))
           points == {ij \in (0..n) \X (0..n) : ij[1] <= ij[2] /\ At(ij[1]) > 0}
           Between(ij) == [loss |-> At(ij[1]) - At(ij[2]), peak |-> At(ij[1])]
<1>10. \A ij \in points : At(ij[2]) >= 0 => ~Larger(Between(ij), m)
  <2> SUFFICES ASSUME NEW ij \in points, At(ij[2]) >= 0 PROVE ~Larger(Between(ij), m)
    OBVIOUS
  <2>1. ij[1] \in 0..n /\ ij[2] \in 0..n /\ ij[1] <= ij[2] /\ At(ij[1]) > 0
    OBVIOUS
  <2>2. At(ij[1]) = c[ij[1]] /\ At(ij[2]) = c[ij[2]]
    BY <1>7, <2>1
  <2>3. Between(ij) = From(c[ij[1]], c[ij[2]])
    BY <2>2 DEF From
  <2> HIDE DEF At, Between
  <2> QED BY <1>8, <2>1, <2>2, <2>3
<1>11. \E ij \in points : ~Larger(m, Between(ij))
  <2>1. PICK ij \in (0..n) \X (0..n) : ij[1] = i /\ ij[2] = j
    <3>1. <<i, j>> \in (0..n) \X (0..n) /\ <<i, j>>[1] = i /\ <<i, j>>[2] = j
      OBVIOUS
    <3> QED BY <3>1
  <2>2. At(ij[1]) = c[i] /\ At(ij[2]) = c[j]
    BY <1>7, <2>1
  <2>3. ij \in points
    BY <1>9, <2>1, <2>2
  <2>4. Between(ij) = From(c[i], c[j])
    BY <2>2 DEF From
  <2> HIDE DEF points, Between
  <2> QED BY <1>9, <2>3, <2>4
<1> QED BY <1>1, <1>6, <1>10, <1>11 DEF DrawdownIsLargest

-----------------------------------------------------------------------------
(* Replays *)

\* What the fold over lines leaves.
ReplayOf(lines) == FoldValue("replay", NoTrades, lines)

\* One line more is one ReplayLine more.
LEMMA ReplayAppend ==
    ASSUME NEW L, NEW lines \in Seq(L), NEW line \in L
    PROVE  ReplayOf(Append(lines, line)) = ReplayLine(ReplayOf(lines), line)
<1>1. FoldValue("replay", NoTrades, Append(lines, line))
      = Step("replay", FoldValue("replay", NoTrades, lines), line)
  BY FoldAppend
<1> QED BY <1>1 DEF Step, ReplayOf

\* The elements of a sequence with one appended.
LEMMA ToSetAppend ==
    ASSUME NEW L, NEW s \in Seq(L), NEW x
    PROVE  ToSet(Append(s, x)) = ToSet(s) \cup {x}
BY DEF ToSet

\* The trades of a replay are those of its lines, and its statistics are theirs.
Replayed(lines) ==
    /\ Good(ReplayOf(lines).stats, ReplayOf(lines).trades)
    /\ ToSet(ReplayOf(lines).trades) = ToSet(lines) \cap Trades

\* One line more keeps that so.
LEMMA ReplayedAppend ==
    ASSUME NEW L, NEW lines \in Seq(L), NEW line \in L, Replayed(lines)
    PROVE  Replayed(Append(lines, line))
<1>1. PICK r : r = ReplayOf(lines)
  OBVIOUS
<1>2. PICK all : all = Append(lines, line)
  OBVIOUS
<1>3. Good(r.stats, r.trades) /\ ToSet(r.trades) = ToSet(lines) \cap Trades
  BY <1>1 DEF Replayed
<1>4. ReplayOf(all) = ReplayLine(r, line)
  BY <1>1, <1>2, ReplayAppend
<1>5. ToSet(all) = ToSet(lines) \cup {line}
  BY <1>2, ToSetAppend
<1>6. CASE line \notin Trades
  <2>1. ReplayOf(all) = r
    BY <1>4, <1>6 DEF ReplayLine
  <2> QED BY <1>2, <1>3, <1>5, <1>6, <2>1 DEF Replayed
<1>7. CASE line \in Trades
  <2>1. PICK ts : ts = Append(r.trades, line)
    OBVIOUS
  <2>2. ReplayOf(all).trades = ts /\ ReplayOf(all).stats = UpdateStats(r.stats, ts, line)
    BY <1>4, <1>7, <2>1 DEF ReplayLine
  <2>3. Good(UpdateStats(r.stats, ts, line), ts)
    BY <1>3, <1>7, <2>1, StatsGrow
  <2>4. ToSet(ts) = ToSet(r.trades) \cup {line}
    <3>1. r.trades \in Seq(Trades)
      BY <1>3 DEF Good
    <3> QED BY <2>1, <3>1, ToSetAppend
  <2> QED BY <1>2, <1>3, <1>5, <1>7, <2>2, <2>3, <2>4 DEF Replayed
<1> QED BY <1>6, <1>7

\* By induction it is so for every file.
LEMMA ReplayedAll ==
    ASSUME NEW L PROVE \A lines \in Seq(L) : Replayed(lines)
<1> DEFINE T == {n \in Nat : \A lines \in Seq(L) : Len(lines) = n => Replayed(lines)}
<1>1. 0 \in T
  <2> SUFFICES ASSUME NEW lines \in Seq(L), Len(lines) = 0 PROVE Replayed(lines)
    OBVIOUS
  <2>1. lines = <<>>
    OBVIOUS
  <2>2. ReplayOf(<<>>) = NoTrades
    BY FoldEmpty DEF ReplayOf
  <2>3. ToSet(<<>>) = {}
    BY DEF ToSet
  <2>4. NoTrades.trades = <<>> /\ NoTrades.stats = EmptyStats
    BY DEF NoTrades
  <2> QED BY <2>1, <2>2, <2>3, <2>4, NothingIsGood DEF Replayed
<1>2. ASSUME NEW n \in Nat, n \in T PROVE n + 1 \in T
  <2> SUFFICES ASSUME NEW lines \in Seq(L), Len(lines) = n + 1 PROVE Replayed(lines)
    OBVIOUS
  <2>2. lines[n + 1] \in L /\ \A i \in 1..n : lines[i] \in L
    OBVIOUS
  <2>1. PICK front \in Seq(L) : front = [i \in 1..n |-> lines[i]] /\ Len(front) = n
    <3>1. PICK f : f = [i \in 1..n |-> lines[i]]
      OBVIOUS
    <3>2. f \in [1..n -> L]
      BY <2>2, <3>1
    <3>3. f \in Seq(L) /\ Len(f) = n
      BY <3>2
    <3> QED BY <3>1, <3>3
  <2>3. lines = Append(front, lines[n + 1])
    BY <2>1, <2>2
  <2>4. Replayed(front)
    BY <1>2, <2>1
  <2>5. Replayed(Append(front, lines[n + 1]))
    BY <2>2, <2>4, ReplayedAppend
  <2> QED BY <2>3, <2>5
<1>3. \A n \in Nat : n \in T
  <2> HIDE DEF T
  <2> QED BY <1>1, <1>2, NatSetInduction
<1> QED BY <1>3

-----------------------------------------------------------------------------
(* The invariant *)

\* Acknowledged trades that are not in the file.
Lost == ToSet(acked) \ ToSet(Lines)

\* The inductive invariant: the properties, and what happens to the bytes of a write
\* that was cut short; the last conjunct counts a tail as the loss it may still cause.
IInv ==
    /\ TypeOK
    /\ Good(stats, trades)
    /\ tears = 0 => tail = NoTail
    /\ up /\ tears = 0 => trades = ReplayOf(Lines).trades
    /\ ToSet(acked) \subseteq used
    /\ tail \in Trades => tail \in used /\ tail \notin ToSet(acked)
    /\ IsFiniteSet(Lost) /\ Cardinality(Lost) <= IF tail = NoTail THEN tears ELSE tears - 1

\* The lines of the file, and what they contain.
LEMMA LinesAreLines ==
    ASSUME TypeOK
    PROVE  /\ disk \in Seq(Trades \cup {Torn}) /\ Lines \in Seq(Trades \cup {Torn})
           /\ ToSet(Lines) = IF tail = NoTail THEN ToSet(disk) ELSE ToSet(disk) \cup {tail}
<1>1. disk \in Seq(Trades \cup {Torn}) /\ tail \in Trades \cup {Torn, NoTail}
  BY DEF TypeOK
<1>2. CASE tail = NoTail
  BY <1>1, <1>2 DEF Lines
<1>3. CASE tail # NoTail
  <2>1. tail \in Trades \cup {Torn} /\ Lines = Append(disk, tail)
    BY <1>1, <1>3 DEF Lines
  <2>2. Append(disk, tail) \in Seq(Trades \cup {Torn})
    BY <1>1, <2>1, AppendProperties
  <2>3. ToSet(Append(disk, tail)) = ToSet(disk) \cup {tail}
    BY <1>1, ToSetAppend
  <2> QED BY <1>1, <1>3, <2>1, <2>2, <2>3
<1> QED BY <1>2, <1>3

\* Replay is such a fold, of the lines of the file.
LEMMA ReplayIs ==
    ASSUME TypeOK
    PROVE  Replay = ReplayOf(Lines) /\ Replayed(Lines)
<1>1. Lines \in Seq(Trades \cup {Torn})
  BY LinesAreLines
<1>2. Replaying(Lines) = ReplayOf(Lines)
  BY <1>1, ReplayFold DEF ReplayOf
<1>3. Replay = Replaying(Lines)
  BY DEF Replay, Replaying, NoTrades
<1>4. Replayed(Lines)
  BY <1>1, ReplayedAll
<1> QED BY <1>2, <1>3, <1>4

\* A line appended to the file: bytes left of an earlier write spoil it.
LEMMA LineAppended ==
    ASSUME TypeOK, NEW t \in Trades, disk' = Append(disk, AppendedLine(t)), tail' = NoTail
    PROVE  /\ disk' \in Seq(Trades \cup {Torn})
           /\ ToSet(Lines') = ToSet(disk) \cup {AppendedLine(t)}
           /\ tail = NoTail => Lines' = Append(Lines, t) /\ AppendedLine(t) = t
           /\ tail # NoTail => AppendedLine(t) = Torn
<1>1. disk \in Seq(Trades \cup {Torn})
  BY DEF TypeOK
<1>2. PICK line \in Trades \cup {Torn} : line = AppendedLine(t)
  BY DEF AppendedLine
<1>3. disk' \in Seq(Trades \cup {Torn}) /\ Lines' = Append(disk, line)
  <2>1. Append(disk, line) \in Seq(Trades \cup {Torn})
    BY <1>1, <1>2, AppendProperties
  <2> QED BY <1>2, <2>1 DEF Lines
<1>4. ToSet(Append(disk, line)) = ToSet(disk) \cup {line}
  BY <1>1, ToSetAppend
<1>5. tail = NoTail => Lines' = Append(Lines, t) /\ AppendedLine(t) = t
  BY <1>2, <1>3 DEF Lines, AppendedLine
<1>6. tail # NoTail => AppendedLine(t) = Torn
  BY DEF AppendedLine
<1> QED BY <1>2, <1>3, <1>4, <1>5, <1>6

\* Acknowledged trades that no replay finds.
LEMMA NothingMoreLost ==
    ASSUME IInv, NEW k \in Nat, ToSet(acked') \ ToSet(Lines') \subseteq Lost,
           tears' = tears + k, k = 0 => tail' = NoTail \/ tail # NoTail
    PROVE  IsFiniteSet(Lost') /\ Cardinality(Lost') <= IF tail' = NoTail THEN tears' ELSE tears' - 1
<1>1. IsFiniteSet(Lost) /\ Cardinality(Lost) <= (IF tail = NoTail THEN tears ELSE tears - 1)
      /\ tears \in Nat
  BY DEF IInv, TypeOK
<1>2. Lost' \subseteq Lost
  BY DEF Lost
<1>3. IsFiniteSet(Lost') /\ Cardinality(Lost') <= Cardinality(Lost)
      /\ Cardinality(Lost') \in Nat /\ Cardinality(Lost) \in Nat
  <2>1. PICK A, B : A = Lost' /\ B = Lost
    OBVIOUS
  <2>2. IsFiniteSet(A) /\ Cardinality(A) <= Cardinality(B) /\ Cardinality(A) \in Nat /\ Cardinality(B) \in Nat
    BY <1>1, <1>2, <2>1, FS_Subset, FS_CardinalityType
  <2> QED BY <2>1, <2>2
<1> HIDE DEF Lost
<1> QED BY <1>1, <1>3

\* The invariant holds of an empty file.
LEMMA InitInv == ASSUME Init PROVE IInv
<1>1. Good(stats, trades)
  BY NothingIsGood DEF Init
<1>2. ToSet(acked) = {}
  BY DEF Init, ToSet
<1>3. Lost = {}
  BY <1>2 DEF Lost
<1>4. IsFiniteSet(Lost) /\ Cardinality(Lost) = 0
  BY <1>3, FS_EmptySet
<1>5. tail = NoTail /\ tears = 0 /\ ~up /\ NoTail \notin Trades
  BY JournalConstantsOK DEF Init
<1>6. TypeOK
  <2>1. stats.byStrategy \in [Strategies -> StrategyStats] /\ trades \in Seq(Trades)
    BY <1>1, StatsFields DEF Good
  <2>2. disk \in Seq(Trades \cup {Torn}) /\ acked \in Seq(Trades)
    BY DEF Init
  <2>3. /\ tail \in {NoTail} /\ up = FALSE /\ broken = FALSE /\ used \subseteq Trades
        /\ tears \in Nat
    BY DEF Init
  <2> QED BY <2>1, <2>2, <2>3 DEF TypeOK
<1>7. Cardinality(Lost) <= IF tail = NoTail THEN tears ELSE tears - 1
  BY <1>4, <1>5
<1>8. ToSet(acked) \subseteq used
  BY <1>2
<1> QED BY <1>1, <1>4, <1>5, <1>6, <1>7, <1>8 DEF IInv

\* A dead process has an empty journal in memory.
LEMMA DeathIsGood ==
    ASSUME Dies
    PROVE  /\ Good(stats', trades') /\ up' = FALSE /\ broken' = FALSE
           /\ trades' \in Seq(Trades) /\ stats'.byStrategy \in [Strategies -> StrategyStats]
<1>1. Good(stats', trades')
  BY NothingIsGood DEF Dies
<1>2. trades' \in Seq(Trades) /\ stats'.byStrategy \in [Strategies -> StrategyStats]
  BY <1>1, StatsFields DEF Good
<1> QED BY <1>1, <1>2 DEF Dies

\* Opening rebuilds statistics from the file, which it does not change.
LEMMA OpenInv == ASSUME IInv, Open PROVE IInv'
<1>1. Lines' = Lines /\ Lost' = Lost
  BY DEF Open, Lines, Lost
<1>2. Replay = ReplayOf(Lines) /\ Replayed(Lines)
  BY ReplayIs DEF IInv
<1>3. Good(stats', trades') /\ trades' = ReplayOf(Lines).trades
  BY <1>2 DEF Open, Replayed
<1>4. trades' \in Seq(Trades) /\ stats'.byStrategy \in [Strategies -> StrategyStats]
  BY <1>3, StatsFields DEF Good
<1>5. TypeOK'
  BY <1>4 DEF IInv, Open, TypeOK
<1>6. tears' = tears /\ tail' = tail /\ acked' = acked /\ used' = used
  BY DEF Open
<1> QED BY <1>1, <1>3, <1>5, <1>6 DEF IInv

\* Record adds the same trade to file, memory and statistics; glued to the
\* remains of a write it loses that trade, which the write cut short pays for.
LEMMA RecordInv == ASSUME IInv, NEW t \in Trades, Record(t) PROVE IInv'
<1>1. /\ TypeOK /\ Good(stats, trades) /\ tears \in Nat
      /\ up /\ ~broken /\ t \notin used /\ tears' = tears
      /\ disk' = Append(disk, AppendedLine(t)) /\ tail' = NoTail /\ NoTail \notin Trades
      /\ trades' = Append(trades, t) /\ stats' = UpdateStats(stats, Append(trades, t), t)
      /\ used' = used \cup {t} /\ acked' = Append(acked, t) /\ up' = up /\ broken' = broken
  BY JournalConstantsOK DEF IInv, Record, TypeOK
<1>2. Good(stats', trades')
  BY <1>1, StatsGrow
<1>3. /\ disk' \in Seq(Trades \cup {Torn})
      /\ ToSet(Lines') = ToSet(disk) \cup {AppendedLine(t)}
      /\ tail = NoTail => Lines' = Append(Lines, t) /\ AppendedLine(t) = t
      /\ tail # NoTail => AppendedLine(t) = Torn
  BY <1>1, LineAppended
<1>4. Lines \in Seq(Trades \cup {Torn})
      /\ ToSet(Lines) = IF tail = NoTail THEN ToSet(disk) ELSE ToSet(disk) \cup {tail}
  BY <1>1, LinesAreLines
<1>5. acked' \in Seq(Trades) /\ ToSet(acked') = ToSet(acked) \cup {t} /\ acked \in Seq(Trades)
  BY <1>1, ToSetAppend, AppendProperties DEF TypeOK
<1>6. TypeOK'
  <2>1. trades' \in Seq(Trades) /\ stats'.byStrategy \in [Strategies -> StrategyStats]
    BY <1>2, StatsFields DEF Good
  <2> QED BY <1>1, <1>3, <1>5, <2>1 DEF TypeOK
<1>7. tears' = 0 => tail' = NoTail
  BY <1>1
<1>8. up' /\ tears' = 0 => trades' = ReplayOf(Lines').trades
  <2> SUFFICES ASSUME tears = 0 PROVE trades' = ReplayOf(Lines').trades
    BY <1>1
  <2>1. Lines' = Append(Lines, t) /\ trades = ReplayOf(Lines).trades
    BY <1>1, <1>3 DEF IInv
  <2>2. ReplayOf(Append(Lines, t)) = ReplayLine(ReplayOf(Lines), t)
    BY <1>4, ReplayAppend
  <2>3. ReplayLine(ReplayOf(Lines), t).trades = Append(ReplayOf(Lines).trades, t)
    BY DEF ReplayLine
  <2> QED BY <1>1, <2>1, <2>2, <2>3
<1>9. ToSet(acked') \subseteq used'
  BY <1>1, <1>5 DEF IInv
<1>10. IsFiniteSet(Lost') /\ Cardinality(Lost') <= IF tail' = NoTail THEN tears' ELSE tears' - 1
  <2>1. CASE tail = NoTail
    <3>1. ToSet(acked') \ ToSet(Lines') \subseteq Lost
      BY <1>3, <1>4, <1>5, <2>1 DEF Lost
    <3>2. tears' = tears + 0
      BY <1>1
    <3>3. 0 \in Nat
      OBVIOUS
    <3> QED BY <1>1, <3>1, <3>2, <3>3, NothingMoreLost
  <2>2. CASE tail # NoTail
    <3>1. \A x \in ToSet(acked) : x # tail
      <4>1. \A x \in ToSet(acked) : x \in Trades
        BY <1>5 DEF ToSet
      <4> QED BY <4>1 DEF IInv
    <3>2. Lost' \subseteq Lost \cup {t}
      BY <1>3, <1>4, <1>5, <2>2, <3>1 DEF Lost
    <3>3. IsFiniteSet(Lost) /\ Cardinality(Lost) <= tears - 1
      BY <2>2 DEF IInv
    <3>4. PICK A, B : A = Lost' /\ B = Lost
      OBVIOUS
    <3>5. PICK C : C = B \cup {t}
      OBVIOUS
    <3>6. IsFiniteSet(C) /\ Cardinality(C) <= Cardinality(B) + 1
          /\ Cardinality(C) \in Nat /\ Cardinality(B) \in Nat
      <4>1. IsFiniteSet(C) /\ (Cardinality(C) = Cardinality(B) \/ Cardinality(C) = Cardinality(B) + 1)
        BY <3>3, <3>4, <3>5, FS_AddElement
      <4>2. Cardinality(C) \in Nat /\ Cardinality(B) \in Nat
        BY <3>3, <3>4, <4>1, FS_CardinalityType
      <4> QED BY <4>1, <4>2
    <3>7. IsFiniteSet(A) /\ Cardinality(A) <= Cardinality(C) /\ Cardinality(A) \in Nat
      <4>1. A \subseteq C
        BY <3>2, <3>4, <3>5
      <4> QED BY <3>6, <4>1, FS_Subset, FS_CardinalityType
    <3>8. Cardinality(A) <= tears
      BY <1>1, <3>3, <3>4, <3>6, <3>7
    <3> QED BY <1>1, <3>4, <3>7, <3>8
  <2> QED BY <2>1, <2>2
<1>11. tail' \in Trades => tail' \in used' /\ tail' \notin ToSet(acked')
  BY <1>1
<1> QED BY <1>2, <1>6, <1>7, <1>8, <1>9, <1>10, <1>11 DEF IInv

\* What a write cut short leaves: nothing, garbage, or t and t alone.
LEMMA CutShortLeaves ==
    ASSUME IInv, NEW t \in Trades, t \notin used, tail' \in CutShort(t), disk' = disk,
           acked' = acked, used' = used \cup {t}, tears' = tears + 1
    PROVE  /\ tail' \in Trades \cup {Torn, NoTail}
           /\ tail' \in Trades => tail' \in used' /\ tail' \notin ToSet(acked')
           /\ ToSet(acked') \subseteq used'
           /\ IsFiniteSet(Lost') /\ Cardinality(Lost') <= IF tail' = NoTail THEN tears' ELSE tears' - 1
<1>1. TypeOK /\ tail \in Trades \cup {Torn, NoTail} /\ acked \in Seq(Trades)
      /\ disk \in Seq(Trades \cup {Torn})
  BY DEF IInv, TypeOK
<1>2. tail' \in Trades \cup {Torn, NoTail}
  BY <1>1 DEF CutShort
<1>3. tail' \in Trades => tail' \in used' /\ tail' \notin ToSet(acked')
  BY JournalConstantsOK DEF CutShort, IInv
<1>4. ToSet(acked') \subseteq used'
  BY DEF IInv
<1>5. \A x \in ToSet(acked) : x \in Trades /\ x # tail
  <2>1. \A x \in ToSet(acked) : x \in Trades
    BY <1>1 DEF ToSet
  <2> QED BY <2>1 DEF IInv
<1>6. ToSet(disk) \subseteq ToSet(Lines')
  <2>1. CASE tail' = NoTail
    <3>1. Lines' = disk
      BY <2>1 DEF Lines
    <3> QED BY <3>1
  <2>2. CASE tail' # NoTail
    <3>1. Lines' = Append(disk, tail')
      BY <2>2 DEF Lines
    <3>2. ToSet(Append(disk, tail')) = ToSet(disk) \cup {tail'}
      BY <1>1, ToSetAppend
    <3> QED BY <3>1, <3>2
  <2> QED BY <2>1, <2>2
<1>7. ToSet(acked') \ ToSet(Lines') \subseteq Lost
  <2>1. ToSet(Lines) = IF tail = NoTail THEN ToSet(disk) ELSE ToSet(disk) \cup {tail}
    BY <1>1, LinesAreLines
  <2> QED BY <1>5, <1>6, <2>1 DEF Lost
<1>8. IsFiniteSet(Lost') /\ Cardinality(Lost') <= IF tail' = NoTail THEN tears' ELSE tears' - 1
  <2>1. 1 \in Nat /\ 1 # 0
    OBVIOUS
  <2> QED BY <1>7, <2>1, NothingMoreLost
<1> QED BY <1>2, <1>3, <1>4, <1>8

\* A write that fails leaves memory and acknowledgements alone.
LEMMA RecordFailsInv == ASSUME IInv, NEW t \in Trades, RecordFails(t) PROVE IInv'
<1>1. /\ up /\ ~broken /\ t \notin used /\ tail' \in CutShort(t) /\ tears' = tears + 1
      /\ broken' = TRUE /\ used' = used \cup {t} /\ disk' = disk /\ up' = up
      /\ trades' = trades /\ stats' = stats /\ acked' = acked
  BY DEF RecordFails
<1>2. /\ tail' \in Trades \cup {Torn, NoTail}
      /\ tail' \in Trades => tail' \in used' /\ tail' \notin ToSet(acked')
      /\ ToSet(acked') \subseteq used'
      /\ IsFiniteSet(Lost') /\ Cardinality(Lost') <= IF tail' = NoTail THEN tears' ELSE tears' - 1
  BY <1>1, CutShortLeaves
<1>3. tears' \in Nat /\ tears' # 0
  BY <1>1 DEF IInv, TypeOK
<1>4. TypeOK'
  BY <1>1, <1>2, <1>3 DEF IInv, TypeOK
<1>5. Good(stats', trades')
  BY <1>1 DEF IInv
<1> QED BY <1>2, <1>3, <1>4, <1>5 DEF IInv

\* A death inside Record leaves a whole line, or part of one.
LEMMA CrashInRecordInv == ASSUME IInv, NEW t \in Trades, CrashInRecord(t) PROVE IInv'
<1>1. /\ Dies /\ ~broken /\ t \notin used /\ used' = used \cup {t} /\ acked' = acked
      /\ tears \in Nat /\ TypeOK
  BY DEF CrashInRecord, IInv, TypeOK
<1>2. /\ Good(stats', trades') /\ up' = FALSE /\ broken' = FALSE /\ trades' \in Seq(Trades)
      /\ stats'.byStrategy \in [Strategies -> StrategyStats]
  BY <1>1, DeathIsGood
<1>3. CASE disk' = Append(disk, AppendedLine(t)) /\ tail' = NoTail /\ tears' = tears
  <2>1. /\ disk' \in Seq(Trades \cup {Torn})
        /\ ToSet(Lines') = ToSet(disk) \cup {AppendedLine(t)}
    BY <1>1, <1>3, LineAppended
  <2>2. ToSet(acked') \ ToSet(Lines') \subseteq Lost
    <3>1. \A x \in ToSet(acked) : x # tail
      <4>1. \A x \in ToSet(acked) : x \in Trades
        BY <1>1 DEF ToSet, TypeOK
      <4> QED BY <4>1 DEF IInv
    <3>2. ToSet(Lines) = IF tail = NoTail THEN ToSet(disk) ELSE ToSet(disk) \cup {tail}
      BY <1>1, LinesAreLines
    <3> QED BY <1>1, <2>1, <3>1, <3>2 DEF Lost
  <2>3. IsFiniteSet(Lost') /\ Cardinality(Lost') <= IF tail' = NoTail THEN tears' ELSE tears' - 1
    <3>1. 0 \in Nat /\ tears' = tears + 0
      BY <1>1, <1>3
    <3> QED BY <1>3, <2>2, <3>1, NothingMoreLost
  <2>4. NoTail \notin Trades
    BY JournalConstantsOK
  <2>5. ToSet(acked') \subseteq used'
    BY <1>1 DEF IInv
  <2>6. TypeOK'
    BY <1>1, <1>2, <1>3, <2>1 DEF TypeOK
  <2> QED BY <1>2, <1>3, <2>3, <2>4, <2>5, <2>6 DEF IInv
<1>4. CASE tail' \in CutShort(t) /\ tears' = tears + 1 /\ disk' = disk
  <2>1. /\ tail' \in Trades \cup {Torn, NoTail}
        /\ tail' \in Trades => tail' \in used' /\ tail' \notin ToSet(acked')
        /\ ToSet(acked') \subseteq used'
        /\ IsFiniteSet(Lost') /\ Cardinality(Lost') <= IF tail' = NoTail THEN tears' ELSE tears' - 1
    BY <1>1, <1>4, CutShortLeaves
  <2>2. tears' \in Nat /\ tears' # 0
    BY <1>1, <1>4
  <2>3. TypeOK'
    BY <1>1, <1>2, <1>4, <2>1, <2>2 DEF TypeOK
  <2> QED BY <1>2, <2>1, <2>2, <2>3 DEF IInv
<1> QED BY <1>3, <1>4 DEF CrashInRecord

\* Every step keeps the invariant.
LEMMA NextInv == ASSUME IInv, [Next]_vars PROVE IInv'
<1>1. CASE Open
  BY <1>1, OpenInv
<1>2. CASE Crash
  <2>1. /\ Dies /\ disk' = disk /\ tail' = tail /\ used' = used /\ acked' = acked /\ tears' = tears
    BY <1>2 DEF Crash
  <2>2. /\ Good(stats', trades') /\ up' = FALSE /\ broken' = FALSE /\ trades' \in Seq(Trades)
        /\ stats'.byStrategy \in [Strategies -> StrategyStats]
    BY <2>1, DeathIsGood
  <2>3. Lost' = Lost
    BY <2>1 DEF Lost, Lines
  <2>4. TypeOK'
    BY <2>1, <2>2 DEF IInv, TypeOK
  <2> QED BY <2>1, <2>2, <2>3, <2>4 DEF IInv
<1>3. ASSUME NEW t \in Trades, Record(t) PROVE IInv'
  BY <1>3, RecordInv
<1>4. ASSUME NEW t \in Trades, RecordFails(t) PROVE IInv'
  BY <1>4, RecordFailsInv
<1>5. ASSUME NEW t \in Trades, RecordRefused(t) PROVE IInv'
  <2>1. /\ used' = used \cup {t} /\ disk' = disk /\ tail' = tail /\ up' = up /\ broken' = broken
        /\ trades' = trades /\ stats' = stats /\ acked' = acked /\ tears' = tears
    BY <1>5 DEF RecordRefused
  <2>2. Lost' = Lost /\ Lines' = Lines
    BY <2>1 DEF Lost, Lines
  <2>3. TypeOK'
    BY <2>1 DEF IInv, TypeOK
  <2>4. ToSet(acked') \subseteq used' /\ (tail' \in Trades => tail' \in used' /\ tail' \notin ToSet(acked'))
    BY <2>1 DEF IInv
  <2> QED BY <2>1, <2>2, <2>3, <2>4 DEF IInv
<1>6. ASSUME NEW t \in Trades, CrashInRecord(t) PROVE IInv'
  BY <1>6, CrashInRecordInv
<1>7. CASE UNCHANGED vars
  <2>1. /\ disk' = disk /\ tail' = tail /\ up' = up /\ broken' = broken /\ trades' = trades
        /\ stats' = stats /\ used' = used /\ acked' = acked /\ tears' = tears
    BY <1>7 DEF vars
  <2>2. Lost' = Lost /\ Lines' = Lines
    BY <2>1 DEF Lost, Lines
  <2>3. TypeOK'
    BY <2>1 DEF IInv, TypeOK
  <2> QED BY <2>1, <2>2, <2>3 DEF IInv
<1> QED BY <1>1, <1>2, <1>3, <1>4, <1>5, <1>6, <1>7 DEF Next

\* The invariant holds of every run of opens, records, failed writes and crashes.
THEOREM Invariant == Spec => []IInv
<1>1. Init => IInv
  BY InitInv
<1>2. IInv /\ [Next]_vars => IInv'
  BY NextInv
<1> QED BY <1>1, <1>2, PTL DEF Spec

\* The file, the memory, and the statistics by strategy have their types, and a
\* dead process holds no write error.
THEOREM TypeCorrect == Spec => []TypeOK
<1>1. IInv => TypeOK
  BY DEF IInv
<1> QED BY <1>1, Invariant, PTL

\* Statistics of the journal (updateStats, also through replay) are those of its
\* trades, in total, by strategy, in streaks and extremes; and MaxDrawdown is the largest.
THEOREM StatisticsMatch == Spec => []StatsMatchTrades
<1>1. IInv => StatsMatchTrades
  BY GoodStatsMatch, DrawdownFound DEF IInv, Good, StatsMatchTrades
<1> QED BY <1>1, Invariant, PTL

\* The invariant relates the memory and the acknowledged trades to the file.
LEMMA InvRestores == ASSUME IInv PROVE ReplayRestores
<1>1. Replay = ReplayOf(Lines) /\ Replayed(Lines)
  BY ReplayIs DEF IInv
<1>2. up /\ tears = 0 => trades = Replay.trades
  BY <1>1 DEF IInv
<1>3. ToSet(acked) \ ToSet(Replay.trades) = Lost
  <2>1. \A x \in ToSet(acked) : x \in Trades
    BY DEF IInv, TypeOK, ToSet
  <2>2. ToSet(Replay.trades) = ToSet(Lines) \cap Trades
    BY <1>1 DEF Replayed
  <2> QED BY <2>1, <2>2 DEF Lost
<1>4. Cardinality(Lost) <= tears
  <2>1. /\ Cardinality(Lost) <= IF tail = NoTail THEN tears ELSE tears - 1
        /\ Cardinality(Lost) \in Nat /\ tears \in Nat
    BY FS_CardinalityType DEF IInv, TypeOK
  <2> QED BY <2>1
<1> QED BY <1>2, <1>3, <1>4 DEF ReplayRestores

\* Reopening (replay) restores what Record acknowledged, whole and in order if no
\* write was cut short, and otherwise all but at most one trade for each such write.
THEOREM RestartRestores == Spec => []ReplayRestores
<1>1. IInv => ReplayRestores
  BY InvRestores
<1> QED BY <1>1, Invariant, PTL
=============================================================================
