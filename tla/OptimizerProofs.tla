--------------------------- MODULE OptimizerProofs ---------------------------
(***************************************************************************)
(* Proofs about Optimizer, for any parameter ranges, windows, candles,     *)
(* workers and scores: no more backtests run than there are slots, each    *)
(* combination is tried, the best one is chosen in whatever order they     *)
(* end, and the report has every window with its own choice.               *)
(* The grid, the best set and the sums are folds: the first parts provide  *)
(* induction and what these compute.                                       *)
(***************************************************************************)
EXTENDS Optimizer, FiniteSetTheorems, SequenceTheorems, TLAPS

-----------------------------------------------------------------------------
(* Induction *)

\* Induction on natural numbers, with the property as a set T of numbers.
LEMMA NatSetInduction ==
    ASSUME NEW T, 0 \in T, \A n \in Nat : n \in T => n + 1 \in T
    PROVE  \A n \in Nat : n \in T
<1> SUFFICES ASSUME NEW m \in Nat, m \notin T PROVE FALSE
  OBVIOUS
<1> DEFINE M == 0..m
           U == {0..k : k \in {j \in M : j \notin T}}
           R == StrictSubsetOrdering(M)
<1>1. IsWellFoundedOn(R, SUBSET M)
  <2>1. IsFiniteSet(M)
    BY FS_Interval
  <2> HIDE DEF M
  <2> QED BY <2>1, FS_StrictSubsetOrderingWellFounded, FS_FiniteSubsetsOfFinite
<1>2. U \subseteq SUBSET M /\ U # {}
  OBVIOUS
<1>3. PICK u \in U : \A v \in U : <<v, u>> \notin R
  <2> HIDE DEF R, U, M
  <2> QED BY <1>1, <1>2, WFMin
<1>4. PICK k \in M : k \notin T /\ u = 0..k
  BY <1>3
<1>5. k # 0 /\ k - 1 \in M /\ k - 1 \notin T
  BY <1>4
<1>6. 0..k - 1 \in U
  BY <1>5
<1>7. 0..k - 1 \subseteq u /\ k \in u /\ k \notin 0..k - 1
  BY <1>4, <1>5
<1>8. <<0..k - 1, u>> \in R
  BY <1>2, <1>6, <1>7 DEF StrictSubsetOrdering
<1> QED BY <1>3, <1>6, <1>8

\* A set of numbers up to n that is not empty has a smallest ...
LEMMA MinExists ==
    ASSUME NEW n \in Nat, NEW t \in SUBSET (1..n), t # {}
    PROVE  Min(t) \in t /\ \A y \in t : Min(t) <= y
<1> DEFINE T == {i \in Nat : \A s \in SUBSET (1..n) : s \cap 1..i # {} =>
                               \E x \in s : \A y \in s : x <= y}
<1>1. 0 \in T
  OBVIOUS
<1>2. ASSUME NEW i \in Nat, i \in T PROVE i + 1 \in T
  <2> SUFFICES ASSUME NEW s \in SUBSET (1..n), s \cap 1..(i + 1) # {}
               PROVE  \E x \in s : \A y \in s : x <= y
    OBVIOUS
  <2>1. CASE s \cap 1..i # {}
    BY <1>2, <2>1
  <2>2. CASE s \cap 1..i = {}
    <3>1. i + 1 \in s /\ \A y \in s : i + 1 <= y
      BY <2>2
    <3> QED BY <3>1
  <2> QED BY <2>1, <2>2
<1>3. n \in T
  <2> HIDE DEF T
  <2> QED BY <1>1, <1>2, NatSetInduction
<1>4. \E x \in t : \A y \in t : x <= y
  BY <1>3
<1> QED BY <1>4 DEF Min

\* ... and a largest element.
LEMMA MaxExists ==
    ASSUME NEW n \in Nat, NEW t \in SUBSET (1..n), t # {}
    PROVE  Max(t) \in t /\ \A y \in t : Max(t) >= y
<1> DEFINE T == {i \in Nat : \A s \in SUBSET (1..n) : s # {} /\ s \subseteq 1..i =>
                               \E x \in s : \A y \in s : x >= y}
<1>1. 0 \in T
  <2>1. 1..0 = {}
    OBVIOUS
  <2> QED BY <2>1
<1>2. ASSUME NEW i \in Nat, i \in T PROVE i + 1 \in T
  <2> SUFFICES ASSUME NEW s \in SUBSET (1..n), s # {}, s \subseteq 1..(i + 1)
               PROVE  \E x \in s : \A y \in s : x >= y
    OBVIOUS
  <2>1. CASE i + 1 \in s
    BY <2>1
  <2>2. CASE i + 1 \notin s
    <3>1. s \subseteq 1..i
      BY <2>2
    <3> QED BY <1>2, <3>1
  <2> QED BY <2>1, <2>2
<1>3. n \in T
  <2> HIDE DEF T
  <2> QED BY <1>1, <1>2, NatSetInduction
<1>4. \E x \in t : \A y \in t : x >= y
  BY <1>3
<1> QED BY <1>4 DEF Max

-----------------------------------------------------------------------------
(* Folds *)

\* Each fold takes one element of a set after the other, ...
Taken(k, t) == CASE k = "grid" -> Min(t)
                 [] k = "windows" -> CHOOSE x \in t : TRUE
                 [] OTHER -> Max(t)

\* ... and combines the position or window x with what the others gave.
Combine(k, d, x, a) ==
    CASE k = "grid" -> Cross(d[x], a)
      [] k = "windows" -> a + d[x].metric
      [] k = "sum" -> a + d[x].in
      [] OTHER -> IF score[d[x]] > a.metric THEN [params |-> d[x], metric |-> score[d[x]]] ELSE a

\* g folds the subsets of S, from the base b.
Folding(k, d, b, S, g) ==
    g = [t \in SUBSET S |-> IF t = {} THEN b
                            ELSE Combine(k, d, Taken(k, t), g[t \ {Taken(k, t)}])]

\* The subsets of up to n elements.
UpTo(S, n) == {s \in SUBSET S : Cardinality(s) <= n}

\* One element fewer is one size smaller.
LEMMA OneLess ==
    ASSUME NEW S, IsFiniteSet(S), NEW n \in Nat, NEW s \in UpTo(S, n + 1), NEW x \in s
    PROVE  s \ {x} \in UpTo(S, n) /\ s \ {x} \in UpTo(S, n + 1)
<1>1. IsFiniteSet(s) /\ s \in SUBSET S /\ Cardinality(s) <= n + 1 /\ Cardinality(s) \in Nat
  BY FS_Subset, FS_CardinalityType DEF UpTo
<1>2. Cardinality(s \ {x}) = Cardinality(s) - 1
  BY <1>1, FS_RemoveElement
<1> QED BY <1>1, <1>2 DEF UpTo

\* There is such a g, and so CHOOSE finds it, when what is taken is there.
LEMMA FoldingExists ==
    ASSUME NEW k, NEW d, NEW b, NEW S, IsFiniteSet(S),
           \A t \in SUBSET S : t # {} => Taken(k, t) \in t
    PROVE  \E g : Folding(k, d, b, S, g)
<1> DEFINE Value(g, t) == IF t = {} THEN b ELSE Combine(k, d, Taken(k, t), g[t \ {Taken(k, t)}])
           Is(g, n) == g = [t \in UpTo(S, n) |-> Value(g, t)]
           T == {n \in Nat : \E g : Is(g, n)}
<1>1. 0 \in T
  <2>1. UpTo(S, 0) = {{}}
    BY FS_Subset, FS_EmptySet, FS_CardinalityType DEF UpTo
  <2>2. Is([t \in UpTo(S, 0) |-> b], 0)
    BY <2>1
  <2> QED BY <2>2
<1>2. ASSUME NEW n \in Nat, n \in T PROVE n + 1 \in T
  <2>1. PICK g : Is(g, n)
    BY <1>2
  <2> DEFINE h == [t \in UpTo(S, n + 1) |-> Value(g, t)]
  <2>2. ASSUME NEW t \in UpTo(S, n + 1), t # {}
        PROVE  h[t \ {Taken(k, t)}] = g[t \ {Taken(k, t)}]
    <3>1. Taken(k, t) \in t
      BY <2>2 DEF UpTo
    <3>2. PICK r : r = t \ {Taken(k, t)}
      OBVIOUS
    <3>3. r \in UpTo(S, n) /\ r \in UpTo(S, n + 1)
      BY <3>1, <3>2, OneLess
    <3> HIDE DEF Value
    <3>4. g[r] = Value(g, r) /\ h[r] = Value(g, r)
      BY <2>1, <3>3
    <3> QED BY <3>2, <3>4
  <2>3. \A t \in UpTo(S, n + 1) : Value(h, t) = Value(g, t)
    <3> HIDE DEF h
    <3> QED BY <2>2
  <2>4. Is(h, n + 1)
    <3> HIDE DEF Value
    <3> QED BY <2>3
  <2> HIDE DEF Is, h
  <2> QED BY <2>4
<1>3. PICK n \in Nat : n = Cardinality(S)
  BY FS_CardinalityType
<1>4. \E g : Is(g, n)
  <2>1. n \in T
    <3> HIDE DEF T
    <3> QED BY <1>1, <1>2, NatSetInduction
  <2> QED BY <2>1
<1>5. UpTo(S, n) = SUBSET S
  BY <1>3, FS_Subset DEF UpTo
<1> QED BY <1>4, <1>5 DEF Folding

\* What a fold of a set is.
FoldOf(k, d, b, S) == (CHOOSE g : Folding(k, d, b, S, g))[S]

\* The folds over sequences take the ends of the part that is left.
LEMMA SequenceFolds ==
    ASSUME NEW k \in {"grid", "sum", "best"}, NEW d, NEW b, NEW n \in Nat
    PROVE  \E g : Folding(k, d, b, 1..n, g) /\ FoldOf(k, d, b, 1..n) = g[1..n]
<1>1. \A t \in SUBSET (1..n) : t # {} => Taken(k, t) \in t
  BY MinExists, MaxExists DEF Taken
<1>2. IsFiniteSet(1..n)
  BY FS_Interval
<1>3. \E g : Folding(k, d, b, 1..n, g)
  BY <1>1, <1>2, FoldingExists
<1> QED BY <1>3 DEF FoldOf

\* What the first i elements give.
StepByStep(k, d, b, n, g) ==
    /\ g[1..0] = b
    /\ \A i \in Nat : i + 1 <= n => g[1..(i + 1)] = Combine(k, d, i + 1, g[1..i])

\* Folded from the left, the first i elements give what the first i - 1 gave and the next.
LEMMA FromTheLeft ==
    ASSUME NEW k \in {"sum", "best"}, NEW d, NEW b, NEW n \in Nat, NEW g,
           Folding(k, d, b, 1..n, g)
    PROVE  StepByStep(k, d, b, n, g)
<1>1. g[1..0] = b
  <2>1. 1..0 = {} /\ 1..0 \in SUBSET (1..n)
    OBVIOUS
  <2> QED BY <2>1 DEF Folding
<1>2. ASSUME NEW i \in Nat, i + 1 <= n
      PROVE  g[1..(i + 1)] = Combine(k, d, i + 1, g[1..i])
  <2>1. /\ 1..(i + 1) \in SUBSET (1..n) /\ 1..(i + 1) # {} /\ i + 1 \in 1..(i + 1)
        /\ (1..(i + 1)) \ {i + 1} = 1..i
    BY <1>2
  <2>2. Max(1..(i + 1)) \in 1..(i + 1) /\ \A y \in 1..(i + 1) : Max(1..(i + 1)) >= y
    BY <2>1, MaxExists
  <2>3. Taken(k, 1..(i + 1)) = i + 1
    <3>1. Max(1..(i + 1)) = i + 1
      BY <2>1, <2>2
    <3> QED BY <3>1 DEF Taken
  <2> QED BY <2>1, <2>3 DEF Folding
<1> QED BY <1>1, <1>2 DEF StepByStep

\* Folded from the right, the elements from i on give the next and what those after it gave.
LEMMA FromTheRight ==
    ASSUME NEW d, NEW b, NEW n \in Nat, NEW g, Folding("grid", d, b, 1..n, g)
    PROVE  /\ g[n + 1..n] = b
           /\ \A i \in 1..n : g[i..n] = Cross(d[i], g[i + 1..n])
<1>1. g[n + 1..n] = b
  <2>1. n + 1..n = {} /\ n + 1..n \in SUBSET (1..n)
    OBVIOUS
  <2> QED BY <2>1 DEF Folding
<1>2. ASSUME NEW i \in 1..n PROVE g[i..n] = Cross(d[i], g[i + 1..n])
  <2>1. i..n \in SUBSET (1..n) /\ i..n # {} /\ i \in i..n /\ (i..n) \ {i} = i + 1..n
    OBVIOUS
  <2>2. Min(i..n) \in i..n /\ \A y \in i..n : Min(i..n) <= y
    BY <2>1, MinExists
  <2>3. Taken("grid", i..n) = i
    <3>1. Min(i..n) = i
      BY <2>1, <2>2
    <3> QED BY <3>1 DEF Taken
  <2>4. g[i..n] = Combine("grid", d, i, g[i + 1..n])
    BY <2>1, <2>3 DEF Folding
  <2> QED BY <2>4 DEF Combine
<1> QED BY <1>1, <1>2

-----------------------------------------------------------------------------
(* Sequences without repetitions *)

\* Each element has one place.
NoRepeats(s) == \A i, j \in DOMAIN s : s[i] = s[j] => i = j

\* One sequence after another has the elements of both.
LEMMA Concatenated ==
    ASSUME NEW T, NEW s \in Seq(T), NEW t \in Seq(T)
    PROVE  /\ s \o t \in Seq(T) /\ ToSet(s \o t) = ToSet(s) \cup ToSet(t)
           /\ NoRepeats(s) /\ NoRepeats(t) /\ ToSet(s) \cap ToSet(t) = {} => NoRepeats(s \o t)
<1>1. PICK m \in Nat, n \in Nat : m = Len(s) /\ n = Len(t)
  OBVIOUS
<1>2. PICK c \in Seq(T) : c = s \o t
  BY ConcatProperties
<1>3. Len(c) = m + n /\ DOMAIN s = 1..m /\ DOMAIN t = 1..n /\ DOMAIN c = 1..(m + n)
  BY <1>1, <1>2, ConcatProperties
<1>4. \A i \in 1..m : c[i] = s[i]
  BY <1>1, <1>2, <1>3, ConcatProperties
<1>5. \A i \in 1..n : c[m + i] = t[i]
  <2> SUFFICES ASSUME NEW i \in 1..n PROVE c[m + i] = t[i]
    OBVIOUS
  <2>1. m + i \in 1..(m + n) /\ ~(m + i <= m) /\ (m + i) - m = i
    OBVIOUS
  <2>2. c[m + i] = t[(m + i) - m]
    BY <1>1, <1>2, <2>1, ConcatProperties
  <2> QED BY <2>1, <2>2
<1>6. \A k \in 1..(m + n) : k \in 1..m \/ \E i \in 1..n : k = m + i
  <2> SUFFICES ASSUME NEW k \in 1..(m + n), k \notin 1..m PROVE \E i \in 1..n : k = m + i
    OBVIOUS
  <2>1. k - m \in 1..n /\ k = m + (k - m)
    OBVIOUS
  <2> QED BY <2>1
<1>7. ToSet(c) = ToSet(s) \cup ToSet(t)
  <2>1. ASSUME NEW k \in 1..(m + n) PROVE c[k] \in ToSet(s) \cup ToSet(t)
    BY <1>3, <1>4, <1>5, <1>6 DEF ToSet
  <2>2. ASSUME NEW i \in 1..m PROVE s[i] \in ToSet(c)
    <3>1. i \in 1..(m + n)
      OBVIOUS
    <3> QED BY <1>3, <1>4, <3>1 DEF ToSet
  <2>3. ASSUME NEW i \in 1..n PROVE t[i] \in ToSet(c)
    <3>1. m + i \in 1..(m + n)
      OBVIOUS
    <3> QED BY <1>3, <1>5, <3>1 DEF ToSet
  <2> QED BY <1>3, <2>1, <2>2, <2>3 DEF ToSet
<1>8. ASSUME NoRepeats(s), NoRepeats(t), ToSet(s) \cap ToSet(t) = {} PROVE NoRepeats(c)
  <2> SUFFICES ASSUME NEW j \in 1..(m + n), NEW k \in 1..(m + n), c[j] = c[k] PROVE j = k
    BY <1>3 DEF NoRepeats
  <2>1. \A i \in 1..m : s[i] \in ToSet(s)
    BY <1>3 DEF ToSet
  <2>2. \A i \in 1..n : t[i] \in ToSet(t)
    BY <1>3 DEF ToSet
  <2>3. CASE j \in 1..m
    <3>1. CASE k \in 1..m
      BY <1>3, <1>4, <1>8, <2>3, <3>1 DEF NoRepeats
    <3>2. CASE k \notin 1..m
      <4>1. PICK i \in 1..n : k = m + i
        BY <1>6, <3>2
      <4>2. c[k] = t[i] /\ c[j] = s[j]
        BY <1>4, <1>5, <2>3, <4>1
      <4> QED BY <1>8, <2>1, <2>2, <2>3, <4>2
    <3> QED BY <3>1, <3>2
  <2>4. CASE j \notin 1..m
    <3>1. PICK i \in 1..n : j = m + i
      BY <1>6, <2>4
    <3>2. c[j] = t[i]
      BY <1>5, <3>1
    <3>3. CASE k \in 1..m
      <4>1. c[k] = s[k]
        BY <1>4, <3>3
      <4> QED BY <1>8, <2>1, <2>2, <3>2, <3>3, <4>1
    <3>4. CASE k \notin 1..m
      <4>1. PICK h \in 1..n : k = m + h
        BY <1>6, <3>4
      <4>2. c[k] = t[h]
        BY <1>5, <4>1
      <4>3. i = h
        BY <1>3, <1>8, <3>2, <4>2 DEF NoRepeats
      <4> QED BY <3>1, <4>1, <4>3
    <3> QED BY <3>3, <3>4
  <2> QED BY <2>3, <2>4
<1> QED BY <1>2, <1>7, <1>8

\* What FlattenSeq computes of n sequences.
Flattening(seqs, n, f) ==
    f = [i \in 1..n |-> IF i = 1 THEN seqs[i] ELSE f[i - 1] \o seqs[i]]

\* So the CHOOSE of FlattenSeq finds one.
LEMMA FlatteningExists ==
    ASSUME NEW seqs PROVE \A n \in Nat : \E f : Flattening(seqs, n, f)
<1> DEFINE T == {n \in Nat : \E f : Flattening(seqs, n, f)}
<1>1. 0 \in T
  <2>1. 1..0 = {}
    OBVIOUS
  <2>2. Flattening(seqs, 0, [i \in 1..0 |-> seqs])
    BY <2>1 DEF Flattening
  <2> QED BY <2>2
<1>2. ASSUME NEW n \in Nat, n \in T PROVE n + 1 \in T
  <2>1. PICK f : Flattening(seqs, n, f)
    BY <1>2
  <2>2. \A i \in 1..n : f[i] = IF i = 1 THEN seqs[i] ELSE f[i - 1] \o seqs[i]
    BY <2>1 DEF Flattening
  <2> DEFINE h == [i \in 1..(n + 1) |-> IF i <= n THEN f[i]
                                        ELSE IF i = 1 THEN seqs[i] ELSE f[i - 1] \o seqs[i]]
  <2>3. ASSUME NEW i \in 1..(n + 1)
        PROVE  h[i] = IF i = 1 THEN seqs[i] ELSE h[i - 1] \o seqs[i]
    <3>1. CASE i = 1
      <4>1. h[i] = IF i <= n THEN f[i] ELSE seqs[i]
        BY <3>1
      <4>2. i <= n => f[i] = seqs[i]
        BY <2>2, <3>1
      <4> QED BY <3>1, <4>1, <4>2
    <3>2. CASE i # 1
      <4>1. i - 1 \in 1..(n + 1) /\ i - 1 <= n
        BY <3>2
      <4>2. h[i - 1] = f[i - 1]
        BY <4>1
      <4>3. i <= n => f[i] = f[i - 1] \o seqs[i]
        <5>1. i <= n => i \in 1..n
          OBVIOUS
        <5> QED BY <2>2, <3>2, <5>1, Zenon
      <4>4. h[i] = f[i - 1] \o seqs[i]
        BY <3>2, <4>3
      <4> QED BY <3>2, <4>2, <4>4
    <3> QED BY <3>1, <3>2
  <2>4. h = [i \in 1..(n + 1) |-> h[i]]
    OBVIOUS
  <2>5. Flattening(seqs, n + 1, h)
    <3> HIDE DEF h
    <3> QED BY <2>3, <2>4 DEF Flattening
  <2> HIDE DEF h
  <2> QED BY <2>5
<1>3. \A n \in Nat : n \in T
  <2> HIDE DEF T
  <2> QED BY <1>1, <1>2, NatSetInduction
<1> QED BY <1>3

\* Flattened, sequences that have nothing in common have the elements of all, once each.
LEMMA Flattened ==
    ASSUME NEW T, NEW n \in Nat, NEW seqs \in [1..n -> Seq(T)],
           \A i \in 1..n : NoRepeats(seqs[i]),
           \A i, j \in 1..n : i # j => ToSet(seqs[i]) \cap ToSet(seqs[j]) = {}
    PROVE  /\ FlattenSeq(seqs) \in Seq(T) /\ NoRepeats(FlattenSeq(seqs))
           /\ \A x : x \in ToSet(FlattenSeq(seqs)) <=> \E i \in 1..n : x \in ToSet(seqs[i])
<1>1. seqs \in Seq(Seq(T)) /\ Len(seqs) = n /\ DOMAIN seqs = 1..n
  OBVIOUS
<1>2. CASE n = 0
  <2>1. FlattenSeq(seqs) = seqs
    BY <1>1, <1>2 DEF FlattenSeq
  <2>2. 1..n = {}
    BY <1>2
  <2>3. seqs \in [1..0 -> T]
    BY <1>2, <2>2
  <2>4. seqs \in Seq(T)
    BY <2>3
  <2> QED BY <1>1, <2>1, <2>2, <2>4 DEF NoRepeats, ToSet
<1>3. CASE n # 0
  <2> DEFINE F(f) == f = [i \in 1..Len(seqs) |-> IF i = 1 THEN seqs[i] ELSE f[i - 1] \o seqs[i]]
  <2>1. PICK f : F(f) /\ FlattenSeq(seqs) = f[n]
    <3>1. \E f : F(f)
      BY <1>1, FlatteningExists DEF Flattening
    <3>2. FlattenSeq(seqs) = (CHOOSE f : F(f))[n]
      BY <1>1, <1>3 DEF FlattenSeq
    <3> HIDE DEF F
    <3> QED BY <3>1, <3>2
  <2>2. \A i \in 1..n : f[i] = IF i = 1 THEN seqs[i] ELSE f[i - 1] \o seqs[i]
    BY <1>1, <2>1
  <2> DEFINE All(k) == /\ f[k] \in Seq(T) /\ NoRepeats(f[k])
                       /\ \A x : x \in ToSet(f[k]) <=> \E i \in 1..k : x \in ToSet(seqs[i])
             U == {k \in Nat : k + 1 <= n => All(k + 1)}
  <2>3. 0 \in U
    <3>1. 1 \in 1..n /\ 0 + 1 = 1 /\ 1..1 = {1}
      BY <1>3
    <3>2. f[1] = seqs[1]
      BY <2>2, <3>1
    <3>3. seqs[1] \in Seq(T) /\ NoRepeats(seqs[1])
      BY <3>1
    <3>4. All(1)
      BY <3>1, <3>2, <3>3
    <3> HIDE DEF All
    <3> QED BY <3>1, <3>4
  <2>4. ASSUME NEW k \in Nat, k \in U PROVE k + 1 \in U
    <3> SUFFICES ASSUME (k + 1) + 1 <= n PROVE All((k + 1) + 1)
      OBVIOUS
    <3>1. PICK m \in Nat : m = k + 1
      OBVIOUS
    <3>2. m + 1 <= n /\ m + 1 \in 1..n /\ m + 1 # 1 /\ (m + 1) - 1 = m /\ m <= n
      BY <3>1
    <3>3. All(m)
      BY <2>4, <3>1, <3>2
    <3>4. f[m + 1] = f[m] \o seqs[m + 1]
      BY <2>2, <3>2
    <3>5. seqs[m + 1] \in Seq(T) /\ NoRepeats(seqs[m + 1])
      BY <3>2
    <3>6. \A i \in 1..m : i \in 1..n /\ i # m + 1
      BY <3>2
    <3>7. ToSet(f[m]) \cap ToSet(seqs[m + 1]) = {}
      BY <3>2, <3>3, <3>6
    <3>8. /\ f[m + 1] \in Seq(T) /\ NoRepeats(f[m + 1])
          /\ ToSet(f[m + 1]) = ToSet(f[m]) \cup ToSet(seqs[m + 1])
      BY <3>3, <3>4, <3>5, <3>7, Concatenated
    <3>9. \A i : i \in 1..(m + 1) <=> i \in 1..m \/ i = m + 1
      OBVIOUS
    <3>10. ASSUME NEW x
           PROVE  x \in ToSet(f[m + 1]) <=> \E i \in 1..(m + 1) : x \in ToSet(seqs[i])
      BY <3>3, <3>8, <3>9
    <3>11. All(m + 1)
      BY <3>8, <3>10
    <3> HIDE DEF All
    <3> QED BY <3>1, <3>11
  <2>5. PICK k \in Nat : n = k + 1
    <3>1. n - 1 \in Nat /\ n = (n - 1) + 1
      BY <1>3
    <3> QED BY <3>1
  <2>6. k \in U
    <3> HIDE DEF U
    <3> QED BY <2>3, <2>4, NatSetInduction
  <2>7. All(n)
    <3> HIDE DEF All
    <3> QED BY <2>5, <2>6
  <2> QED BY <2>1, <2>7
<1> QED BY <1>2, <1>3

-----------------------------------------------------------------------------
(* The grid *)

RangeType == [name : STRING, from : Int, to : Int, step : Nat \ {0}]

\* The values within a range, as EveryCombinationTried has them.
Within(r) == {v \in r.from..r.to : (v - r.from) % r.step = 0}

\* Multiples of a step, in terms of numbers only.
LEMMA Multiples ==
    ASSUME NEW s \in Nat \ {0}, NEW d \in Int, NEW q \in Int, q = d \div s
    PROVE  /\ \A k \in Nat : k <= q <=> k * s <= d
           /\ \A k \in Nat : k * s \in Nat /\ (k * s) % s = 0
           /\ \A j, k \in Nat : j * s = k * s => j = k
           /\ \A v \in Nat : v % s = 0 => \E k \in Nat : v = k * s
<1>1. PICK m \in 0..s - 1 : d = s * q + m
  OBVIOUS
<1>2. ASSUME NEW k \in Nat PROVE k <= q <=> k * s <= d
  <2>1. CASE k <= q
    <3>1. PICK e \in Nat : q = k + e
      <4>1. q - k \in Nat /\ q = k + (q - k)
        BY <2>1
      <4> QED BY <4>1
    <3>2. s * q = k * s + e * s /\ e * s \in Nat /\ k * s \in Nat
      BY <3>1
    <3> QED BY <1>1, <2>1, <3>2
  <2>2. CASE ~(k <= q)
    <3>1. PICK e \in Nat : k = q + 1 + e
      <4>1. k - (q + 1) \in Nat /\ k = q + 1 + (k - (q + 1))
        BY <2>2
      <4> QED BY <4>1
    <3>2. k * s = s * q + s + e * s /\ e * s \in Nat /\ s * q \in Int
      BY <3>1
    <3> QED BY <1>1, <2>2, <3>2
  <2> QED BY <2>1, <2>2
<1>3. ASSUME NEW k \in Nat PROVE k * s \in Nat /\ (k * s) % s = 0
  OBVIOUS
<1>4. ASSUME NEW j \in Nat, NEW k \in Nat, j * s = k * s PROVE j = k
  BY <1>4
<1>5. ASSUME NEW v \in Nat, v % s = 0 PROVE \E k \in Nat : v = k * s
  <2>1. PICK k \in Int : k = v \div s
    OBVIOUS
  <2>2. v = s * k
    BY <1>5, <2>1
  <2>3. k \in Nat
    BY <2>2
  <2> QED BY <2>2, <2>3
<1> QED BY <1>2, <1>3, <1>4, <1>5

\* Values yields each value within its range once.
LEMMA ValuesAre ==
    ASSUME NEW r \in RangeType
    PROVE  \E n \in Nat :
              /\ DOMAIN Values(r) = 1..n
              /\ \A k \in 1..n : Values(r)[k] \in Within(r)
              /\ \A j, k \in 1..n : Values(r)[j] = Values(r)[k] => j = k
              /\ \A v \in Within(r) : \E k \in 1..n : Values(r)[k] = v
<1>1. PICK a \in Int, b \in Int, s \in Nat \ {0} : a = r.from /\ b = r.to /\ s = r.step
  BY DEF RangeType
<1>2. PICK q \in Int : q = (b - a) \div s
  OBVIOUS
<1>2a. PICK d \in Int : d = b - a /\ q = d \div s
  BY <1>2
<1>2b. /\ \A k \in Nat : k <= q <=> k * s <= d
       /\ \A k \in Nat : k * s \in Nat /\ (k * s) % s = 0
       /\ \A j, k \in Nat : j * s = k * s => j = k
       /\ \A v \in Nat : v % s = 0 => \E k \in Nat : v = k * s
  BY <1>2a, Multiples
<1>3. PICK n \in Nat : 1..(q + 1) = 1..n /\ \A k \in Nat : k + 1 <= n <=> k <= q
  <2>1. CASE q + 1 >= 0
    <3>1. q + 1 \in Nat
      BY <2>1
    <3> QED BY <3>1
  <2>2. CASE ~(q + 1 >= 0)
    <3>1. 1..(q + 1) = 1..0 /\ \A k \in Nat : k + 1 <= 0 <=> k <= q
      BY <2>2
    <3> QED BY <3>1
  <2> QED BY <2>1, <2>2
<1>4. PICK vs : vs = Values(r)
  OBVIOUS
<1>5. DOMAIN vs = 1..n /\ \A k \in 1..n : vs[k] = a + (k - 1) * s
  BY <1>1, <1>2, <1>3, <1>4 DEF Values
<1>6. \A v : v \in Within(r) <=> v \in a..b /\ (v - a) % s = 0
  BY <1>1 DEF Within
<1>7. \A k \in 1..n : k - 1 \in Nat /\ k - 1 <= q
  BY <1>3
<1>8. ASSUME NEW k \in 1..n PROVE vs[k] \in Within(r)
  <2>1. PICK m \in Nat : m = k - 1 /\ m <= q
    BY <1>7
  <2>2. PICK x \in Nat : x = m * s /\ x % s = 0 /\ x <= b - a
    BY <1>2a, <1>2b, <2>1
  <2>3. vs[k] = a + x
    BY <1>5, <2>1, <2>2
  <2>4. a + x \in a..b /\ (a + x) - a = x
    BY <2>2
  <2> QED BY <1>6, <2>2, <2>3, <2>4
<1>9. ASSUME NEW j \in 1..n, NEW k \in 1..n, vs[j] = vs[k] PROVE j = k
  <2>1. PICK h \in Nat, m \in Nat : h = j - 1 /\ m = k - 1
    BY <1>7
  <2>2. PICK x \in Nat, y \in Nat : x = h * s /\ y = m * s
    BY <1>2b
  <2>3. vs[j] = a + x /\ vs[k] = a + y
    BY <1>5, <2>1, <2>2
  <2>4. x = y
    <3>1. a + x = a + y
      BY <1>9, <2>3, Zenon
    <3> QED BY <3>1
  <2>5. h * s = m * s
    BY <2>2, <2>4
  <2>6. h = m
    BY <1>2b, <2>5
  <2> QED BY <2>1, <2>6
<1>10. ASSUME NEW v \in Within(r) PROVE \E k \in 1..n : vs[k] = v
  <2>1. v \in a..b /\ (v - a) % s = 0
    BY <1>6
  <2>2. PICK x \in Nat : x = v - a /\ x % s = 0 /\ x <= b - a
    BY <2>1
  <2>3. PICK k \in Nat : x = k * s
    BY <1>2b, <2>2
  <2>4. k <= q
    BY <1>2a, <1>2b, <2>2, <2>3
  <2>5. k + 1 \in 1..n /\ (k + 1) - 1 = k
    BY <1>3, <2>4
  <2>6. vs[k + 1] = a + x
    BY <1>5, <2>3, <2>5
  <2> QED BY <2>1, <2>2, <2>5, <2>6
<1> QED BY <1>4, <1>5, <1>8, <1>9, <1>10

\* The combinations of values for the ranges from the k-th on.
NamesFrom(k) == {Ranges[i].name : i \in k..Len(Ranges)}
SetsFrom(k) ==
    {f \in [NamesFrom(k) -> Int] : \A i \in k..Len(Ranges) : f[Ranges[i].name] \in Within(Ranges[i])}

\* grid has each of these combinations once.
Lists(grid, k) ==
    grid \in Seq(SetsFrom(k)) /\ NoRepeats(grid) /\ ToSet(grid) = SetsFrom(k)

\* The ranges are a sequence and have different names.
LEMMA RangesAre ==
    /\ Len(Ranges) \in Nat /\ DOMAIN Ranges = 1..Len(Ranges)
    /\ \A i \in 1..Len(Ranges) : Ranges[i] \in RangeType
    /\ \A i, j \in 1..Len(Ranges) : Ranges[i].name = Ranges[j].name => i = j
<1>1. Ranges \in Seq(RangeType)
  BY OptimizerConstantsOK DEF OptimizerConstantsOK, RangeType
<1>2. DOMAIN Ranges = 1..Len(Ranges) /\ Len(Ranges) \in Nat
  BY <1>1
<1>3. \A i \in 1..Len(Ranges) : Ranges[i] \in RangeType
  BY <1>1, <1>2
<1>4. \A i, j \in DOMAIN Ranges : Ranges[i].name = Ranges[j].name => i = j
  BY OptimizerConstantsOK DEF OptimizerConstantsOK
<1> QED BY <1>2, <1>3, <1>4

\* A value of one more range makes a combination of one of the others ...
LEMMA AddedIs ==
    ASSUME NEW k \in 1..Len(Ranges), NEW f \in SetsFrom(k + 1), NEW v \in Within(Ranges[k])
    PROVE  /\ Added(f, Ranges[k].name, v) \in SetsFrom(k)
           /\ Added(f, Ranges[k].name, v)[Ranges[k].name] = v
           /\ \A x \in NamesFrom(k + 1) : Added(f, Ranges[k].name, v)[x] = f[x]
<1>1. PICK x : x = Ranges[k].name
  BY ONLY TRUE
<1>2. PICK N \in Nat : N = Len(Ranges) /\ k \in 1..N
  BY RangesAre
<1>3. f \in [NamesFrom(k + 1) -> Int] /\ \A i \in k + 1..N : f[Ranges[i].name] \in Within(Ranges[i])
  BY <1>2 DEF SetsFrom
<1>4. x \notin NamesFrom(k + 1)
  <2> SUFFICES ASSUME NEW i \in k + 1..N, Ranges[i].name = x PROVE FALSE
    BY <1>2 DEF NamesFrom
  <2>1. i \in 1..N /\ i # k
    BY <1>2
  <2> QED BY <1>1, <1>2, <2>1, RangesAre
<1>5. \A i : i \in k..N <=> i = k \/ i \in k + 1..N
  BY <1>2
<1>6. NamesFrom(k) = NamesFrom(k + 1) \cup {x}
  BY <1>1, <1>2, <1>5 DEF NamesFrom
<1>7. v \in Int
  BY <1>2, RangesAre DEF Within, RangeType
<1>8. PICK g : g = Added(f, x, v)
  OBVIOUS
<1>9. /\ g \in [NamesFrom(k) -> Int] /\ g[x] = v
      /\ \A y \in NamesFrom(k + 1) : g[y] = f[y]
  BY <1>3, <1>4, <1>6, <1>7, <1>8 DEF Added
<1>10. ASSUME NEW i \in k..N PROVE g[Ranges[i].name] \in Within(Ranges[i])
  <2>1. CASE i = k
    BY <1>1, <1>9, <2>1
  <2>2. CASE i \in k + 1..N
    <3>1. Ranges[i].name \in NamesFrom(k + 1)
      BY <1>2, <2>2 DEF NamesFrom
    <3> QED BY <1>3, <1>9, <2>2, <3>1
  <2> QED BY <1>5, <2>1, <2>2
<1>11. g \in SetsFrom(k)
  BY <1>2, <1>9, <1>10 DEF SetsFrom
<1> QED BY <1>1, <1>8, <1>9, <1>11

\* ... and every combination is made in this way.
LEMMA AddedAll ==
    ASSUME NEW k \in 1..Len(Ranges), NEW g \in SetsFrom(k)
    PROVE  \E f \in SetsFrom(k + 1), v \in Within(Ranges[k]) : g = Added(f, Ranges[k].name, v)
<1>1. PICK x : x = Ranges[k].name
  BY ONLY TRUE
<1>2. PICK N \in Nat : N = Len(Ranges) /\ k \in 1..N
  BY RangesAre
<1>3. g \in [NamesFrom(k) -> Int] /\ \A i \in k..N : g[Ranges[i].name] \in Within(Ranges[i])
  BY <1>2 DEF SetsFrom
<1>4. k \in k..N /\ \A i \in k + 1..N : i \in k..N
  BY <1>2
<1>5. NamesFrom(k) = NamesFrom(k + 1) \cup {x}
  <2>1. \A i : i \in k..N <=> i = k \/ i \in k + 1..N
    BY <1>2
  <2> QED BY <1>1, <1>2, <2>1 DEF NamesFrom
<1>6. PICK f : f = [y \in NamesFrom(k + 1) |-> g[y]]
  OBVIOUS
<1>7. f \in [NamesFrom(k + 1) -> Int]
  BY <1>3, <1>5, <1>6
<1>8. ASSUME NEW i \in k + 1..N PROVE f[Ranges[i].name] \in Within(Ranges[i])
  <2>1. Ranges[i].name \in NamesFrom(k + 1)
    BY <1>2 DEF NamesFrom
  <2> QED BY <1>3, <1>4, <1>6, <2>1
<1>9. f \in SetsFrom(k + 1)
  BY <1>2, <1>7, <1>8 DEF SetsFrom
<1>10. g[x] \in Within(Ranges[k])
  BY <1>1, <1>3, <1>4
<1>11. g = Added(f, x, g[x])
  <2>1. DOMAIN f = NamesFrom(k + 1) /\ g = [y \in NamesFrom(k + 1) \cup {x} |-> g[y]]
    BY <1>3, <1>5, <1>6
  <2>2. \A y \in NamesFrom(k + 1) \cup {x} : g[y] = IF y \in NamesFrom(k + 1) THEN f[y] ELSE g[x]
    BY <1>6
  <2> QED BY <2>1, <2>2 DEF Added
<1> QED BY <1>1, <1>9, <1>10, <1>11

\* Cross lists the combinations of one range more.
LEMMA CrossLists ==
    ASSUME NEW k \in 1..Len(Ranges), NEW grid, Lists(grid, k + 1)
    PROVE  Lists(Cross(Ranges[k], grid), k)
<1>1. PICK r \in RangeType : r = Ranges[k]
  BY RangesAre
<1>2. PICK n \in Nat :
         /\ DOMAIN Values(r) = 1..n
         /\ \A i \in 1..n : Values(r)[i] \in Within(r)
         /\ \A i, j \in 1..n : Values(r)[i] = Values(r)[j] => i = j
         /\ \A v \in Within(r) : \E i \in 1..n : Values(r)[i] = v
  BY ValuesAre
<1>3. PICK vs : vs = Values(r)
  OBVIOUS
<1>4. PICK m \in Nat : m = Len(grid) /\ DOMAIN grid = 1..m /\ \A i \in 1..m : grid[i] \in SetsFrom(k + 1)
  BY DEF Lists
<1>5. PICK x : x = r.name
  OBVIOUS
<1>6. PICK seqs : seqs = [i \in 1..n |-> [j \in 1..m |-> Added(grid[j], x, vs[i])]]
  OBVIOUS
<1>7. Cross(r, grid) = FlattenSeq(seqs)
  BY <1>2, <1>3, <1>4, <1>5, <1>6 DEF Cross
<1>8. \A i \in 1..n : vs[i] \in Within(Ranges[k])
  BY <1>1, <1>2, <1>3
<1>9. ASSUME NEW i \in 1..n, NEW j \in 1..m
      PROVE  /\ seqs[i][j] \in SetsFrom(k) /\ seqs[i][j][x] = vs[i]
             /\ \A y \in NamesFrom(k + 1) : seqs[i][j][y] = grid[j][y]
  <2>1. seqs[i][j] = Added(grid[j], x, vs[i])
    BY <1>6
  <2>2. x = Ranges[k].name
    BY <1>1, <1>5
  <2>3. grid[j] \in SetsFrom(k + 1) /\ vs[i] \in Within(Ranges[k])
    BY <1>4, <1>8
  <2> QED BY <2>1, <2>2, <2>3, AddedIs
<1>10. \A i \in 1..n : DOMAIN seqs[i] = 1..m
  BY <1>6
<1>11. seqs \in [1..n -> Seq(SetsFrom(k))]
  <2>1. ASSUME NEW i \in 1..n PROVE seqs[i] \in Seq(SetsFrom(k))
    <3>1. seqs[i] = [j \in 1..m |-> seqs[i][j]]
      BY <1>6
    <3>2. \A j \in 1..m : seqs[i][j] \in SetsFrom(k)
      BY <1>9
    <3>3. seqs[i] \in [1..m -> SetsFrom(k)]
      BY <3>1, <3>2
    <3> QED BY <3>3
  <2> QED BY <1>6, <2>1
<1>12. ASSUME NEW i \in 1..n PROVE NoRepeats(seqs[i])
  <2> SUFFICES ASSUME NEW j \in 1..m, NEW h \in 1..m, seqs[i][j] = seqs[i][h] PROVE j = h
    BY <1>10 DEF NoRepeats
  <2>1. \A y \in NamesFrom(k + 1) : grid[j][y] = grid[h][y]
    BY <1>9
  <2>2. grid[j] \in [NamesFrom(k + 1) -> Int] /\ grid[h] \in [NamesFrom(k + 1) -> Int]
    BY <1>4 DEF SetsFrom
  <2>3. grid[j] = grid[h]
    BY <2>1, <2>2
  <2> QED BY <1>4, <2>3 DEF Lists, NoRepeats
<1>13. ASSUME NEW i \in 1..n, NEW h \in 1..n, i # h
       PROVE  ToSet(seqs[i]) \cap ToSet(seqs[h]) = {}
  <2>1. \A g \in ToSet(seqs[i]) : g[x] = vs[i]
    BY <1>9, <1>10 DEF ToSet
  <2>2. \A g \in ToSet(seqs[h]) : g[x] = vs[h]
    BY <1>9, <1>10 DEF ToSet
  <2>3. vs[i] # vs[h]
    BY <1>2, <1>3, <1>13
  <2> QED BY <2>1, <2>2, <2>3
<1>14. PICK c : c = FlattenSeq(seqs)
  OBVIOUS
<1>15. /\ c \in Seq(SetsFrom(k)) /\ NoRepeats(c)
       /\ \A g : g \in ToSet(c) <=> \E i \in 1..n : g \in ToSet(seqs[i])
  BY <1>11, <1>12, <1>13, <1>14, Flattened
<1>16. ASSUME NEW g \in SetsFrom(k) PROVE g \in ToSet(c)
  <2>1. PICK f \in SetsFrom(k + 1), v \in Within(Ranges[k]) : g = Added(f, x, v)
    BY <1>1, <1>5, AddedAll
  <2>2. PICK i \in 1..n : vs[i] = v
    BY <1>1, <1>2, <1>3
  <2>3. PICK j \in 1..m : grid[j] = f
    BY <1>4 DEF Lists, ToSet
  <2>4. g = seqs[i][j]
    BY <1>6, <2>1, <2>2, <2>3
  <2>5. g \in ToSet(seqs[i])
    BY <1>10, <2>4 DEF ToSet
  <2> QED BY <1>15, <2>5
<1>17. ToSet(c) \subseteq SetsFrom(k)
  BY <1>15 DEF ToSet
<1>18. ToSet(c) = SetsFrom(k)
  BY <1>16, <1>17
<1> QED BY <1>1, <1>7, <1>14, <1>15, <1>18 DEF Lists

\* The grid of no ranges has one combination, the empty one.
NoValues == [n \in {} |-> 0]
\* Without ranges there is one set, which gives no name a value.
LEMMA LastLists == Lists(<<NoValues>>, Len(Ranges) + 1)
<1>1. PICK N \in Nat : N = Len(Ranges)
  BY RangesAre
<1>2. N + 1..N = {}
  OBVIOUS
<1>3. NamesFrom(N + 1) = {}
  BY <1>1, <1>2 DEF NamesFrom
<1>4. SetsFrom(N + 1) = {NoValues}
  <2>1. NoValues \in [{} -> Int] /\ \A f \in [{} -> Int] : f = NoValues
    BY DEF NoValues
  <2> QED BY <1>1, <1>2, <1>3, <2>1 DEF SetsFrom
<1>5. PICK b : b = <<NoValues>>
  OBVIOUS
<1>6. b \in Seq({NoValues}) /\ Len(b) = 1 /\ DOMAIN b = {1} /\ b[1] = NoValues
  BY <1>5
<1>7. ToSet(b) = {NoValues} /\ NoRepeats(b)
  BY <1>6 DEF ToSet, NoRepeats
<1> QED BY <1>1, <1>4, <1>5, <1>6, <1>7 DEF Lists

\* The recursion of Grid is a fold from the right.
LEMMA GridFold == Grid = FoldOf("grid", Ranges, <<NoValues>>, 1..Len(Ranges))
<1> DEFINE Eq(g) == g = [t \in SUBSET DOMAIN Ranges |->
                           IF t = {} THEN <<NoValues>>
                           ELSE Cross(Ranges[Min(t)], g[t \ {Min(t)}])]
<1>1. DOMAIN Ranges = 1..Len(Ranges)
  BY RangesAre
<1>2. \A g : Eq(g) <=> Folding("grid", Ranges, <<NoValues>>, 1..Len(Ranges), g)
  BY <1>1 DEF Folding, Combine, Taken
<1>3. Grid = (CHOOSE g : Eq(g))[DOMAIN Ranges]
  BY DEF Grid, FoldRight, MapThenFoldSet, NoValues
<1> HIDE DEF Eq
<1>4. (CHOOSE g : Eq(g)) = CHOOSE g : Folding("grid", Ranges, <<NoValues>>, 1..Len(Ranges), g)
  BY <1>2
<1> QED BY <1>1, <1>3, <1>4 DEF FoldOf

\* The grid has each combination once (Grid, optimizer.go:42-60).
LEMMA GridLists == Lists(Grid, 1)
<1>1. PICK N \in Nat : N = Len(Ranges)
  BY RangesAre
<1>2. PICK b : b = <<NoValues>>
  OBVIOUS
<1>3. PICK g : Folding("grid", Ranges, b, 1..N, g) /\ FoldOf("grid", Ranges, b, 1..N) = g[1..N]
  BY SequenceFolds
<1>4. /\ g[N + 1..N] = b
      /\ \A i \in 1..N : g[i..N] = Cross(Ranges[i], g[i + 1..N])
  BY <1>3, FromTheRight
<1> DEFINE T == {j \in Nat : j <= N => Lists(g[(N + 1 - j)..N], N + 1 - j)}
<1>5. 0 \in T
  <2>1. N + 1 - 0 = N + 1
    OBVIOUS
  <2>2. Lists(b, N + 1)
    BY <1>1, <1>2, LastLists
  <2> QED BY <1>4, <2>1, <2>2
<1>6. ASSUME NEW j \in Nat, j \in T PROVE j + 1 \in T
  <2> SUFFICES ASSUME j + 1 <= N PROVE Lists(g[(N + 1 - (j + 1))..N], N + 1 - (j + 1))
    OBVIOUS
  <2>1. PICK i \in 1..N : i = N + 1 - (j + 1) /\ i + 1 = N + 1 - j
    <3>1. N - j \in 1..N /\ N - j = N + 1 - (j + 1) /\ N - j + 1 = N + 1 - j
      OBVIOUS
    <3> QED BY <3>1
  <2>2. Lists(g[i + 1..N], i + 1)
    <3>1. j <= N
      OBVIOUS
    <3> QED BY <1>6, <2>1, <3>1
  <2>3. PICK h : h = g[i + 1..N]
    OBVIOUS
  <2>4. Lists(Cross(Ranges[i], h), i)
    BY <1>1, <2>2, <2>3, CrossLists
  <2>5. g[i..N] = Cross(Ranges[i], h)
    BY <1>4, <2>3
  <2> QED BY <2>1, <2>4, <2>5
<1>7. N \in T
  <2> HIDE DEF T
  <2> QED BY <1>5, <1>6, NatSetInduction
<1>8. N + 1 - N = 1 /\ N <= N
  OBVIOUS
<1>9. Lists(g[1..N], 1)
  BY <1>7, <1>8
<1> QED BY <1>1, <1>2, <1>3, <1>9, GridFold

\* The parameter sets are numbered from 1, and the grid is all combinations of values.
LEMMA ParamsAre ==
    /\ \E n \in Nat : Params = 1..n
    /\ IsFiniteSet(Params) /\ NoParams \notin Params
<1>1. Grid \in Seq(SetsFrom(1))
  BY GridLists DEF Lists
<1>2. PICK n \in Nat : DOMAIN Grid = 1..n
  BY <1>1
<1>3. IsFiniteSet(1..n)
  BY FS_Interval
<1> QED BY <1>2, <1>3 DEF Params, NoParams

\* The combinations of EveryCombinationTried.
Combinations ==
    LET Names == {Ranges[i].name : i \in DOMAIN Ranges}
        Values_(r) == {v \in r.from..r.to : (v - r.from) % r.step = 0}
    IN  {f \in [Names -> UNION {Values_(Ranges[i]) : i \in DOMAIN Ranges}] :
            \A i \in DOMAIN Ranges : f[Ranges[i].name] \in Values_(Ranges[i])}

\* They are what the grid lists.
LEMMA CombinationsAre == Combinations = SetsFrom(1)
<1>1. DOMAIN Ranges = 1..Len(Ranges)
  BY RangesAre
<1>2. PICK U : U = UNION {Within(Ranges[i]) : i \in DOMAIN Ranges}
  OBVIOUS
<1>3. PICK Names : Names = NamesFrom(1)
  OBVIOUS
<1>4. Combinations = {f \in [Names -> U] : \A i \in DOMAIN Ranges : f[Ranges[i].name] \in Within(Ranges[i])}
  BY <1>1, <1>2, <1>3 DEF Combinations, Within, NamesFrom
<1>5. SetsFrom(1) = {f \in [Names -> Int] : \A i \in DOMAIN Ranges : f[Ranges[i].name] \in Within(Ranges[i])}
  BY <1>1, <1>3 DEF SetsFrom
<1>6. U \subseteq Int
  BY <1>1, <1>2, RangesAre DEF Within, RangeType
<1>7. ASSUME NEW f \in [Names -> Int],
             \A i \in DOMAIN Ranges : f[Ranges[i].name] \in Within(Ranges[i])
      PROVE  f \in [Names -> U]
  <2>1. ASSUME NEW x \in Names PROVE f[x] \in U
    <3>1. PICK i \in DOMAIN Ranges : x = Ranges[i].name
      BY <1>1, <1>3 DEF NamesFrom
    <3> QED BY <1>2, <1>7, <3>1
  <2> QED BY <2>1
<1>8. \A f \in [Names -> U] : f \in [Names -> Int]
  BY <1>6
<1> QED BY <1>4, <1>5, <1>7, <1>8

\* As many positions as different elements.
LEMMA AsManyAs ==
    ASSUME NEW S, NEW s \in Seq(S), NoRepeats(s)
    PROVE  IsFiniteSet(ToSet(s)) /\ Cardinality(ToSet(s)) = Len(s)
<1>1. PICK n \in Nat : n = Len(s) /\ DOMAIN s = 1..n
  OBVIOUS
<1>2. PICK R : R = ToSet(s)
  OBVIOUS
<1>3. s \in [1..n -> R] /\ \A x \in R : \E i \in 1..n : s[i] = x
  BY <1>1, <1>2 DEF ToSet
<1>4. \A i, j \in 1..n : s[i] = s[j] => i = j
  BY <1>1 DEF NoRepeats
<1>5. s \in Bijection(1..n, R)
  BY <1>3, <1>4 DEF Bijection, Injection, Surjection, IsInjective
<1>6. IsFiniteSet(1..n) /\ Cardinality(1..n) = n
  BY FS_Interval
<1>7. ExistsBijection(1..n, R)
  BY <1>5 DEF ExistsBijection
<1> QED BY <1>1, <1>2, <1>6, <1>7, FS_Bijection

\* When each set has been tried once, so has each combination.
LEMMA AllTried ==
    ASSUME scored \in Seq(Params), NoRepeats(scored), ToSet(scored) = Params
    PROVE  /\ {Grid[p] : p \in ToSet(scored)} = Combinations
           /\ Len(scored) = Cardinality(Combinations)
<1>1. Grid \in Seq(SetsFrom(1)) /\ NoRepeats(Grid) /\ ToSet(Grid) = Combinations
  BY GridLists, CombinationsAre DEF Lists
<1>2. {Grid[p] : p \in ToSet(scored)} = Combinations
  BY <1>1 DEF ToSet, Params
<1>3. Cardinality(Combinations) = Len(Grid)
  BY <1>1, AsManyAs
<1>4. Cardinality(Params) = Len(scored)
  BY AsManyAs
<1>5. Cardinality(Params) = Len(Grid)
  <2>1. PICK n \in Nat : n = Len(Grid) /\ DOMAIN Grid = 1..n
    BY <1>1
  <2>2. Cardinality(1..n) = n
    BY FS_Interval
  <2> QED BY <2>1, <2>2 DEF Params
<1> QED BY <1>2, <1>3, <1>4, <1>5

-----------------------------------------------------------------------------
(* The windows *)

\* As many windows as steps fit, and the last one leaves no room for another.
LEMMA StartsAre ==
    ASSUME NEW n \in Nat
    PROVE  \E c \in Nat :
              /\ IsFiniteSet(Starts(n)) /\ Cardinality(Starts(n)) = c
              /\ c * StepBars + InSample + OutSample > n
              /\ c # 0 => (c - 1) * StepBars + InSample + OutSample <= n
              /\ c = 0 <=> n < InSample + OutSample
              /\ c = 0 <=> Starts(n) = {}
<1>1. PICK s \in Nat \ {0}, a \in Nat : s = StepBars /\ a = InSample + OutSample
  BY OptimizerConstantsOK DEF OptimizerConstantsOK
<1>2. \A x \in Int : x + InSample + OutSample = x + a
  BY <1>1, OptimizerConstantsOK DEF OptimizerConstantsOK
<1>3. PICK S : S = Starts(n)
  OBVIOUS
<1>4. \A x : x \in S <=> x \in 0..n /\ x % s = 0 /\ x + a <= n
  BY <1>1, <1>2, <1>3 DEF Starts
<1>5. CASE n < a
  <2>1. S = {}
    BY <1>4, <1>5
  <2>2. IsFiniteSet(S) /\ Cardinality(S) = 0
    BY <2>1, FS_EmptySet
  <2>3. 0 * s + a > n /\ 0 * s = 0
    BY <1>5
  <2>4. 0 * StepBars + InSample + OutSample > n /\ n < InSample + OutSample
    BY <1>1, <1>2, <1>5, <2>3
  <2> QED BY <1>3, <2>1, <2>2, <2>4
<1>6. CASE ~(n < a)
  <2>1. PICK d \in Int : d = n - a /\ d >= 0
    BY <1>6
  <2>1a. PICK q \in Int : q = d \div s
    OBVIOUS
  <2>2. /\ \A k \in Nat : k <= q <=> k * s <= d
        /\ \A k \in Nat : k * s \in Nat /\ (k * s) % s = 0
        /\ \A j, k \in Nat : j * s = k * s => j = k
        /\ \A v \in Nat : v % s = 0 => \E k \in Nat : v = k * s
    BY <2>1a, Multiples
  <2>3. q \in Nat
    <3>1. 0 * s = 0
      OBVIOUS
    <3> QED BY <2>1, <2>2, <3>1
  <2>4. PICK b : b = [k \in 0..q |-> k * s]
    OBVIOUS
  <2>5. b \in Bijection(0..q, S)
    <3>1. ASSUME NEW k \in 0..q PROVE k * s \in S
      <4>1. PICK x \in Nat : x = k * s /\ x % s = 0 /\ x <= d
        BY <2>2, <2>3
      <4>2. x \in 0..n /\ x + a <= n
        BY <2>1, <4>1
      <4>3. x \in S
        BY <1>4, <4>1, <4>2
      <4> QED BY <4>1, <4>3
    <3>2. \A j, k \in 0..q : j * s = k * s => j = k
      BY <2>2
    <3>3. ASSUME NEW x \in S PROVE \E k \in 0..q : b[k] = x
      <4>1. x \in Nat /\ x % s = 0 /\ x <= d
        BY <1>4, <2>1
      <4>2. PICK k \in Nat : x = k * s
        BY <2>2, <4>1
      <4>3. k <= q
        BY <2>2, <4>1, <4>2
      <4> QED BY <2>3, <2>4, <4>2, <4>3
    <3>4. b \in [0..q -> S] /\ \A j, k \in 0..q : b[j] = b[k] => j = k
      BY <2>4, <3>1, <3>2
    <3> QED BY <3>3, <3>4 DEF Bijection, Injection, Surjection, IsInjective
  <2>6. IsFiniteSet(0..q) /\ Cardinality(0..q) = q + 1
    BY <2>3, FS_Interval
  <2>7. IsFiniteSet(S) /\ Cardinality(S) = q + 1
    <3>1. ExistsBijection(0..q, S)
      BY <2>5 DEF ExistsBijection
    <3> QED BY <2>6, <3>1, FS_Bijection
  <2>8. PICK c \in Nat : c = q + 1 /\ c # 0 /\ c - 1 = q
    BY <2>3
  <2>9. c * s > d /\ q * s <= d
    BY <2>2, <2>3, <2>8
  <2>10. PICK x \in Nat, y \in Nat : x = c * s /\ y = q * s
    BY <2>2, <2>3
  <2>11. x + a > n /\ y + a <= n
    BY <2>1, <2>9, <2>10
  <2>12. c * StepBars + InSample + OutSample > n /\ (c - 1) * StepBars + InSample + OutSample <= n
    BY <1>1, <1>2, <2>8, <2>10, <2>11
  <2>13. S # {}
    BY <2>7, <2>8, FS_EmptySet
  <2>14. ~(n < InSample + OutSample)
    BY <1>1, <1>6
  <2> QED BY <1>3, <2>7, <2>8, <2>12, <2>13, <2>14
<1> QED BY <1>5, <1>6

-----------------------------------------------------------------------------
(* The best set, the sums and the order *)

ChoiceType == [params : Params \cup {NoParams}, metric : Scores \cup {Worst}]

\* The loop of bestParams is a fold from the left.
LEMMA BestFold ==
    ASSUME NEW S, NEW ps \in Seq(S)
    PROVE  Best(ps) = FoldOf("best", ps, Nothing, 1..Len(ps))
<1> DEFINE Eq(g) == g = [t \in SUBSET DOMAIN ps |->
                           IF t = {} THEN Nothing
                           ELSE IF score[ps[Max(t)]] > g[t \ {Max(t)}].metric
                           THEN [params |-> ps[Max(t)], metric |-> score[ps[Max(t)]]]
                           ELSE g[t \ {Max(t)}]]
<1>1. DOMAIN ps = 1..Len(ps)
  OBVIOUS
<1>2. \A g : Eq(g) <=> Folding("best", ps, Nothing, 1..Len(ps), g)
  BY <1>1 DEF Folding, Combine, Taken
<1>3. Best(ps) = (CHOOSE g : Eq(g))[DOMAIN ps]
  BY DEF Best, FoldLeft, MapThenFoldSet
<1> HIDE DEF Eq
<1>4. (CHOOSE g : Eq(g)) = CHOOSE g : Folding("best", ps, Nothing, 1..Len(ps), g)
  BY <1>2
<1> QED BY <1>1, <1>3, <1>4 DEF FoldOf

\* One set more is compared with the best one so far.
LEMMA BetterIs ==
    ASSUME score \in [Params -> Scores], NEW b \in ChoiceType, NEW p \in Params,
           NEW c, c = IF score[p] > b.metric THEN [params |-> p, metric |-> score[p]] ELSE b
    PROVE  /\ c \in ChoiceType /\ score[p] <= c.metric /\ b.metric <= c.metric
           /\ b = Nothing => c.params = p
           /\ b.params \in Params => c.params \in Params
<1>1. PICK v \in Scores : v = score[p]
  OBVIOUS
<1>2. PICK m \in Scores \cup {Worst} : m = b.metric
  BY DEF ChoiceType
<1>3. v \in Int /\ m \in Int /\ Worst < v
  BY OptimizerConstantsOK DEF OptimizerConstantsOK
<1>4. CASE v > m
  <2>1. c = [params |-> p, metric |-> v]
    BY <1>1, <1>2, <1>4
  <2> QED BY <1>1, <1>2, <1>3, <1>4, <2>1 DEF ChoiceType
<1>5. CASE ~(v > m)
  <2>1. c = b
    BY <1>1, <1>2, <1>5
  <2>2. b # Nothing
    BY <1>2, <1>3, <1>5 DEF Nothing
  <2>3. v <= m
    BY <1>3, <1>5
  <2> QED BY <1>1, <1>2, <1>3, <2>1, <2>2, <2>3
<1> QED BY <1>4, <1>5

\* What bestParams returns scored no worse than any set in the channel.
LEMMA BestIs ==
    ASSUME score \in [Params -> Scores], NEW ps \in Seq(Params)
    PROVE  /\ Best(ps) \in ChoiceType
           /\ \A p \in ToSet(ps) : score[p] <= Best(ps).metric
           /\ ps # <<>> => Best(ps).params \in Params
<1>1. PICK n \in Nat : n = Len(ps) /\ DOMAIN ps = 1..n /\ \A i \in 1..n : ps[i] \in Params
  OBVIOUS
<1>2. PICK b : b = Nothing
  OBVIOUS
<1>3. PICK g : Folding("best", ps, b, 1..n, g) /\ FoldOf("best", ps, b, 1..n) = g[1..n]
  BY SequenceFolds
<1>4. /\ g[1..0] = b
      /\ \A i \in Nat : i + 1 <= n => g[1..(i + 1)] = Combine("best", ps, i + 1, g[1..i])
  <2>1. PICK k \in {"sum", "best"} : k = "best"
    OBVIOUS
  <2>2. Folding(k, ps, b, 1..n, g)
    BY <1>3, <2>1
  <2>3. StepByStep(k, ps, b, n, g)
    BY <2>2, FromTheLeft
  <2> QED BY <2>1, <2>3 DEF StepByStep
<1> DEFINE Good(i) == /\ g[1..i] \in ChoiceType
                      /\ \A j \in 1..i : score[ps[j]] <= g[1..i].metric
                      /\ IF i = 0 THEN g[1..i] = Nothing ELSE g[1..i].params \in Params
           T == {i \in Nat : i <= n => Good(i)}
<1>5. 0 \in T
  <2>1. Nothing \in ChoiceType
    BY DEF Nothing, ChoiceType
  <2>2. 1..0 = {}
    OBVIOUS
  <2>3. Good(0)
    BY <1>2, <1>4, <2>1, <2>2
  <2> HIDE DEF Good
  <2> QED BY <2>3
<1>6. ASSUME NEW i \in Nat, i \in T PROVE i + 1 \in T
  <2> SUFFICES ASSUME i + 1 <= n PROVE Good(i + 1)
    OBVIOUS
  <2>1. PICK a : a = g[1..i]
    OBVIOUS
  <2>2. /\ a \in ChoiceType /\ \A j \in 1..i : score[ps[j]] <= a.metric
        /\ IF i = 0 THEN a = Nothing ELSE a.params \in Params
    BY <1>6, <2>1
  <2>3. PICK p \in Params : p = ps[i + 1]
    BY <1>1
  <2>4. PICK c : c = IF score[p] > a.metric THEN [params |-> p, metric |-> score[p]] ELSE a
    OBVIOUS
  <2>5. g[1..(i + 1)] = c
    BY <1>4, <2>1, <2>3, <2>4 DEF Combine
  <2>6. /\ c \in ChoiceType /\ score[p] <= c.metric /\ a.metric <= c.metric
        /\ a = Nothing => c.params = p
        /\ a.params \in Params => c.params \in Params
    BY <2>2, <2>4, BetterIs
  <2>7. ASSUME NEW j \in 1..(i + 1) PROVE score[ps[j]] <= c.metric
    <3>1. CASE j = i + 1
      BY <2>3, <2>6, <3>1
    <3>2. CASE j # i + 1
      <4>1. j \in 1..i /\ j \in 1..n
        BY <3>2
      <4>2. score[ps[j]] <= a.metric
        BY <2>2, <4>1
      <4>3. PICK v \in Int : v = score[ps[j]]
        BY <1>1, <4>1, OptimizerConstantsOK DEF OptimizerConstantsOK
      <4>4. a.metric \in Int /\ c.metric \in Int
        BY <2>2, <2>6, OptimizerConstantsOK DEF OptimizerConstantsOK, ChoiceType
      <4> QED BY <2>6, <4>2, <4>3, <4>4
    <3> QED BY <3>1, <3>2
  <2>8. c.params \in Params
    BY <2>2, <2>6
  <2>9. i + 1 # 0
    OBVIOUS
  <2> QED BY <2>5, <2>6, <2>7, <2>8, <2>9
<1>7. n \in T
  <2> HIDE DEF T
  <2> QED BY <1>5, <1>6, NatSetInduction
<1>8. Good(n)
  <2> HIDE DEF Good
  <2> QED BY <1>7
<1>9. PICK c : c = Best(ps)
  OBVIOUS
<1>10. c = g[1..n]
  BY <1>1, <1>2, <1>3, <1>9, BestFold
<1>11. ps # <<>> => n # 0
  BY <1>1
<1>12. \A p \in ToSet(ps) : score[p] <= c.metric
  BY <1>1, <1>8, <1>10 DEF ToSet
<1> QED BY <1>8, <1>9, <1>10, <1>11, <1>12

\* g is a sum in which any element may be the last one added.
AnyOrder(d, S, g) ==
    \A s \in SUBSET S : g[s] \in Int /\ \A x \in s : g[s] = d[x].metric + g[s \ {x}]

\* The order in which FoldSet takes the windows does not matter.
LEMMA SumsAny ==
    ASSUME NEW S, IsFiniteSet(S), NEW d, \A x \in S : d[x].metric \in Int,
           NEW g, Folding("windows", d, 0, S, g)
    PROVE  AnyOrder(d, S, g)
<1>1. \A s \in SUBSET S : s # {} => \E c \in s : g[s] = g[s \ {c}] + d[c].metric
  BY DEF Folding, Combine, Taken
<1>2. g[{}] = 0
  BY DEF Folding
<1>3. PICK f : f = [x \in S |-> d[x].metric]
  OBVIOUS
<1>4. /\ \A x \in S : f[x] \in Int /\ f[x] = d[x].metric
      /\ \A s \in SUBSET S : s # {} => \E c \in s : g[s] = g[s \ {c}] + f[c]
  BY <1>1, <1>3
<1> DEFINE Additive(s) == g[s] \in Int /\ \A x \in s : g[s] = f[x] + g[s \ {x}]
           T == {n \in Nat : \A s \in UpTo(S, n) : Additive(s)}
<1>5. 0 \in T
  <2>1. UpTo(S, 0) = {{}}
    BY FS_Subset, FS_EmptySet, FS_CardinalityType DEF UpTo
  <2>2. Additive({})
    BY <1>2
  <2> HIDE DEF Additive
  <2> QED BY <2>1, <2>2
<1>6. ASSUME NEW n \in Nat, n \in T PROVE n + 1 \in T
  <2>1. ASSUME NEW s \in UpTo(S, n + 1) PROVE Additive(s)
    <3>1. CASE s = {}
      BY <1>2, <3>1
    <3>2. CASE s # {}
      <4>1. s \in SUBSET S
        BY DEF UpTo
      <4>2. PICK c \in s : g[s] = g[s \ {c}] + f[c]
        BY <1>4, <3>2, <4>1
      <4>3. \A y \in s : s \ {y} \in UpTo(S, n)
        BY OneLess
      <4>4. \A y \in s : Additive(s \ {y})
        BY <1>6, <4>3
      <4>5. g[s \ {c}] \in Int /\ f[c] \in Int
        BY <1>4, <4>1, <4>4
      <4>6. ASSUME NEW x \in s PROVE g[s] = f[x] + g[s \ {x}]
        <5>1. CASE x = c
          BY <4>2, <4>5, <5>1
        <5>2. CASE x # c
          <6>1. x \in s \ {c} /\ c \in s \ {x} /\ (s \ {c}) \ {x} = (s \ {x}) \ {c}
            BY <5>2
          <6>2. PICK r : r = (s \ {c}) \ {x}
            OBVIOUS
          <6>3. g[s \ {c}] = f[x] + g[r] /\ g[s \ {x}] = f[c] + g[r]
            BY <4>4, <6>1, <6>2
          <6>4. r \in UpTo(S, n)
            <7>1. r \in SUBSET S /\ r \subseteq s \ {c} /\ IsFiniteSet(s \ {c})
              BY <4>1, <6>2, FS_Subset
            <7>2. Cardinality(r) <= Cardinality(s \ {c}) /\ Cardinality(s \ {c}) <= n
                  /\ Cardinality(r) \in Int /\ Cardinality(s \ {c}) \in Int
              BY <4>3, <7>1, FS_Subset, FS_CardinalityType DEF UpTo
            <7> QED BY <7>1, <7>2 DEF UpTo
          <6>5. g[r] \in Int /\ f[x] \in Int
            BY <1>4, <1>6, <4>1, <6>4
          <6> QED BY <4>2, <4>5, <6>3, <6>5
        <5> QED BY <5>1, <5>2
      <4>7. g[s] \in Int
        BY <4>2, <4>5
      <4> QED BY <4>6, <4>7
    <3> QED BY <3>1, <3>2
  <2> QED BY <2>1
<1>7. PICK n \in Nat : n = Cardinality(S)
  BY FS_CardinalityType
<1>8. n \in T
  <2> HIDE DEF T
  <2> QED BY <1>5, <1>6, NatSetInduction
<1>9. UpTo(S, n) = SUBSET S
  BY <1>7, FS_Subset DEF UpTo
<1>10. \A s \in SUBSET S : Additive(s)
  <2> HIDE DEF Additive
  <2> QED BY <1>8, <1>9
<1> QED BY <1>4, <1>10 DEF AnyOrder

\* The loop of buildSummary is a fold from the left ...
SumIn(rs) == FoldLeft(LAMBDA a, r : a + r.in, 0, rs)
\* The loop of buildSummary is a fold from the left.
LEMMA SumFold ==
    ASSUME NEW S, NEW rs \in Seq(S)
    PROVE  SumIn(rs) = FoldOf("sum", rs, 0, 1..Len(rs))
<1> DEFINE Eq(g) == g = [t \in SUBSET DOMAIN rs |->
                           IF t = {} THEN 0 ELSE g[t \ {Max(t)}] + rs[Max(t)].in]
<1>1. DOMAIN rs = 1..Len(rs)
  OBVIOUS
<1>2. \A g : Eq(g) <=> Folding("sum", rs, 0, 1..Len(rs), g)
  BY <1>1 DEF Folding, Combine, Taken
<1>3. SumIn(rs) = (CHOOSE g : Eq(g))[DOMAIN rs]
  BY DEF SumIn, FoldLeft, MapThenFoldSet
<1> HIDE DEF Eq
<1>4. (CHOOSE g : Eq(g)) = CHOOSE g : Folding("sum", rs, 0, 1..Len(rs), g)
  BY <1>2
<1> QED BY <1>1, <1>3, <1>4 DEF FoldOf

\* ... and the sum it is compared with a fold over the windows.
SumChosen(S) == FoldSet(LAMBDA w, a : a + chosen[w].metric, 0, S)
\* The sum over the windows is a fold that CHOOSE orders.
LEMMA ChosenFold ==
    ASSUME NEW S, IsFiniteSet(S)
    PROVE  \E g : Folding("windows", chosen, 0, S, g) /\ SumChosen(S) = g[S]
<1> DEFINE Eq(g) == g = [t \in SUBSET S |->
                           IF t = {} THEN 0
                           ELSE g[t \ {CHOOSE x \in t : TRUE}] + chosen[CHOOSE x \in t : TRUE].metric]
<1>1. \A g : Eq(g) <=> Folding("windows", chosen, 0, S, g)
  BY DEF Folding, Combine, Taken
<1>2. SumChosen(S) = (CHOOSE g : Eq(g))[S]
  BY DEF SumChosen, FoldSet, MapThenFoldSet
<1>3. \A t \in SUBSET S : t # {} => Taken("windows", t) \in t
  BY DEF Taken
<1>4. \E g : Folding("windows", chosen, 0, S, g)
  BY <1>3, FoldingExists
<1> HIDE DEF Eq
<1>5. Eq(CHOOSE g : Eq(g))
  BY <1>1, <1>4
<1> QED BY <1>1, <1>2, <1>5

\* One result for each window of S, with the metric that was chosen: the sums agree.
LEMMA SumsAgree ==
    ASSUME NEW R, NEW rs \in Seq(R), NEW S, IsFiniteSet(S),
           \A w \in S : chosen[w].metric \in Int,
           \A i \in DOMAIN rs : rs[i].window \in S /\ rs[i].in = chosen[rs[i].window].metric,
           \A i, j \in DOMAIN rs : rs[i].window = rs[j].window => i = j,
           \A w \in S : \E i \in DOMAIN rs : rs[i].window = w
    PROVE  SumIn(rs) = SumChosen(S)
<1>1. PICK n \in Nat : n = Len(rs) /\ DOMAIN rs = 1..n
  OBVIOUS
<1>2. PICK g : Folding("windows", chosen, 0, S, g) /\ SumChosen(S) = g[S]
  BY ChosenFold
<1>3. \A s \in SUBSET S : g[s] \in Int /\ \A x \in s : g[s] = chosen[x].metric + g[s \ {x}]
  <2>1. AnyOrder(chosen, S, g)
    BY <1>2, SumsAny
  <2> QED BY <2>1 DEF AnyOrder
<1>4. PICK f : Folding("sum", rs, 0, 1..n, f) /\ FoldOf("sum", rs, 0, 1..n) = f[1..n]
  BY SequenceFolds
<1>5. /\ f[1..0] = 0
      /\ \A i \in Nat : i + 1 <= n => f[1..(i + 1)] = f[1..i] + rs[i + 1].in
  <2>1. PICK k \in {"sum", "best"} : k = "sum"
    OBVIOUS
  <2>2. Folding(k, rs, 0, 1..n, f)
    BY <1>4, <2>1
  <2>3. StepByStep(k, rs, 0, n, f)
    BY <2>2, FromTheLeft
  <2> QED BY <2>1, <2>3 DEF StepByStep, Combine
<1>6. PICK v : v = [i \in 1..n |-> rs[i].window]
  OBVIOUS
<1>7. /\ \A i \in 1..n : v[i] \in S /\ rs[i].in = chosen[v[i]].metric
      /\ \A i, j \in 1..n : v[i] = v[j] => i = j
      /\ \A w \in S : \E i \in 1..n : v[i] = w
  BY <1>1, <1>6
<1> DEFINE Seen(i) == {v[j] : j \in 1..i}
           T == {i \in Nat : i <= n => f[1..i] = g[Seen(i)]}
<1>8. 0 \in T
  <2>1. 1..0 = {}
    OBVIOUS
  <2>2. Seen(0) = {} /\ g[{}] = 0
    BY <1>2, <2>1 DEF Folding
  <2> QED BY <1>5, <2>2
<1>9. ASSUME NEW i \in Nat, i \in T PROVE i + 1 \in T
  <2> SUFFICES ASSUME i + 1 <= n PROVE f[1..(i + 1)] = g[Seen(i + 1)]
    OBVIOUS
  <2>1. i + 1 \in 1..n /\ \A j \in 1..i : j \in 1..n /\ j # i + 1
    OBVIOUS
  <2>2. PICK w : w = v[i + 1] /\ w \in S
    BY <1>7, <2>1
  <2>3. PICK m : m = chosen[w].metric
    OBVIOUS
  <2>4. PICK s \in SUBSET S : s = Seen(i)
    <3>1. \A j \in 1..i : v[j] \in S
      BY <1>7, <2>1
    <3>2. Seen(i) \in SUBSET S
      BY <3>1
    <3> HIDE DEF Seen
    <3> QED BY <3>2
  <2>5. \A j : j \in 1..(i + 1) <=> j \in 1..i \/ j = i + 1
    OBVIOUS
  <2>6. Seen(i + 1) = s \cup {w} /\ w \notin s
    <3>1. Seen(i + 1) = s \cup {w}
      BY <2>2, <2>4, <2>5
    <3>2. \A j \in 1..i : v[j] # w
      BY <1>7, <2>1, <2>2
    <3>3. w \notin s
      BY <2>4, <3>2
    <3> QED BY <3>1, <3>3
  <2> HIDE DEF Seen
  <2>7. PICK u \in SUBSET S : u = s \cup {w} /\ w \in u /\ u \ {w} = s
    BY <2>2, <2>6
  <2>8. g[u] = m + g[s] /\ g[s] \in Int /\ m \in Int
    <3>1. \A x \in u : g[u] = chosen[x].metric + g[u \ {x}]
      BY <1>3
    <3>2. g[u] = chosen[w].metric + g[u \ {w}]
      BY <2>7, <3>1
    <3>3. g[s] \in Int /\ chosen[w].metric \in Int
      BY <1>3, <2>2
    <3> QED BY <2>3, <2>7, <3>2, <3>3
  <2>9. f[1..(i + 1)] = f[1..i] + m
    BY <1>5, <1>7, <2>1, <2>2, <2>3
  <2>10. f[1..i] = g[s]
    <3>1. i <= n
      OBVIOUS
    <3> QED BY <1>9, <2>4, <3>1
  <2>11. f[1..(i + 1)] = g[u]
    BY <2>8, <2>9, <2>10
  <2>12. u = Seen(i + 1)
    BY <2>6, <2>7
  <2> QED BY <2>11, <2>12
<1>10. n \in T
  <2> HIDE DEF T
  <2> QED BY <1>8, <1>9, NatSetInduction
<1>11. Seen(n) = S
  BY <1>7
<1>12. f[1..n] = g[S]
  <2> HIDE DEF Seen
  <2> QED BY <1>10, <1>11
<1>13. SumIn(rs) = f[1..n]
  BY <1>1, <1>4, SumFold
<1> QED BY <1>2, <1>12, <1>13

\* The first of the sorted results is one of the best.
LEMMA FirstIsBest ==
    ASSUME NEW n \in Nat, NEW f \in [1..n -> Int],
           \A i \in 1..n - 1 : f[i] >= f[i + 1]
    PROVE  \A i \in 1..n : f[1] >= f[i]
<1> DEFINE T == {i \in Nat : i + 1 \in 1..n => f[1] >= f[i + 1]}
<1>1. 0 \in T
  OBVIOUS
<1>2. ASSUME NEW i \in Nat, i \in T PROVE i + 1 \in T
  <2> SUFFICES ASSUME (i + 1) + 1 \in 1..n PROVE f[1] >= f[(i + 1) + 1]
    OBVIOUS
  <2>1. PICK j \in 1..n - 1 : j = i + 1
    OBVIOUS
  <2>2. j \in 1..n /\ j + 1 \in 1..n /\ 1 \in 1..n
    BY <2>1
  <2>3. f[1] >= f[j] /\ f[j] >= f[j + 1]
    BY <1>2, <2>1, <2>2
  <2>4. f[1] \in Int /\ f[j] \in Int /\ f[j + 1] \in Int
    BY <2>2
  <2>5. f[1] >= f[j + 1]
    BY <2>3, <2>4
  <2> QED BY <2>1, <2>5
<1>3. ASSUME NEW i \in 1..n PROVE f[1] >= f[i]
  <2>1. PICK j \in Nat : i = j + 1
    <3>1. i - 1 \in Nat /\ i = (i - 1) + 1
      OBVIOUS
    <3> QED BY <3>1
  <2>2. j \in T
    <3> HIDE DEF T
    <3> QED BY <1>1, <1>2, NatSetInduction
  <2> QED BY <2>1, <2>2
<1> QED BY <1>3

-----------------------------------------------------------------------------
(* The inductive invariant *)

\* The channel has each trial that was made once, and every trial that has ended
\* unless the search was cancelled.
Trials ==
    /\ NoRepeats(scored)
    /\ \A p \in ToSet(scored) : trial[p] = "ended"
    /\ ~ctxDone => \A p \in Params : trial[p] = "ended" => p \in ToSet(scored)

\* Run has started the out-of-sample goroutines of the windows it has passed.
Passed ==
    /\ \A w \in MaxWindows : out[w] # "none" <=> w < window
    /\ run = "refused" <=> Starts(total) = {}
    /\ run = "returned" => window \notin Windows /\ \A w \in Windows : out[w] = "ended"

\* There is one result for each of them that has ended, with the window's own choice.
Reported ==
    /\ \A i \in DOMAIN results :
          /\ out[results[i].window] = "ended"
          /\ results[i].params = chosen[results[i].window].params
          /\ results[i].in = chosen[results[i].window].metric
    /\ \A i, j \in DOMAIN results : results[i].window = results[j].window => i = j
    /\ \A w \in MaxWindows : out[w] = "ended" => \E i \in DOMAIN results : results[i].window = w

\* In the end they are sorted.
Sorted ==
    run = "returned" => \A i \in 1..Len(results) - 1 : results[i].out >= results[i + 1].out

OptimizerInv == TypeOK /\ Trials /\ Passed /\ Reported /\ Sorted

\* As many windows as there are first bars, and the largest candle count may allow more.
LEMMA WindowsAre ==
    ASSUME total \in CandleCounts
    PROVE  \E c \in Nat :
              /\ Windows = 1..c /\ Cardinality(Windows) = c
              /\ Windows \subseteq MaxWindows /\ MaxWindows \subseteq Nat \ {0}
              /\ Starts(total) = {} <=> c = 0
<1>1. \A n \in CandleCounts : n \in Nat
  BY OptimizerConstantsOK DEF OptimizerConstantsOK
<1>2. PICK c \in Nat : Cardinality(Starts(total)) = c /\ (c = 0 <=> Starts(total) = {})
  BY <1>1, StartsAre
<1>3. Windows = 1..c
  BY <1>2 DEF Windows
<1>4. Cardinality(1..c) = c
  <2>1. c \in Int /\ (1 > c => c = 0) /\ c - 1 + 1 = c
    OBVIOUS
  <2> QED BY <2>1, FS_Interval
<1>5. Windows \subseteq MaxWindows
  BY DEF Windows, MaxWindows
<1>6. \A n \in CandleCounts : Cardinality(Starts(n)) \in Nat
  BY <1>1, StartsAre
<1>7. MaxWindows \subseteq Nat \ {0}
  BY <1>6 DEF MaxWindows
<1> QED BY <1>2, <1>3, <1>4, <1>5, <1>7

\* The goroutines that hold a slot, of the present window and of those before.
TrialsRunning == {p \in Params : trial[p] = "running"}
OutRunning == {w \in MaxWindows : out[w] = "running"}

\* The goroutines that hold a slot can be counted.
LEMMA RunningFinite ==
    ASSUME TypeOK, Passed
    PROVE  /\ IsFiniteSet(TrialsRunning) /\ Cardinality(TrialsRunning) \in Nat
           /\ IsFiniteSet(OutRunning) /\ Cardinality(OutRunning) \in Nat
           /\ Holding = Cardinality(TrialsRunning) + Cardinality(OutRunning)
           /\ Workers \in Nat
<1>1. PICK c \in Nat : Cardinality(Windows) = c /\ MaxWindows \subseteq Nat \ {0}
  BY WindowsAre DEF TypeOK
<1>2. IsFiniteSet(1..c)
  BY FS_Interval
<1>3. OutRunning \subseteq 1..c
  <2>1. window \in 1..c + 1
    BY <1>1 DEF TypeOK
  <2>2. \A w \in OutRunning : w \in Nat \ {0} /\ w < window
    BY <1>1 DEF OutRunning, Passed
  <2> QED BY <2>1, <2>2
<1>4. IsFiniteSet(OutRunning)
  BY <1>2, <1>3, FS_Subset
<1>5. IsFiniteSet(TrialsRunning)
  BY ParamsAre, FS_Subset DEF TrialsRunning
<1>6. Cardinality(TrialsRunning) \in Nat /\ Cardinality(OutRunning) \in Nat
  BY <1>4, <1>5, FS_CardinalityType
<1>7. Holding = Cardinality(TrialsRunning) + Cardinality(OutRunning)
  BY DEF Holding, TrialsRunning, OutRunning
<1> QED BY <1>4, <1>5, <1>6, <1>7, OptimizerConstantsOK DEF OptimizerConstantsOK

\* Initially no window is passed and nothing is tried.
LEMMA InitInv == Init => OptimizerInv
<1> SUFFICES ASSUME Init PROVE OptimizerInv
  OBVIOUS
<1>1. PICK c \in Nat :
         /\ Windows = 1..c /\ Cardinality(Windows) = c
         /\ Windows \subseteq MaxWindows /\ MaxWindows \subseteq Nat \ {0}
         /\ Starts(total) = {} <=> c = 0
  BY WindowsAre DEF Init
<1>2. Trials
  BY DEF Init, Trials, NoRepeats, ToSet, Idle
<1>3. Passed
  BY <1>1 DEF Init, Passed
<1>4. Reported
  BY DEF Init, Reported
<1>5. Sorted
  BY DEF Init, Sorted
<1>6. Holding <= Workers
  <2>1. {p \in Params : trial[p] = "running"} = {} /\ {w \in MaxWindows : out[w] = "running"} = {}
    BY DEF Init, Idle
  <2>2. Holding = 0
    BY <2>1, FS_EmptySet DEF Holding
  <2> QED BY <2>2, OptimizerConstantsOK DEF OptimizerConstantsOK
<1>7. window \in 1..Cardinality(Windows) + 1
  BY <1>1 DEF Init
<1>8. scored \in Seq(Params) /\ Len(scored) <= Cardinality(Params)
  <2>1. Cardinality(Params) \in Nat
    BY ParamsAre, FS_CardinalityType
  <2> QED BY <2>1 DEF Init
<1>9. /\ trial \in [Params -> {"none", "waiting", "running", "ended"}]
      /\ out \in [MaxWindows -> {"none", "waiting", "running", "ended"}]
      /\ chosen \in [MaxWindows -> [params : Params \cup {NoParams}, metric : Scores \cup {Worst}]]
  BY DEF Init, Idle, Nothing
<1>10. /\ results \in Seq([window : Windows, params : Params \cup {NoParams},
                        in : Scores \cup {Worst}, out : Scores])
       /\ ctxDone \in BOOLEAN /\ run \in {"search", "returned", "refused"}
  <2>1. \A T : <<>> \in Seq(T)
    OBVIOUS
  <2>2. results = <<>> /\ ctxDone = FALSE /\ run \in {"search", "refused"}
    BY DEF Init
  <2> QED BY <2>1, <2>2
<1>11. TypeOK
  BY <1>6, <1>7, <1>8, <1>9, <1>10 DEF Init, TypeOK
<1> QED BY <1>2, <1>3, <1>4, <1>5, <1>11 DEF OptimizerInv

\* The trials of a window are all started at once.
LEMMA StartTrialsStep == ASSUME OptimizerInv, StartTrials PROVE OptimizerInv'
<1> USE DEF OptimizerInv
<1>1. \A p \in Params : trial[p] = "none" /\ trial'[p] = "waiting"
  BY DEF StartTrials, Idle
<1>2. Holding' = Holding
  <2>1. {p \in Params : trial'[p] = "running"} = {p \in Params : trial[p] = "running"}
    BY <1>1
  <2> QED BY <2>1 DEF Holding, StartTrials, MaxWindows, Starts
<1>3. trial' \in [Params -> {"none", "waiting", "running", "ended"}]
  BY DEF StartTrials
<1>4. TypeOK'
  BY <1>2, <1>3 DEF TypeOK, StartTrials, Windows, Starts
<1>5. ToSet(scored) = {}
  <2>1. \A p \in ToSet(scored) : p \in Params
    BY DEF TypeOK, ToSet
  <2> QED BY <1>1, <2>1 DEF Trials
<1>6. Trials'
  BY <1>1, <1>5 DEF Trials, StartTrials
<1>7. Passed' /\ Reported' /\ Sorted'
  BY DEF Passed, Reported, Sorted, StartTrials, Windows, Starts
<1> QED BY <1>4, <1>6, <1>7

ResultType == [window : Windows, params : Params \cup {NoParams},
               in : Scores \cup {Worst}, out : Scores]

\* What a result has.
LEMMA ResultsHave ==
    ASSUME TypeOK
    PROVE  /\ results \in Seq(ResultType) /\ DOMAIN results = 1..Len(results)
           /\ \A i \in DOMAIN results : results[i] \in ResultType
           /\ \A r \in ResultType : r.window \in Windows /\ r.out \in Scores
<1>1. results \in Seq(ResultType)
  BY DEF TypeOK, ResultType
<1>2. \A r \in ResultType : r.window \in Windows /\ r.out \in Scores
  BY DEF ResultType
<1>3. PICK T : T = ResultType
  OBVIOUS
<1>4. DOMAIN results = 1..Len(results) /\ \A i \in DOMAIN results : results[i] \in T
  BY <1>1, <1>3
<1> QED BY <1>1, <1>2, <1>3, <1>4

TrialStates == {"none", "waiting", "running", "ended"}

\* One more holds a slot when a goroutine gets it that had none.
LEMMA SlotTaken ==
    ASSUME NEW S, IsFiniteSet(S), NEW x, x \notin S
    PROVE  Cardinality(S \cup {x}) = Cardinality(S) + 1
BY FS_AddElement

\* One less does when one gives it back.
LEMMA SlotGiven ==
    ASSUME NEW S, IsFiniteSet(S), NEW x, x \in S
    PROVE  Cardinality(S \ {x}) = Cardinality(S) - 1
BY FS_RemoveElement

\* A trial takes a free slot, or gives it back at once.
LEMMA BeginStep == ASSUME OptimizerInv, NEW p \in Params, Begin(p) PROVE OptimizerInv'
<1> USE DEF OptimizerInv
<1>1. PICK next \in {"ended", "running"} : next = IF ctxDone THEN "ended" ELSE "running"
  OBVIOUS
<1>2. /\ trial[p] = "waiting" /\ trial' = [trial EXCEPT ![p] = next] /\ SlotFree
      /\ UNCHANGED <<total, score, window, scored, out, chosen, results, ctxDone, run>>
  BY <1>1 DEF Begin
<1>3. trial \in [Params -> TrialStates]
  BY DEF TypeOK, TrialStates
<1>4. trial' \in [Params -> TrialStates] /\ trial'[p] = next
      /\ \A q \in Params : q # p => trial'[q] = trial[q]
  BY <1>2, <1>3 DEF TrialStates
<1>5. Holding' <= Workers
  <2>1. PICK R, O : R = TrialsRunning /\ O = OutRunning
    OBVIOUS
  <2>2. /\ IsFiniteSet(R) /\ Cardinality(R) \in Nat /\ Cardinality(O) \in Nat
        /\ Cardinality(R) + Cardinality(O) < Workers /\ Workers \in Nat
    BY <1>2, <2>1, RunningFinite DEF SlotFree
  <2>3. OutRunning' = O
    BY <1>2, <2>1 DEF OutRunning, MaxWindows, Starts
  <2>4. Holding' = Cardinality(TrialsRunning') + Cardinality(O)
    <3>1. Holding' = Cardinality(TrialsRunning') + Cardinality(OutRunning')
      BY DEF Holding, TrialsRunning, OutRunning
    <3> QED BY <2>3, <3>1
  <2>5. CASE next = "ended"
    <3>1. TrialsRunning' = R
      BY <1>2, <1>4, <2>1, <2>5 DEF TrialsRunning
    <3> QED BY <2>2, <2>4, <3>1
  <2>6. CASE next = "running"
    <3>1. TrialsRunning' = R \cup {p} /\ p \notin R
      BY <1>2, <1>4, <2>1, <2>6 DEF TrialsRunning
    <3>2. Cardinality(TrialsRunning') = Cardinality(R) + 1
      BY <2>2, <3>1, SlotTaken
    <3> QED BY <2>2, <2>4, <3>2
  <2> QED BY <2>5, <2>6
<1>6. TypeOK'
  <2>1. trial' \in [Params -> {"none", "waiting", "running", "ended"}]
    BY <1>4 DEF TrialStates
  <2> QED BY <1>2, <1>5, <2>1 DEF TypeOK, Windows, Starts
<1>7. Trials'
  <2>1. p \notin ToSet(scored) /\ \A q \in ToSet(scored) : q \in Params
    BY <1>2 DEF Trials, TypeOK, ToSet
  <2>2. ~ctxDone => next # "ended"
    BY <1>1
  <2>3. \A q \in ToSet(scored) : trial'[q] = "ended"
    BY <1>4, <2>1 DEF Trials
  <2>4. ~ctxDone => \A q \in Params : trial'[q] = "ended" => q \in ToSet(scored)
    BY <1>4, <2>2 DEF Trials
  <2> QED BY <1>2, <2>3, <2>4 DEF Trials
<1>8. Passed' /\ Reported' /\ Sorted'
  BY <1>2 DEF Passed, Reported, Sorted, Windows, Starts, MaxWindows
<1> QED BY <1>6, <1>7, <1>8

\* A trial that ends is in the channel, once, and gives its slot back.
LEMMA FinishStep == ASSUME OptimizerInv, NEW p \in Params, Finish(p) PROVE OptimizerInv'
<1> USE DEF OptimizerInv
<1>2. /\ trial[p] = "running" /\ trial' = [trial EXCEPT ![p] = "ended"]
      /\ scored' = Append(scored, p)
      /\ UNCHANGED <<total, score, window, out, chosen, results, ctxDone, run>>
  BY DEF Finish
<1>3. trial \in [Params -> TrialStates]
  BY DEF TypeOK, TrialStates
<1>4. trial' \in [Params -> TrialStates] /\ trial'[p] = "ended"
      /\ \A q \in Params : q # p => trial'[q] = trial[q]
  BY <1>2, <1>3 DEF TrialStates
<1>5. Holding' <= Workers
  <2>1. PICK R, O : R = TrialsRunning /\ O = OutRunning
    OBVIOUS
  <2>2. /\ IsFiniteSet(R) /\ Cardinality(R) \in Nat /\ Cardinality(O) \in Nat
        /\ Cardinality(R) + Cardinality(O) <= Workers /\ Workers \in Nat
    BY <2>1, RunningFinite DEF TypeOK
  <2>3. OutRunning' = O
    BY <1>2, <2>1 DEF OutRunning, MaxWindows, Starts
  <2>4. Holding' = Cardinality(TrialsRunning') + Cardinality(O)
    <3>1. Holding' = Cardinality(TrialsRunning') + Cardinality(OutRunning')
      BY DEF Holding, TrialsRunning, OutRunning
    <3> QED BY <2>3, <3>1
  <2>5. TrialsRunning' = R \ {p} /\ p \in R
    BY <1>2, <1>4, <2>1 DEF TrialsRunning
  <2>6. Cardinality(TrialsRunning') = Cardinality(R) - 1
    BY <2>2, <2>5, SlotGiven
  <2> QED BY <2>2, <2>4, <2>6
<1>6. p \notin ToSet(scored) /\ \A q \in ToSet(scored) : q \in Params
  BY <1>2 DEF Trials, TypeOK, ToSet
<1>7. scored' \in Seq(Params) /\ ToSet(scored') = ToSet(scored) \cup {p}
  <2>1. scored \in Seq(Params)
    BY DEF TypeOK
  <2> QED BY <1>2, <2>1 DEF ToSet
<1>8. NoRepeats(scored')
  <2>1. PICK s \in Seq(Params) : s = scored
    BY DEF TypeOK
  <2>2. \A i \in 1..Len(s) : s[i] # p
    BY <1>6, <2>1 DEF ToSet
  <2>3. \A i, j \in 1..Len(s) : s[i] = s[j] => i = j
    BY <2>1 DEF Trials, NoRepeats
  <2>4. \A i, j \in DOMAIN Append(s, p) : Append(s, p)[i] = Append(s, p)[j] => i = j
    BY <2>2, <2>3
  <2> QED BY <1>2, <2>1, <2>4 DEF NoRepeats
<1>9. Len(scored') <= Cardinality(Params)
  <2>1. Cardinality(ToSet(scored')) = Len(scored')
    BY <1>7, <1>8, AsManyAs
  <2>2. ToSet(scored') \subseteq Params
    BY <1>6, <1>7
  <2> QED BY <2>1, <2>2, ParamsAre, FS_Subset
<1>10. TypeOK'
  <2>1. trial' \in [Params -> {"none", "waiting", "running", "ended"}]
    BY <1>4 DEF TrialStates
  <2> QED BY <1>2, <1>5, <1>7, <1>9, <2>1 DEF TypeOK, Windows, Starts
<1>11. Trials'
  <2>1. \A q \in ToSet(scored') : trial'[q] = "ended"
    BY <1>4, <1>6, <1>7 DEF Trials
  <2>2. ~ctxDone => \A q \in Params : trial'[q] = "ended" => q \in ToSet(scored')
    BY <1>4, <1>7 DEF Trials
  <2> QED BY <1>2, <1>8, <2>1, <2>2 DEF Trials
<1>12. Passed' /\ Reported' /\ Sorted'
  BY <1>2 DEF Passed, Reported, Sorted, Windows, Starts, MaxWindows
<1> QED BY <1>10, <1>11, <1>12

\* The next window's trials are none; this window's out-of-sample run waits.
LEMMA ChooseStep == ASSUME OptimizerInv, Choose PROVE OptimizerInv'
<1> USE DEF OptimizerInv
<1>1. PICK c \in Nat :
         /\ Windows = 1..c /\ Cardinality(Windows) = c
         /\ Windows \subseteq MaxWindows /\ MaxWindows \subseteq Nat \ {0}
  BY WindowsAre DEF TypeOK
<1>2. /\ run = "search" /\ window \in 1..c /\ window \in MaxWindows
      /\ chosen' = [chosen EXCEPT ![window] = Best(scored)]
      /\ out' = [out EXCEPT ![window] = "waiting"]
      /\ window' = window + 1 /\ trial' = Idle /\ scored' = <<>>
      /\ score' \in [Params -> Scores]
      /\ UNCHANGED <<total, results, ctxDone, run>>
  BY <1>1 DEF Choose
<1>3. MaxWindows' = MaxWindows /\ Windows' = Windows
  BY <1>2 DEF MaxWindows, Windows, Starts
<1>4. out \in [MaxWindows -> TrialStates] /\ out[window] = "none"
  <2>1. out \in [MaxWindows -> TrialStates]
    BY DEF TypeOK, TrialStates
  <2>2. ~(window < window)
    BY <1>2
  <2> QED BY <1>2, <2>1, <2>2 DEF Passed
<1>5. out' \in [MaxWindows -> TrialStates] /\ out'[window] = "waiting"
      /\ \A w \in MaxWindows : w # window => out'[w] = out[w]
  BY <1>2, <1>4 DEF TrialStates
<1>6. Holding' <= Workers
  <2>1. PICK O : O = OutRunning
    OBVIOUS
  <2>2. /\ Cardinality(TrialsRunning) \in Nat /\ Cardinality(O) \in Nat /\ Workers \in Nat
        /\ Cardinality(TrialsRunning) + Cardinality(O) <= Workers
    BY <2>1, RunningFinite DEF TypeOK
  <2>3. OutRunning' = O
    BY <1>3, <1>4, <1>5, <2>1 DEF OutRunning
  <2>4. TrialsRunning' = {}
    BY <1>2 DEF TrialsRunning, Idle
  <2>5. Holding' = Cardinality(TrialsRunning') + Cardinality(OutRunning')
    BY DEF Holding, TrialsRunning, OutRunning
  <2>6. Holding' = Cardinality(O)
    BY <2>2, <2>3, <2>4, <2>5, FS_EmptySet
  <2> QED BY <2>2, <2>6
<1>7. chosen' \in [MaxWindows -> ChoiceType]
  <2>1. Best(scored) \in ChoiceType
    BY BestIs DEF TypeOK
  <2>2. chosen \in [MaxWindows -> ChoiceType]
    BY DEF TypeOK, ChoiceType
  <2> QED BY <1>2, <2>1, <2>2
<1>8. TypeOK'
  <2>1. trial' \in [Params -> {"none", "waiting", "running", "ended"}]
    BY <1>2 DEF Idle
  <2>2. out' \in [MaxWindows -> {"none", "waiting", "running", "ended"}]
    BY <1>5 DEF TrialStates
  <2>3. scored' \in Seq(Params) /\ Len(scored') <= Cardinality(Params)
    <3>1. Cardinality(Params) \in Nat
      BY ParamsAre, FS_CardinalityType
    <3>2. \A T : <<>> \in Seq(T) /\ Len(<<>>) = 0
      OBVIOUS
    <3> QED BY <1>2, <3>1, <3>2
  <2>4. window' \in 1..Cardinality(Windows) + 1
    BY <1>1, <1>2
  <2>5. chosen' \in [MaxWindows -> [params : Params \cup {NoParams}, metric : Scores \cup {Worst}]]
    BY <1>7 DEF ChoiceType
  <2>6. /\ total' \in CandleCounts /\ ctxDone' \in BOOLEAN /\ run' \in {"search", "returned", "refused"}
        /\ results' \in Seq([window : Windows, params : Params \cup {NoParams},
                        in : Scores \cup {Worst}, out : Scores])
    BY <1>2 DEF TypeOK
  <2> QED BY <1>2, <1>3, <1>6, <2>1, <2>2, <2>3, <2>4, <2>5, <2>6 DEF TypeOK
<1>9. Trials'
  BY <1>2 DEF Trials, NoRepeats, ToSet, Idle
<1>10. Passed'
  <2>1. \A w \in MaxWindows : out'[w] # "none" <=> w < window + 1
    <3>1. ASSUME NEW w \in MaxWindows PROVE out'[w] # "none" <=> w < window + 1
      <4>1. CASE w = window
        BY <1>2, <1>5, <4>1
      <4>2. CASE w # window
        <5>1. w \in Nat /\ window \in Nat
          BY <1>1, <1>2
        <5>2. w < window + 1 <=> w < window
          BY <4>2, <5>1
        <5> QED BY <1>5, <4>2, <5>2 DEF Passed
      <4> QED BY <4>1, <4>2
    <3> QED BY <3>1
  <2>2. run' = "search" /\ Starts(total)' = Starts(total)
    BY <1>2 DEF Starts
  <2> QED BY <1>2, <1>3, <2>1, <2>2 DEF Passed
<1>11. Reported'
  <2>1. \A i \in DOMAIN results : results[i].window \in MaxWindows
    BY <1>1, ResultsHave
  <2>2. chosen \in [MaxWindows -> ChoiceType]
    BY DEF TypeOK, ChoiceType
  <2>3. \A w \in MaxWindows : w # window => chosen'[w] = chosen[w]
    BY <1>2, <2>2
  <2>4. \A i \in DOMAIN results : results[i].window # window
    BY <1>4 DEF Reported
  <2>5. \A i \in DOMAIN results :
           /\ out'[results[i].window] = "ended"
           /\ results[i].params = chosen'[results[i].window].params
           /\ results[i].in = chosen'[results[i].window].metric
    BY <1>5, <2>1, <2>3, <2>4 DEF Reported
  <2>6. \A w \in MaxWindows : out'[w] = "ended" => \E i \in DOMAIN results : results[i].window = w
    BY <1>5 DEF Reported
  <2> QED BY <1>2, <1>3, <2>5, <2>6 DEF Reported
<1>12. Sorted'
  BY <1>2 DEF Sorted
<1> QED BY <1>8, <1>9, <1>10, <1>11, <1>12

\* An out-of-sample run takes a free slot.
LEMMA BeginOutStep ==
    ASSUME OptimizerInv, NEW w \in MaxWindows, BeginOut(w) PROVE OptimizerInv'
<1> USE DEF OptimizerInv
<1>1. /\ out[w] = "waiting" /\ out' = [out EXCEPT ![w] = "running"] /\ SlotFree
      /\ UNCHANGED <<total, score, window, trial, scored, chosen, results, ctxDone, run>>
  BY DEF BeginOut
<1>2. MaxWindows' = MaxWindows /\ Windows' = Windows /\ Starts(total)' = Starts(total)
  BY <1>1 DEF MaxWindows, Windows, Starts
<1>3. out \in [MaxWindows -> TrialStates]
  BY DEF TypeOK, TrialStates
<1>4. out' \in [MaxWindows -> TrialStates] /\ out'[w] = "running"
      /\ \A v \in MaxWindows : v # w => out'[v] = out[v]
  BY <1>1, <1>3 DEF TrialStates
<1>5. Holding' <= Workers
  <2>1. PICK R, O : R = TrialsRunning /\ O = OutRunning
    OBVIOUS
  <2>2. /\ IsFiniteSet(O) /\ Cardinality(R) \in Nat /\ Cardinality(O) \in Nat
        /\ Cardinality(R) + Cardinality(O) < Workers /\ Workers \in Nat
    BY <1>1, <2>1, RunningFinite DEF SlotFree
  <2>3. TrialsRunning' = R
    BY <1>1, <2>1 DEF TrialsRunning
  <2>4. Holding' = Cardinality(TrialsRunning') + Cardinality(OutRunning')
    BY DEF Holding, TrialsRunning, OutRunning
  <2>5. OutRunning' = O \cup {w} /\ w \notin O
    BY <1>1, <1>2, <1>4, <2>1 DEF OutRunning
  <2>6. Cardinality(OutRunning') = Cardinality(O) + 1
    BY <2>2, <2>5, SlotTaken
  <2> QED BY <2>2, <2>3, <2>4, <2>6
<1>6. TypeOK'
  <2>1. out' \in [MaxWindows -> {"none", "waiting", "running", "ended"}]
    BY <1>4 DEF TrialStates
  <2> QED BY <1>1, <1>2, <1>5, <2>1 DEF TypeOK
<1>7. Trials' /\ Sorted'
  BY <1>1 DEF Trials, Sorted
<1>8. Passed'
  <2>1. \A v \in MaxWindows : out'[v] # "none" <=> out[v] # "none"
    BY <1>1, <1>4
  <2>2. \A v \in MaxWindows : out[v] = "ended" => out'[v] = "ended"
    BY <1>1, <1>4
  <2>3. PICK c \in Nat : Windows \subseteq MaxWindows
    BY WindowsAre DEF TypeOK
  <2> QED BY <1>1, <1>2, <2>1, <2>2, <2>3 DEF Passed
<1>9. Reported'
  <2>1. \A v \in MaxWindows : out'[v] = "ended" <=> out[v] = "ended"
    BY <1>1, <1>4
  <2>2. \A i \in DOMAIN results : results[i].window \in MaxWindows
    BY ResultsHave, WindowsAre DEF TypeOK
  <2>3. \A i \in DOMAIN results : out'[results[i].window] = "ended"
    BY <2>1, <2>2 DEF Reported
  <2> QED BY <1>1, <1>2, <2>1, <2>3 DEF Reported
<1> QED BY <1>6, <1>7, <1>8, <1>9

\* An out-of-sample run records its window's own choice and gives the slot back.
LEMMA FinishOutStep ==
    ASSUME OptimizerInv, NEW w \in MaxWindows, FinishOut(w) PROVE OptimizerInv'
<1> USE DEF OptimizerInv
<1>1. PICK m \in Scores :
         results' = Append(results, [window |-> w, params |-> Captured(w).params,
                                     in |-> Captured(w).metric, out |-> m])
  BY DEF FinishOut
<1>2. /\ out[w] = "running" /\ out' = [out EXCEPT ![w] = "ended"]
      /\ UNCHANGED <<total, score, window, trial, scored, chosen, ctxDone, run>>
  BY DEF FinishOut
<1>3. MaxWindows' = MaxWindows /\ Windows' = Windows /\ Starts(total)' = Starts(total)
  BY <1>2 DEF MaxWindows, Windows, Starts
<1>4. PICK c \in Nat :
         /\ Windows = 1..c /\ Cardinality(Windows) = c
         /\ Windows \subseteq MaxWindows /\ MaxWindows \subseteq Nat \ {0}
  BY WindowsAre DEF TypeOK
<1>5. w \in Windows
  <2>1. w < window /\ window \in 1..c + 1
    BY <1>2, <1>4 DEF Passed, TypeOK
  <2> QED BY <1>4, <2>1
<1>6. out \in [MaxWindows -> TrialStates]
  BY DEF TypeOK, TrialStates
<1>7. out' \in [MaxWindows -> TrialStates] /\ out'[w] = "ended"
      /\ \A v \in MaxWindows : v # w => out'[v] = out[v]
  BY <1>2, <1>6 DEF TrialStates
<1>8. PICK r \in ResultType :
         /\ results' = Append(results, r)
         /\ r.window = w /\ r.params = chosen[w].params /\ r.in = chosen[w].metric
  <2>1. chosen[w] \in ChoiceType
    BY DEF TypeOK, ChoiceType
  <2>2. chosen[w].params \in Params \cup {NoParams} /\ chosen[w].metric \in Scores \cup {Worst}
    BY <2>1 DEF ChoiceType
  <2> QED BY <1>1, <1>5, <2>2 DEF Captured, ResultType
<1>9. PICK s \in Seq(ResultType) : s = results
  BY ResultsHave
<1>10. /\ results' \in Seq(ResultType) /\ DOMAIN results' = 1..Len(s) + 1 /\ Len(s) \in Nat
       /\ results'[Len(s) + 1] = r /\ \A i \in 1..Len(s) : results'[i] = s[i]
       /\ DOMAIN s = 1..Len(s)
  <2>1. PICK T : T = ResultType
    OBVIOUS
  <2> QED BY <1>8, <1>9, <2>1
<1>11. Holding' <= Workers
  <2>1. PICK R, O : R = TrialsRunning /\ O = OutRunning
    OBVIOUS
  <2>2. /\ IsFiniteSet(O) /\ Cardinality(R) \in Nat /\ Cardinality(O) \in Nat
        /\ Cardinality(R) + Cardinality(O) <= Workers /\ Workers \in Nat
    BY <2>1, RunningFinite DEF TypeOK
  <2>3. TrialsRunning' = R
    BY <1>2, <2>1 DEF TrialsRunning
  <2>4. Holding' = Cardinality(TrialsRunning') + Cardinality(OutRunning')
    BY DEF Holding, TrialsRunning, OutRunning
  <2>5. OutRunning' = O \ {w} /\ w \in O
    BY <1>2, <1>3, <1>7, <2>1 DEF OutRunning
  <2>6. Cardinality(OutRunning') = Cardinality(O) - 1
    BY <2>2, <2>5, SlotGiven
  <2> QED BY <2>2, <2>3, <2>4, <2>6
<1>12. TypeOK'
  <2>1. out' \in [MaxWindows -> {"none", "waiting", "running", "ended"}]
    BY <1>7 DEF TrialStates
  <2>2. results' \in Seq([window : Windows', params : Params \cup {NoParams},
                        in : Scores \cup {Worst}, out : Scores])
    BY <1>3, <1>10 DEF ResultType
  <2> QED BY <1>2, <1>3, <1>11, <2>1, <2>2 DEF TypeOK
<1>13. Trials'
  BY <1>2 DEF Trials
<1>14. Passed'
  <2>1. \A v \in MaxWindows : out'[v] # "none" <=> out[v] # "none"
    BY <1>2, <1>7
  <2>2. \A v \in MaxWindows : out[v] = "ended" => out'[v] = "ended"
    BY <1>2, <1>7
  <2> QED BY <1>2, <1>3, <1>4, <2>1, <2>2 DEF Passed
<1>15. \A i \in 1..Len(s) : s[i].window \in MaxWindows /\ s[i].window # w
  BY <1>2, <1>4, <1>9, <1>10, ResultsHave DEF Reported
<1>16. Reported'
  <2>1. ASSUME NEW i \in DOMAIN results'
        PROVE  /\ out'[results'[i].window] = "ended"
               /\ results'[i].params = chosen[results'[i].window].params
               /\ results'[i].in = chosen[results'[i].window].metric
    <3>1. CASE i = Len(s) + 1
      BY <1>7, <1>8, <1>10, <3>1
    <3>2. CASE i \in 1..Len(s)
      <4>1. results'[i] = s[i] /\ s[i].window \in MaxWindows /\ s[i].window # w
        BY <1>10, <1>15, <3>2
      <4>2. out'[s[i].window] = out[s[i].window]
        BY <1>7, <4>1
      <4> QED BY <1>9, <1>10, <3>2, <4>1, <4>2 DEF Reported
    <3> QED BY <1>10, <2>1, <3>1, <3>2
  <2>2. ASSUME NEW i \in DOMAIN results', NEW j \in DOMAIN results',
               results'[i].window = results'[j].window
        PROVE  i = j
    <3>1. CASE i \in 1..Len(s) /\ j \in 1..Len(s)
      <4>1. s[i].window = s[j].window
        BY <1>10, <2>2, <3>1
      <4> QED BY <1>9, <1>10, <3>1, <4>1 DEF Reported
    <3>2. CASE i \in 1..Len(s) /\ j = Len(s) + 1
      BY <1>8, <1>10, <1>15, <2>2, <3>2
    <3>3. CASE i = Len(s) + 1 /\ j \in 1..Len(s)
      BY <1>8, <1>10, <1>15, <2>2, <3>3
    <3>4. CASE i = Len(s) + 1 /\ j = Len(s) + 1
      BY <3>4
    <3> QED BY <1>10, <3>1, <3>2, <3>3, <3>4
  <2>3. ASSUME NEW v \in MaxWindows, out'[v] = "ended"
        PROVE  \E i \in DOMAIN results' : results'[i].window = v
    <3>1. CASE v = w
      BY <1>8, <1>10, <3>1
    <3>2. CASE v # w
      <4>1. PICK i \in DOMAIN results : results[i].window = v
        BY <1>7, <2>3, <3>2 DEF Reported
      <4>2. i \in 1..Len(s) /\ i \in DOMAIN results' /\ results'[i].window = v
        BY <1>9, <1>10, <4>1
      <4> QED BY <4>2
    <3> QED BY <3>1, <3>2
  <2> QED BY <1>2, <1>3, <2>1, <2>2, <2>3 DEF Reported
<1>17. Sorted'
  <2>1. run' # "returned"
    BY <1>2, <1>5 DEF Passed
  <2> QED BY <2>1 DEF Sorted
<1> QED BY <1>12, <1>13, <1>14, <1>16, <1>17

\* A sequence that has each of some elements once has all of them.
LEMMA Rearranged ==
    ASSUME NEW S, NEW rs \in Seq(S), NoRepeats(rs), NEW t \in SetToSeqs(ToSet(rs))
    PROVE  /\ t \in Seq(S) /\ Len(t) = Len(rs) /\ NoRepeats(t)
           /\ \A i \in DOMAIN t : \E j \in DOMAIN rs : t[i] = rs[j]
           /\ \A j \in DOMAIN rs : \E i \in DOMAIN t : t[i] = rs[j]
<1>1. PICK n \in Nat : n = Len(rs) /\ DOMAIN rs = 1..n
  OBVIOUS
<1>2. PICK R : R = ToSet(rs)
  OBVIOUS
<1>3. IsFiniteSet(R) /\ Cardinality(R) = n
  BY <1>1, <1>2, AsManyAs
<1>4. t \in [1..n -> R] /\ \A i, j \in 1..n : i # j => t[i] # t[j]
  BY <1>2, <1>3 DEF SetToSeqs
<1>5. \A x : x \in R <=> \E j \in DOMAIN rs : x = rs[j]
  BY <1>2 DEF ToSet
<1>6. R \subseteq S
  BY <1>1, <1>5
<1>7. t \in Seq(S) /\ Len(t) = n /\ DOMAIN t = 1..n
  BY <1>4, <1>6
<1>8. \A x \in R : \E i \in 1..n : t[i] = x
  <2>1. t \in Injection(1..n, R)
    BY <1>4 DEF Injection, IsInjective
  <2>2. IsFiniteSet(1..n) /\ Cardinality(1..n) = n
    BY FS_Interval
  <2>3. t \in Surjection(1..n, R)
    BY <1>3, <2>1, <2>2, FS_Injection
  <2> QED BY <2>3 DEF Surjection
<1>9. \A i \in DOMAIN t : \E j \in DOMAIN rs : t[i] = rs[j]
  BY <1>4, <1>5, <1>7
<1>10. \A j \in DOMAIN rs : \E i \in DOMAIN t : t[i] = rs[j]
  BY <1>5, <1>7, <1>8
<1> QED BY <1>1, <1>4, <1>7, <1>9, <1>10 DEF NoRepeats

\* Run sorts the results.
LEMMA ReturnStep == ASSUME OptimizerInv, Return PROVE OptimizerInv'
<1> USE DEF OptimizerInv
<1>1. /\ window \notin Windows /\ (\A w \in Windows : out[w] = "ended") /\ run = "search"
      /\ run' = "returned"
      /\ UNCHANGED <<total, score, window, trial, scored, out, chosen, ctxDone>>
  BY DEF Return
<1>2. /\ results' \in SetToSeqs(ToSet(results))
      /\ \A i \in 1..Len(results') - 1 : results'[i].out >= results'[i + 1].out
  BY DEF Return
<1>3. MaxWindows' = MaxWindows /\ Windows' = Windows /\ Starts(total)' = Starts(total)
      /\ Holding' = Holding
  BY <1>1 DEF MaxWindows, Windows, Starts, Holding
<1>4. PICK s \in Seq(ResultType) : s = results
  BY ResultsHave
<1>5. PICK t : t = results'
  OBVIOUS
<1>6. \A i, j \in DOMAIN s : s[i].window = s[j].window => i = j
  BY <1>4 DEF Reported
<1>7. NoRepeats(s)
  BY <1>6 DEF NoRepeats
<1>8. /\ t \in Seq(ResultType) /\ NoRepeats(t)
      /\ \A i \in DOMAIN t : \E j \in DOMAIN s : t[i] = s[j]
      /\ \A j \in DOMAIN s : \E i \in DOMAIN t : t[i] = s[j]
  BY <1>2, <1>4, <1>5, <1>7, Rearranged
<1>9. TypeOK'
  <2>1. results' \in Seq([window : Windows', params : Params \cup {NoParams},
                        in : Scores \cup {Worst}, out : Scores])
    BY <1>3, <1>5, <1>8 DEF ResultType
  <2> QED BY <1>1, <1>3, <2>1 DEF TypeOK
<1>10. Trials'
  BY <1>1 DEF Trials
<1>11. Passed'
  BY <1>1, <1>3 DEF Passed
<1>12. Reported'
  <2>1. \A i \in DOMAIN t :
           /\ out[t[i].window] = "ended"
           /\ t[i].params = chosen[t[i].window].params
           /\ t[i].in = chosen[t[i].window].metric
    BY <1>4, <1>8 DEF Reported
  <2>2. ASSUME NEW i \in DOMAIN t, NEW j \in DOMAIN t, t[i].window = t[j].window
        PROVE  i = j
    <3>1. PICK a \in DOMAIN s, b \in DOMAIN s : t[i] = s[a] /\ t[j] = s[b]
      BY <1>8
    <3>2. t[i] = t[j]
      BY <1>6, <2>2, <3>1
    <3> QED BY <1>8, <3>2 DEF NoRepeats
  <2>3. \A w \in MaxWindows : out[w] = "ended" => \E i \in DOMAIN t : t[i].window = w
    <3>1. ASSUME NEW w \in MaxWindows, out[w] = "ended" PROVE \E i \in DOMAIN t : t[i].window = w
      <4>1. PICK j \in DOMAIN s : s[j].window = w
        BY <1>4, <3>1 DEF Reported
      <4> QED BY <1>8, <4>1
    <3> QED BY <3>1
  <2> QED BY <1>1, <1>3, <1>5, <2>1, <2>2, <2>3 DEF Reported
<1>13. Sorted'
  BY <1>2 DEF Sorted
<1> QED BY <1>9, <1>10, <1>11, <1>12, <1>13

\* A cancelled search goes on with what it has.
LEMMA CancelStep == ASSUME OptimizerInv, Cancel PROVE OptimizerInv'
<1> USE DEF OptimizerInv
<1>1. /\ ctxDone' = TRUE
      /\ UNCHANGED <<total, score, window, trial, scored, out, chosen, results, run>>
  BY DEF Cancel
<1>2. TypeOK'
  BY <1>1 DEF TypeOK, Holding, Windows, MaxWindows, Starts
<1>3. Trials'
  BY <1>1 DEF Trials
<1>4. Passed' /\ Reported' /\ Sorted'
  BY <1>1 DEF Passed, Reported, Sorted, Windows, MaxWindows, Starts
<1> QED BY <1>2, <1>3, <1>4

\* Every step keeps the invariant.
LEMMA NextInv == OptimizerInv /\ [Next]_vars => OptimizerInv'
<1>1. ASSUME OptimizerInv, Next PROVE OptimizerInv'
  BY <1>1, StartTrialsStep, BeginStep, FinishStep, ChooseStep, BeginOutStep, FinishOutStep,
     ReturnStep, CancelStep DEF Next, Goroutines
<1>2. ASSUME OptimizerInv, UNCHANGED vars PROVE OptimizerInv'
  <2> USE DEF OptimizerInv, vars
  <2>1. TypeOK'
    BY <1>2 DEF TypeOK, Holding, Windows, MaxWindows, Starts
  <2>2. Trials' /\ Passed' /\ Reported' /\ Sorted'
    BY <1>2 DEF Trials, Passed, Reported, Sorted, Windows, MaxWindows, Starts
  <2> QED BY <1>2, <2>1, <2>2
<1> QED BY <1>1, <1>2

-----------------------------------------------------------------------------
(* The theorems *)

\* The invariant holds in every state.
THEOREM Invariant == Spec => []OptimizerInv
<1> QED BY InitInv, NextInv, PTL DEF Spec

\* Every variable keeps its type; trials and out-of-sample runs together never hold
\* more slots than the semaphore has, and the channel never more than it has room for.
THEOREM TypeCorrect == Spec => []TypeOK
<1>1. OptimizerInv => TypeOK
  BY DEF OptimizerInv
<1> QED BY <1>1, Invariant, PTL

\* The set bestParams returns when all trials have ended.
LEMMA ChoiceIsBest ==
    ASSUME OptimizerInv, Choose, ~ctxDone
    PROVE  /\ EveryCombinationTried
           /\ Params # {} => chosen'[window].params \in Params
           /\ \A p \in Params : score[p] <= chosen'[window].metric
<1> USE DEF OptimizerInv
<1>1. scored \in Seq(Params) /\ NoRepeats(scored) /\ score \in [Params -> Scores]
  BY DEF TypeOK, Trials
<1>2. ToSet(scored) = Params
  <2>1. \A p \in Params : p \in ToSet(scored)
    BY DEF Choose, AllEnded, Trials
  <2>2. \A p \in ToSet(scored) : p \in Params
    BY <1>1 DEF ToSet
  <2> QED BY <2>1, <2>2
<1>3. EveryCombinationTried
  <2>1. /\ {Grid[p] : p \in ToSet(scored)} = Combinations
        /\ Len(scored) = Cardinality(Combinations)
    BY <1>1, <1>2, AllTried
  <2> QED BY <2>1 DEF EveryCombinationTried, Combinations
<1>4. chosen'[window] = Best(scored)
  <2>1. window \in MaxWindows
    BY WindowsAre DEF TypeOK, Choose
  <2> QED BY <2>1 DEF Choose, TypeOK
<1>5. \A p \in ToSet(scored) : score[p] <= Best(scored).metric
  BY <1>1, BestIs
<1>6. scored # <<>> => Best(scored).params \in Params
  BY <1>1, BestIs
<1>7. Params # {} => scored # <<>>
  BY <1>2 DEF ToSet
<1> QED BY <1>2, <1>3, <1>4, <1>5, <1>6, <1>7

\* An out-of-sample goroutine is started with the set that scored best in its window,
\* whatever order the trials ended in, when each combination has been tried once.
THEOREM BestChosen == Spec => BestIsChosen
<1> DEFINE Started(w) == out[w] = "none" /\ out'[w] = "waiting" /\ ~ctxDone
           Good(w) == /\ EveryCombinationTried
                      /\ Params # {} => chosen'[w].params \in Params
                      /\ \A p \in Params : score[p] <= chosen'[w].metric
<1>1. OptimizerInv /\ [Next]_vars => [\A w \in Windows : Started(w) => Good(w)]_vars
  <2> SUFFICES ASSUME OptimizerInv, Next, NEW w \in Windows, Started(w) PROVE Good(w)
    BY DEF vars
  <2>1. w \in MaxWindows
    BY WindowsAre DEF OptimizerInv, TypeOK
  <2>2. out \in [MaxWindows -> TrialStates]
    BY DEF OptimizerInv, TypeOK, TrialStates
  <2>3. CASE Choose
    <3>1. w = window
      BY <2>1, <2>2, <2>3 DEF Choose
    <3> QED BY <2>3, <3>1, ChoiceIsBest
  <2>4. CASE StartTrials \/ Return \/ Cancel
    BY <2>4 DEF StartTrials, Return, Cancel
  <2>5. CASE \E p \in Params : Begin(p) \/ Finish(p)
    BY <2>5 DEF Begin, Finish
  <2>6. CASE \E v \in MaxWindows : BeginOut(v) \/ FinishOut(v)
    BY <2>1, <2>2, <2>6 DEF BeginOut, FinishOut
  <2> QED BY <2>3, <2>4, <2>5, <2>6 DEF Next, Goroutines
<1> QED BY <1>1, Invariant, PTL DEF Spec, BestIsChosen

\* When Run returns there is one result for each window.
LEMMA OneEach ==
    ASSUME OptimizerInv, run = "returned"
    PROVE  /\ \A w \in Windows : \E i \in DOMAIN results : results[i].window = w
           /\ {r.window : r \in ToSet(results)} = Windows
           /\ Len(results) = Cardinality(Windows)
<1> USE DEF OptimizerInv
<1>1. PICK c \in Nat : Windows = 1..c /\ Cardinality(Windows) = c /\ Windows \subseteq MaxWindows
  BY WindowsAre DEF TypeOK
<1>2. PICK s \in Seq(ResultType) : s = results
  BY ResultsHave
<1>3. PICK n \in Nat : n = Len(s) /\ DOMAIN s = 1..n
  BY <1>2
<1>4. \A w \in Windows : \E i \in 1..n : s[i].window = w
  BY <1>1, <1>2, <1>3 DEF Passed, Reported
<1>5. \A i \in 1..n : s[i].window \in Windows
  BY <1>2, <1>3, ResultsHave
<1>6. {r.window : r \in ToSet(s)} = Windows
  BY <1>3, <1>4, <1>5 DEF ToSet
<1>7. PICK W : W = Windows
  OBVIOUS
<1>8. PICK ws : ws = [i \in 1..n |-> s[i].window]
  OBVIOUS
<1>9. ws \in [1..n -> W] /\ ws \in Seq(W) /\ Len(ws) = n /\ DOMAIN ws = 1..n
  BY <1>5, <1>7, <1>8
<1>10. NoRepeats(ws)
  BY <1>2, <1>3, <1>8 DEF Reported, NoRepeats
<1>11. ToSet(ws) = W
  BY <1>4, <1>5, <1>7, <1>8 DEF ToSet
<1>12. Cardinality(W) = n
  BY <1>9, <1>10, <1>11, AsManyAs
<1> QED BY <1>2, <1>3, <1>4, <1>6, <1>7, <1>12

\* The report counts the windows that fit into the candles, in any order of results.
LEMMA AllReported == OptimizerInv => AllWindowsReported
<1> SUFFICES ASSUME OptimizerInv PROVE AllWindowsReported
  OBVIOUS
<1> USE DEF OptimizerInv
<1>1. total \in Nat
  BY OptimizerConstantsOK DEF OptimizerConstantsOK, TypeOK
<1>2. PICK c \in Nat :
         /\ Cardinality(Starts(total)) = c
         /\ c * StepBars + InSample + OutSample > total
         /\ c # 0 => (c - 1) * StepBars + InSample + OutSample <= total
         /\ c = 0 <=> total < InSample + OutSample
         /\ c = 0 <=> Starts(total) = {}
  BY <1>1, StartsAre
<1>3. run = "refused" <=> total < InSample + OutSample
  BY <1>2 DEF Passed
<1>4. ASSUME run = "returned"
      PROVE  /\ Len(results) = Cardinality({r.window : r \in ToSet(results)})
             /\ Len(results) * StepBars + InSample + OutSample > total
             /\ (Len(results) - 1) * StepBars + InSample + OutSample <= total
  <2>1. Windows = 1..c /\ Cardinality(1..c) = c
    <3>1. PICK d \in Nat : Windows = 1..d /\ Cardinality(Windows) = d
      BY WindowsAre DEF TypeOK
    <3>2. Windows = 1..c
      BY <1>2 DEF Windows
    <3>3. Cardinality(1..c) = c
      <4>1. 1 > c => c = 0
        OBVIOUS
      <4>2. c - 1 + 1 = c
        OBVIOUS
      <4> QED BY <4>1, <4>2, FS_Interval
    <3> QED BY <3>2, <3>3
  <2>2. Len(results) = c /\ Cardinality({r.window : r \in ToSet(results)}) = c
    BY <1>4, <2>1, OneEach
  <2>3. c # 0
    BY <1>2, <1>4 DEF Passed
  <2> QED BY <1>2, <2>2, <2>3
<1> QED BY <1>3, <1>4 DEF AllWindowsReported

\* Each result shows its own window's choice.
LEMMA OwnChoice == OptimizerInv => ResultsOfTheirWindows
BY DEF OptimizerInv, Reported, ResultsOfTheirWindows, ToSet

\* The summary adds up all choices, and shows a window that did best out of sample.
LEMMA SummaryRight ==
    ASSUME OptimizerInv, run = "returned"
    PROVE  LET s == Summary(results)
               best == {r \in ToSet(results) : \A q \in ToSet(results) : q.out <= r.out}
           IN  /\ s.totalWindows = Cardinality(Windows)
               /\ s.in = FoldSet(LAMBDA w, a : a + chosen[w].metric, 0, Windows)
               /\ \E r \in best : s.bestOut = r.out /\ s.bestParams = chosen[r.window].params
<1> USE DEF OptimizerInv
<1>1. PICK c \in Nat : /\ Windows = 1..c /\ Cardinality(Windows) = c
                       /\ Windows \subseteq MaxWindows /\ (Starts(total) = {} <=> c = 0)
  BY WindowsAre DEF TypeOK
<1>2. PICK rs \in Seq(ResultType) : rs = results
  BY ResultsHave
<1>3. Len(rs) = c /\ DOMAIN rs = 1..c /\ c # 0
  BY <1>1, <1>2, OneEach DEF Passed
<1>4. /\ \A i, j \in DOMAIN rs : rs[i].window = rs[j].window => i = j
      /\ \A i \in DOMAIN rs : /\ rs[i].params = chosen[rs[i].window].params
                              /\ rs[i].in = chosen[rs[i].window].metric
  BY <1>2 DEF Reported
<1>5. \A i \in DOMAIN rs : rs[i].window \in Windows /\ rs[i].out \in Scores
  BY <1>2, ResultsHave
<1>6. \A w \in Windows : \E i \in DOMAIN rs : rs[i].window = w
  BY <1>2, OneEach
<1>7. \A w \in Windows : chosen[w].metric \in Int
  <2>1. chosen \in [MaxWindows -> ChoiceType]
    BY DEF TypeOK, ChoiceType
  <2>2. \A b \in ChoiceType : b.metric \in Int
    BY OptimizerConstantsOK DEF OptimizerConstantsOK, ChoiceType
  <2> QED BY <1>1, <2>1, <2>2
<1>8. IsFiniteSet(Windows)
  BY <1>1, FS_Interval
<1>9. SumIn(rs) = SumChosen(Windows)
  BY <1>4, <1>5, <1>6, <1>7, <1>8, SumsAgree
<1>10. \A i \in 1..c : rs[1].out >= rs[i].out
  <2>1. PICK f : f = [i \in 1..c |-> rs[i].out]
    OBVIOUS
  <2>2. f \in [1..c -> Int]
    BY <1>3, <1>5, <2>1, OptimizerConstantsOK DEF OptimizerConstantsOK
  <2>3. \A i \in 1..c - 1 : f[i] >= f[i + 1]
    BY <1>2, <1>3, <2>1 DEF Sorted
  <2>4. \A i \in 1..c : f[1] >= f[i]
    BY <2>2, <2>3, FirstIsBest
  <2> QED BY <1>3, <2>1, <2>4
<1>11. \A q \in ToSet(rs) : q.out <= rs[1].out
  <2>1. \A i \in 1..c : rs[i].out \in Int
    BY <1>3, <1>5, OptimizerConstantsOK DEF OptimizerConstantsOK
  <2> QED BY <1>3, <1>10, <2>1 DEF ToSet
<1>12. rs[1] \in ToSet(rs) /\ rs[1].params = chosen[rs[1].window].params
  BY <1>3, <1>4 DEF ToSet
<1>13. PICK r : r = rs[1] /\ r \in ToSet(rs) /\ r.params = chosen[r.window].params
                /\ \A q \in ToSet(rs) : q.out <= r.out
  BY <1>11, <1>12
<1>14. PICK s : s = Summary(rs)
  OBVIOUS
<1>15. s.totalWindows = Len(rs) /\ s.bestParams = r.params /\ s.bestOut = r.out /\ s.in = SumIn(rs)
  BY <1>13, <1>14 DEF Summary, SumIn
<1>16. s.totalWindows = Cardinality(Windows)
  BY <1>1, <1>3, <1>15
<1>17. s.in = FoldSet(LAMBDA w, a : a + chosen[w].metric, 0, Windows)
  BY <1>9, <1>15 DEF SumChosen
<1> QED BY <1>2, <1>13, <1>14, <1>15, <1>16, <1>17

\* Whatever order the out-of-sample runs end in, the report has one result per window
\* that fits, each with its own window's choice, and its summary is about all of them.
THEOREM ReportComplete == Spec => []ReportIsComplete
<1>1. OptimizerInv => ReportIsComplete
  BY AllReported, OwnChoice, SummaryRight DEF ReportIsComplete
<1> QED BY <1>1, Invariant, PTL
================================================================================
