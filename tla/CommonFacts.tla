---------------------------- MODULE CommonFacts ----------------------------
(***************************************************************************)
(* Facts that the proof modules share: about natural numbers, about         *)
(* functions that are computed from one number to the next, about sums over *)
(* finite sets, about what select_non_conflicting_opportunities             *)
(* (GreedySelection) selects, and about what a filter keeps.                *)
(***************************************************************************)
EXTENDS Integers, Filtering, GreedySelection, FiniteSetTheorems, SequenceTheorems, WellFoundedInduction, TLAPS

\* A non-empty set of natural numbers has a least element: the first index at
\* which a loop of the code stops.
LEMMA LeastNat ==
    ASSUME NEW S, S \subseteq Nat, S # {}
    PROVE  \E k \in S : \A m \in S : k <= m
<1> DEFINE R == {ss \in Nat \X Nat : ss[1] < ss[2]}
<1>1. IsWellFoundedOn(R, Nat)
  BY NatLessThanWellFounded DEF OpToRel
<1>2. \A x, y \in Nat : <<y, x>> \notin R => x <= y
  <2>1. \A x, y \in Nat : <<y, x>> \in Nat \X Nat /\ (y < x => <<y, x>> \in R)
    BY Zenon
  <2>2. \A x, y \in Nat : ~(y < x) => x <= y
    OBVIOUS
  <2>3. QED BY <2>1, <2>2, Zenon
<1> HIDE DEF R
<1>3. PICK x \in S : \A y \in S : <<y, x>> \notin R
  BY <1>1, WFMin
<1>4. QED BY <1>2, <1>3

\* A non-empty set of natural numbers with an upper bound has a greatest
\* element: the last index at which something is found.
LEMMA GreatestNat ==
    ASSUME NEW S, S \subseteq Nat, S # {}, NEW u \in Nat, \A m \in S : m <= u
    PROVE  \E k \in S : \A m \in S : m <= k
<1> DEFINE T == {u - m : m \in S}
<1>1. T \subseteq Nat /\ T # {}
  <2>1. \A m \in S : u - m \in Nat
    OBVIOUS
  <2>2. QED BY <2>1
<1>2. PICK d \in T : \A e \in T : d <= e
  BY <1>1, LeastNat
<1>3. PICK k \in S : d = u - k
  BY <1>2
<1>4. \A m \in S : u - k <= u - m
  BY <1>2, <1>3
<1>5. \A m \in S : m <= k
  BY <1>3, <1>4
<1>6. QED BY <1>5

\* Induction up to N: the set S of the numbers that have a property.
LEMMA UpTo ==
    ASSUME NEW S, NEW N, N \in Nat, 0 \in S,
           \A n \in 0..N - 1 : n \in S => n + 1 \in S
    PROVE  \A n \in 0..N : n \in S
<1> DEFINE Bad == {n \in 0..N : n \notin S}
<1> SUFFICES ASSUME Bad # {} PROVE FALSE
  OBVIOUS
<1>1. Bad \subseteq Nat
  OBVIOUS
<1>2. PICK m \in Bad : \A k \in Bad : m <= k
  <2> HIDE DEF Bad
  <2>1. QED BY <1>1, LeastNat
<1>3. m \in 0..N /\ m \notin S /\ m # 0
  OBVIOUS
<1>4. m - 1 \in 0..N - 1 /\ ~(m <= m - 1) /\ m - 1 \in 0..N
  BY <1>3
<1>5. m - 1 \in S
  BY <1>2, <1>4
<1>6. (m - 1) + 1 = m
  BY <1>3
<1>7. QED BY <1>3, <1>4, <1>5, <1>6

\* f computes each value from the one before it.
Computes(f, T, base, N, step) ==
    /\ f \in [0..N -> T]
    /\ f[0] = base
    /\ \A n \in 1..N : f[n] = step[<<f[n - 1], n>>]

\* Such a function exists.
LEMMA FoldExists ==
    ASSUME NEW T, NEW base, NEW N, NEW step,
           base \in T, N \in Nat, step \in [T \X (1..N) -> T]
    PROVE  \E f : Computes(f, T, base, N, step)
<1> DEFINE Good(g, m) == /\ g[0] = base
                         /\ \A n \in 1..m : g[n] = step[<<g[n - 1], n>>]
           Bad == {m \in 0..N : \A g \in [0..m -> T] : ~Good(g, m)}
<1>1. Bad = {}
  <2> SUFFICES ASSUME Bad # {} PROVE FALSE
    OBVIOUS
  <2>0. Bad \subseteq Nat
    OBVIOUS
  <2>1. PICK m \in Bad : \A k \in Bad : m <= k
    <3> HIDE DEF Bad
    <3>1. QED BY <2>0, LeastNat
  <2>2. m # 0
    <3>1. [i \in 0..0 |-> base] \in [0..0 -> T] /\ Good([i \in 0..0 |-> base], 0)
      OBVIOUS
    <3>2. QED BY <3>1, <2>1
  <2>3. m - 1 \in 0..N /\ m - 1 \notin Bad
    <3>1. m \in 0..N
      OBVIOUS
    <3>2. m - 1 \in 0..N /\ ~(m <= m - 1)
      BY <2>2, <3>1
    <3> HIDE DEF Bad
    <3>3. QED BY <2>1, <3>2
  <2>4. PICK g \in [0..m - 1 -> T] : Good(g, m - 1)
    BY <2>3
  <2> DEFINE h == [i \in 0..m |-> IF i = m THEN step[<<g[m - 1], m>>] ELSE g[i]]
  <2>5. g[m - 1] \in T /\ m \in 1..N
    BY <2>1, <2>2, <2>4
  <2>6. step[<<g[m - 1], m>>] \in T
    BY <2>5
  <2>7. h \in [0..m -> T]
    BY <2>4, <2>6
  <2>8. h[0] = base /\ h[m] = step[<<h[m - 1], m>>]
    BY <2>4, <2>5
  <2>9. \A n \in 1..m - 1 : h[n] = g[n] /\ h[n - 1] = g[n - 1]
    BY <2>5
  <2>10. Good(h, m)
    <3>1. \A n \in 1..m : n = m \/ n \in 1..m - 1
      BY <2>5
    <3>2. \A n \in 1..m - 1 : g[n] = step[<<g[n - 1], n>>]
      BY <2>4
    <3> HIDE DEF h
    <3>3. \A n \in 1..m - 1 : h[n] = step[<<h[n - 1], n>>]
      BY <2>9, <3>2
    <3>4. QED BY <2>8, <3>1, <3>3
  <2>11. QED BY <2>1, <2>7, <2>10
<1>2. QED BY <1>1 DEF Computes

\* A function whose values follow from one another takes them from T.
LEMMA FoldValues ==
    ASSUME NEW T, NEW base, NEW N, NEW step, NEW g,
           base \in T, N \in Nat, step \in [T \X (1..N) -> T],
           g = [n \in 0..N |-> g[n]], g[0] = base,
           \A n \in 1..N : g[n - 1] \in T => g[n] = step[<<g[n - 1], n>>]
    PROVE  Computes(g, T, base, N, step)
<1> DEFINE S == {n \in 0..N : g[n] \in T}
<1>1. 0 \in S
  OBVIOUS
<1>2. ASSUME NEW n \in 0..N - 1, n \in S PROVE n + 1 \in S
  <2>1. n + 1 \in 1..N /\ (n + 1) - 1 = n /\ n + 1 \in 0..N
    OBVIOUS
  <2>2. g[n + 1] = step[<<g[n], n + 1>>]
    BY <1>2, <2>1
  <2>3. QED BY <1>2, <2>1, <2>2
<1>3. \A n \in 0..N : n \in S
  <2> HIDE DEF S
  <2>1. QED BY <1>1, <1>2, UpTo
<1>4. \A n \in 1..N : n - 1 \in 0..N /\ g[n - 1] \in T
  <2>1. \A n \in 1..N : n - 1 \in 0..N
    OBVIOUS
  <2>2. QED BY <1>3, <2>1
<1>5. QED BY <1>3, <1>4 DEF Computes

\* Functions that are computed alike up to k agree up to k.
Alike(step, step2, T, k) == \A x \in T, n \in 1..k : step[<<x, n>>] = step2[<<x, n>>]

\* Two folds with the same steps agree.
LEMMA FoldsAgree ==
    ASSUME NEW T, NEW base, NEW N, NEW M, NEW step, NEW step2, NEW f, NEW g, NEW k,
           Computes(f, T, base, N, step), Computes(g, T, base, M, step2),
           N \in Nat, M \in Nat, k \in Nat, k <= N, k <= M,
           Alike(step, step2, T, k)
    PROVE  \A n \in 0..k : f[n] = g[n]
<1> DEFINE S == {n \in 0..k : f[n] = g[n]}
<1>1. 0 \in S
  BY DEF Computes
<1>2. ASSUME NEW n \in 0..k - 1, n \in S PROVE n + 1 \in S
  <2>1. /\ n + 1 \in 1..k /\ n + 1 \in 1..N /\ n + 1 \in 1..M /\ (n + 1) - 1 = n
        /\ n \in 0..N /\ n + 1 \in 0..k
    OBVIOUS
  <2>2. f[n + 1] = step[<<f[n], n + 1>>] /\ g[n + 1] = step2[<<g[n], n + 1>>] /\ f[n] \in T
    BY <2>1 DEF Computes
  <2>3. QED BY <1>2, <2>1, <2>2 DEF Alike
<1>3. \A n \in 0..k : n \in S
  <2> HIDE DEF S
  <2>1. QED BY <1>1, <1>2, UpTo
<1>4. QED BY <1>3

\* A quotient lies below what the divisor times that exceeds.
LEMMA QuotientBelow ==
    ASSUME NEW n \in Nat, NEW d \in Nat, NEW s \in Nat, d > 0, n < d * s
    PROVE  n \div d \in Nat /\ n \div d < s
<1> DEFINE q == n \div d
<1>1. q \in Nat /\ d * q <= n
  OBVIOUS
<1> HIDE DEF q
<1>2. ASSUME q >= s PROVE FALSE
  <2>1. d * q >= d * s
    BY <1>1, <1>2
  <2>2. QED BY <1>1, <2>1
<1>3. QED BY <1>1, <1>2 DEF q

-----------------------------------------------------------------------------
(* Sums over finite sets.                                                   *)

\* A family X of sets that contains T whenever it contains all that T leaves
\* when an element is taken out contains every finite set.
LEMMA SubsetInduction ==
    ASSUME NEW D, NEW X, IsFiniteSet(D), {} \in X,
           \A T \in SUBSET D : T # {} /\ (\A x \in T : T \ {x} \in X) => T \in X
    PROVE  \A T \in SUBSET D : T \in X
<1> DEFINE N == Cardinality(D)
           S == {n \in 0..N : \A T \in SUBSET D : Cardinality(T) = n => T \in X}
<1>1. /\ N \in Nat
      /\ \A T \in SUBSET D : IsFiniteSet(T) /\ Cardinality(T) \in Nat /\ Cardinality(T) <= N
  BY FS_CardinalityType, FS_Subset
<1>2. 0 \in S
  <2>1. \A T \in SUBSET D : Cardinality(T) = 0 => T = {}
    BY <1>1, FS_EmptySet
  <2>2. QED BY <1>1, <2>1
<1>3. ASSUME NEW n \in 0..N - 1, n \in S PROVE n + 1 \in S
  <2>1. ASSUME NEW T \in SUBSET D, Cardinality(T) = n + 1 PROVE T \in X
    <3>1. T # {}
      BY <1>1, <2>1, FS_EmptySet
    <3>2. ASSUME NEW x \in T PROVE T \ {x} \in X
      <4>1. IsFiniteSet(T)
        BY <1>1
      <4>2. Cardinality(T \ {x}) = (n + 1) - 1
        BY <2>1, <4>1, FS_RemoveElement
      <4>3. T \ {x} \in SUBSET D /\ Cardinality(T \ {x}) = n
        BY <4>2
      <4>4. QED BY <1>3, <4>3
    <3>3. QED BY <3>1, <3>2
  <2>2. n + 1 \in 0..N
    BY <1>1
  <2>3. QED BY <2>1, <2>2
<1>4. \A n \in 0..N : n \in S
  <2> HIDE DEF S, N
  <2>1. QED BY <1>1, <1>2, <1>3, UpTo
<1>5. QED BY <1>1, <1>4

Pick(s) == CHOOSE x \in s : TRUE

\* A sum of the values of f, and the function it is computed by: what FoldFunctionOnSet
\* and MapThenSumSet of the community modules come to for +.
SumsOn(g, f, S) ==
    g = [s \in SUBSET S |-> IF s = {} THEN 0 ELSE f[Pick(s)] + g[s \ {Pick(s)}]]

SumOver(f, S) == (CHOOSE g : SumsOn(g, f, S))[S]

\* What is picked is in the set.
LEMMA PickIn == ASSUME NEW s, s # {} PROVE Pick(s) \in s
BY DEF Pick

\* It exists: it can be extended from the sets of n elements to those of n + 1.
LEMMA SumsExist ==
    ASSUME NEW S, NEW f, IsFiniteSet(S)
    PROVE  \E g : SumsOn(g, f, S)
<1> DEFINE N == Cardinality(S)
           Small(n) == {s \in SUBSET S : Cardinality(s) <= n}
           NextFound(h, s) == IF s = {} THEN 0 ELSE f[Pick(s)] + h[s \ {Pick(s)}]
           Good(h, n) == /\ DOMAIN h = Small(n)
                         /\ \A s \in Small(n) : h[s] = NextFound(h, s)
           T == {n \in 0..N : \E h : Good(h, n)}
<1>1. /\ N \in Nat
      /\ \A s \in SUBSET S : IsFiniteSet(s) /\ Cardinality(s) \in Nat /\ Cardinality(s) <= N
  BY FS_CardinalityType, FS_Subset
<1>2. \A n \in Nat : \A s \in Small(n + 1) : s # {} => s \ {Pick(s)} \in Small(n)
  <2> TAKE n \in Nat
  <2> TAKE s \in Small(n + 1)
  <2> HAVE s # {}
  <2>1. Pick(s) \in s /\ IsFiniteSet(s)
    BY <1>1, PickIn
  <2>2. Cardinality(s \ {Pick(s)}) = Cardinality(s) - 1
    BY <2>1, FS_RemoveElement
  <2>3. QED BY <1>1, <2>2
<1>3. 0 \in T
  <2> DEFINE h == [s \in Small(0) |-> 0]
  <2>1. \A s \in Small(0) : s = {}
    BY <1>1, FS_EmptySet
  <2>2. Good(h, 0)
    BY <2>1
  <2>3. 0 \in 0..N
    BY <1>1
  <2>4. QED
    <3> HIDE DEF h, Good, N
    <3>1. QED BY <2>2, <2>3
<1>4. ASSUME NEW n \in 0..N - 1, n \in T PROVE n + 1 \in T
  <2>1. n \in Nat /\ n + 1 \in 0..N /\ Small(n) \subseteq Small(n + 1)
    BY <1>1
  <2>2. PICK h : Good(h, n)
    BY <1>4
  <2> DEFINE k == [s \in Small(n + 1) |-> NextFound(h, s)]
  <2>3. \A s \in Small(n) : k[s] = h[s]
    BY <2>1, <2>2
  <2>4. ASSUME NEW s \in Small(n + 1) PROVE k[s] = NextFound(k, s)
    <3>1. CASE s = {}
      BY <3>1
    <3>2. CASE s # {}
      <4>1. s \ {Pick(s)} \in Small(n)
        BY <1>2, <2>1, <3>2
      <4>2. k[s \ {Pick(s)}] = h[s \ {Pick(s)}]
        BY <2>3, <4>1
      <4> HIDE DEF Small
      <4>3. QED BY <3>2, <4>2
    <3>3. QED BY <3>1, <3>2
  <2>5. DOMAIN k = Small(n + 1)
    OBVIOUS
  <2>6. Good(k, n + 1)
    <3> HIDE DEF k, NextFound, Small
    <3>1. QED BY <2>4, <2>5
  <2>7. QED BY <2>1, <2>6
<1>5. N \in T
  <2>1. \A n \in 0..N : n \in T
    <3> HIDE DEF T, N
    <3>1. QED BY <1>1, <1>3, <1>4, UpTo
  <2>2. N \in 0..N
    BY <1>1
  <2>3. QED
    <3> HIDE DEF T, N
    <3>1. QED BY <2>1, <2>2
<1>6. PICK h : Good(h, N)
  BY <1>5
<1>7. Small(N) = SUBSET S
  BY <1>1
<1> DEFINE g == [s \in SUBSET S |-> h[s]]
<1>8. ASSUME NEW s \in SUBSET S PROVE g[s] = NextFound(g, s)
  <2>1. h[s] = NextFound(h, s)
    BY <1>6, <1>7
  <2>2. s \ {Pick(s)} \in SUBSET S
    OBVIOUS
  <2>3. QED BY <2>1, <2>2
<1>9. g = [s \in SUBSET S |-> NextFound(g, s)]
  <2>1. g = [s \in SUBSET S |-> g[s]]
    OBVIOUS
  <2> HIDE DEF g, NextFound
  <2>2. QED BY <1>8, <2>1
<1>10. SumsOn(g, f, S)
  BY <1>9 DEF SumsOn
<1>11. QED
  <2> HIDE DEF g
  <2>1. QED BY <1>10

AgreeOn(f, g, S) == \A x \in S : f[x] = g[x]

\* Families that agree on what they sum agree on the sums.
LEMMA SumsAgree ==
    ASSUME NEW S1, NEW S2, NEW f1, NEW f2, NEW g1, NEW g2, NEW D,
           IsFiniteSet(D), D \subseteq S1, D \subseteq S2, AgreeOn(f1, f2, D),
           SumsOn(g1, f1, S1), SumsOn(g2, f2, S2)
    PROVE  g1[D] = g2[D]
<1> DEFINE X == {T \in SUBSET D : g1[T] = g2[T]}
<1>1. /\ \A s \in SUBSET S1 : g1[s] = IF s = {} THEN 0 ELSE f1[Pick(s)] + g1[s \ {Pick(s)}]
      /\ \A s \in SUBSET S2 : g2[s] = IF s = {} THEN 0 ELSE f2[Pick(s)] + g2[s \ {Pick(s)}]
  BY DEF SumsOn
<1>2. {} \in X
  BY <1>1
<1>3. ASSUME NEW T \in SUBSET D, T # {}, \A x \in T : T \ {x} \in X PROVE T \in X
  <2>1. Pick(T) \in T
    BY <1>3, PickIn
  <2>2. g1[T \ {Pick(T)}] = g2[T \ {Pick(T)}]
    BY <1>3, <2>1
  <2>3. T \in SUBSET S1 /\ T \in SUBSET S2 /\ f1[Pick(T)] = f2[Pick(T)]
    BY <2>1 DEF AgreeOn
  <2>4. QED BY <1>1, <1>3, <2>2, <2>3
<1>4. \A T \in SUBSET D : T \in X
  <2> HIDE DEF X
  <2>1. QED BY <1>2, <1>3, SubsetInduction
<1>5. QED BY <1>4

\* Functions that agree on a set have the same sum over it.
LEMMA SumSame ==
    ASSUME NEW S, NEW f, NEW h, IsFiniteSet(S), \A x \in S : f[x] = h[x]
    PROVE  SumOver(f, S) = SumOver(h, S)
<1>1. PICK a : SumsOn(a, f, S) /\ SumOver(f, S) = a[S]
  <2>1. \E a : SumsOn(a, f, S)
    BY SumsExist
  <2>2. QED BY <2>1 DEF SumOver
<1>2. PICK b : SumsOn(b, h, S) /\ SumOver(h, S) = b[S]
  <2>1. \E b : SumsOn(b, h, S)
    BY SumsExist
  <2>2. QED BY <2>1 DEF SumOver
<1>3. a[S] = b[S]
  <2>1. S \subseteq S /\ AgreeOn(f, h, S)
    BY DEF AgreeOn
  <2>2. QED BY <1>1, <1>2, <2>1, SumsAgree
<1>4. QED BY <1>1, <1>2, <1>3

\* What a sum is: nothing over no elements, and the one that is picked and the
\* sum over the others.
LEMMA SumPeel ==
    ASSUME NEW S, NEW f, IsFiniteSet(S)
    PROVE  SumOver(f, S) = IF S = {} THEN 0 ELSE f[Pick(S)] + SumOver(f, S \ {Pick(S)})
<1> DEFINE R == S \ {Pick(S)}
           a == CHOOSE h : SumsOn(h, f, S)
           b == CHOOSE h : SumsOn(h, f, R)
<1>1. IsFiniteSet(R)
  BY FS_RemoveElement
<1>2. SumsOn(a, f, S) /\ SumsOn(b, f, R)
  <2> HIDE DEF R
  <2>1. QED BY <1>1, SumsExist
<1>3. SumOver(f, S) = a[S] /\ SumOver(f, R) = b[R]
  <2> HIDE DEF R
  <2>1. QED BY DEF SumOver
<1> HIDE DEF a, b
<1>4. a[R] = b[R]
  <2>1. R \subseteq S /\ R \subseteq R /\ AgreeOn(f, f, R)
    BY DEF AgreeOn
  <2> HIDE DEF R
  <2>2. QED BY <1>1, <1>2, <2>1, SumsAgree
<1>5. a[S] = IF S = {} THEN 0 ELSE f[Pick(S)] + a[R]
  BY <1>2 DEF SumsOn
<1>6. QED
  <2> HIDE DEF R
  <2>1. SumOver(f, S) = IF S = {} THEN 0 ELSE f[Pick(S)] + SumOver(f, R)
    BY <1>3, <1>4, <1>5
  <2>2. QED BY <2>1 DEF R

\* A sum of natural numbers is one.
LEMMA SumType ==
    ASSUME NEW D, NEW f, IsFiniteSet(D), f \in [D -> Nat]
    PROVE  \A S \in SUBSET D : SumOver(f, S) \in Nat
<1> DEFINE X == {S \in SUBSET D : SumOver(f, S) \in Nat}
<1>1. \A S \in SUBSET D : IsFiniteSet(S)
  BY FS_Subset
<1>2. {} \in X
  <2>1. SumOver(f, {}) = 0
    BY <1>1, SumPeel
  <2>2. QED BY <2>1
<1>3. ASSUME NEW S \in SUBSET D, S # {}, \A x \in S : S \ {x} \in X PROVE S \in X
  <2>1. Pick(S) \in S
    BY <1>3, PickIn
  <2>2. SumOver(f, S) = f[Pick(S)] + SumOver(f, S \ {Pick(S)})
    BY <1>1, <1>3, SumPeel
  <2>3. SumOver(f, S \ {Pick(S)}) \in Nat /\ f[Pick(S)] \in Nat
    BY <1>3, <2>1
  <2>4. QED BY <2>2, <2>3
<1>4. \A S \in SUBSET D : S \in X
  <2> HIDE DEF X
  <2>1. QED BY <1>2, <1>3, SubsetInduction
<1>5. QED BY <1>4

\* Any element can be taken out, not only the one that is picked.
LEMMA SumRemove ==
    ASSUME NEW D, NEW f, IsFiniteSet(D), f \in [D -> Nat]
    PROVE  \A S \in SUBSET D : \A x \in S : SumOver(f, S) = f[x] + SumOver(f, S \ {x})
<1> DEFINE X == {S \in SUBSET D : \A x \in S : SumOver(f, S) = f[x] + SumOver(f, S \ {x})}
<1>1. \A S \in SUBSET D : IsFiniteSet(S) /\ SumOver(f, S) \in Nat
  BY FS_Subset, SumType
<1>2. {} \in X
  OBVIOUS
<1>3. ASSUME NEW S \in SUBSET D, S # {}, \A x \in S : S \ {x} \in X PROVE S \in X
  <2> DEFINE p == Pick(S)
  <2>1. p \in S /\ SumOver(f, S) = f[p] + SumOver(f, S \ {p})
    BY <1>1, <1>3, PickIn, SumPeel
  <2> HIDE DEF p
  <2>2. ASSUME NEW x \in S, x # p PROVE SumOver(f, S) = f[x] + SumOver(f, S \ {x})
    <3>1. SumOver(f, S \ {p}) = f[x] + SumOver(f, (S \ {p}) \ {x})
      BY <1>3, <2>1, <2>2
    <3>2. SumOver(f, S \ {x}) = f[p] + SumOver(f, (S \ {x}) \ {p})
      BY <1>3, <2>1, <2>2
    <3>3. (S \ {p}) \ {x} = (S \ {x}) \ {p}
      OBVIOUS
    <3>4. f[x] \in Nat /\ f[p] \in Nat /\ SumOver(f, (S \ {p}) \ {x}) \in Nat
      BY <1>1, <2>1
    <3> HIDE DEF X
    <3>5. QED BY <2>1, <3>1, <3>2, <3>3, <3>4
  <2>3. QED BY <2>1, <2>2
<1>4. \A S \in SUBSET D : S \in X
  <2> HIDE DEF X
  <2>1. QED BY <1>2, <1>3, SubsetInduction
<1>5. QED BY <1>4

\* The sum over two sets without a common element is that of the two sums.
LEMMA SumDisjoint ==
    ASSUME NEW D, NEW f, IsFiniteSet(D), f \in [D -> Nat], NEW A \in SUBSET D
    PROVE  \A B \in SUBSET D : A \cap B = {} => SumOver(f, A \cup B) = SumOver(f, A) + SumOver(f, B)
<1> DEFINE X == {B \in SUBSET D : A \cap B = {} => SumOver(f, A \cup B) = SumOver(f, A) + SumOver(f, B)}
<1>1. \A S \in SUBSET D : /\ SumOver(f, S) \in Nat
                          /\ \A x \in S : SumOver(f, S) = f[x] + SumOver(f, S \ {x})
  BY SumType, SumRemove
<1>2. {} \in X
  <2>1. SumOver(f, {}) = 0
    BY FS_EmptySet, SumPeel
  <2>2. A \cup {} = A
    OBVIOUS
  <2>3. QED BY <1>1, <2>1, <2>2
<1>3. ASSUME NEW B \in SUBSET D, B # {}, \A x \in B : B \ {x} \in X PROVE B \in X
  <2> SUFFICES ASSUME A \cap B = {} PROVE SumOver(f, A \cup B) = SumOver(f, A) + SumOver(f, B)
    OBVIOUS
  <2>1. PICK x \in B : TRUE
    BY <1>3
  <2>2. SumOver(f, A \cup (B \ {x})) = SumOver(f, A) + SumOver(f, B \ {x})
    BY <1>3
  <2>3. (A \cup B) \ {x} = A \cup (B \ {x}) /\ x \in A \cup B /\ A \cup B \in SUBSET D
    OBVIOUS
  <2>4. /\ SumOver(f, A \cup B) = f[x] + SumOver(f, A \cup (B \ {x}))
        /\ SumOver(f, B) = f[x] + SumOver(f, B \ {x})
    BY <1>1, <2>3
  <2>5. f[x] \in Nat /\ SumOver(f, A) \in Nat /\ SumOver(f, B \ {x}) \in Nat
    BY <1>1
  <2>6. QED BY <2>2, <2>4, <2>5
<1>4. \A B \in SUBSET D : B \in X
  <2> HIDE DEF X
  <2>1. QED BY <1>2, <1>3, SubsetInduction
<1>5. QED BY <1>4

\* One value that changes changes the sums it is part of by as much.
LEMMA SumUpdate ==
    ASSUME NEW D, NEW f, IsFiniteSet(D), f \in [D -> Nat], NEW r \in D, NEW g,
           g \in [D -> Nat], \A x \in D : x # r => g[x] = f[x]
    PROVE  \A S \in SUBSET D : SumOver(g, S) = SumOver(f, S) + (IF r \in S THEN g[r] - f[r] ELSE 0)
<1> TAKE S \in SUBSET D
<1>2. IsFiniteSet(S) /\ IsFiniteSet(S \ {r})
  BY FS_Subset
<1>3. SumOver(f, S) \in Nat /\ SumOver(f, S \ {r}) \in Nat /\ f[r] \in Nat /\ g[r] \in Nat
  BY SumType
<1>4. CASE r \in S
  <2>1. SumOver(f, S) = f[r] + SumOver(f, S \ {r})
    BY <1>4, SumRemove
  <2>4. SumOver(g, S) = g[r] + SumOver(g, S \ {r})
    BY <1>4, SumRemove
  <2>2. SumOver(g, S \ {r}) = SumOver(f, S \ {r})
    BY <1>2, SumSame
  <2>3. QED BY <1>3, <1>4, <2>1, <2>2, <2>4
<1>5. CASE r \notin S
  <2>1. SumOver(g, S) = SumOver(f, S)
    BY <1>2, <1>5, SumSame
  <2>2. QED BY <1>3, <1>5, <2>1
<1>6. QED BY <1>4, <1>5

\* A sum of nothing is a sum of zeros.
LEMMA SumZero ==
    ASSUME NEW D, NEW f, IsFiniteSet(D), f \in [D -> Nat], NEW S \in SUBSET D
    PROVE  (SumOver(f, S) = 0) <=> (\A x \in S : f[x] = 0)
<1>1. \A T \in SUBSET D : /\ SumOver(f, T) \in Nat
                          /\ \A x \in T : SumOver(f, T) = f[x] + SumOver(f, T \ {x})
  BY SumType, SumRemove
<1>2. ASSUME SumOver(f, S) = 0, NEW x \in S PROVE f[x] = 0
  <2>1. f[x] \in Nat /\ SumOver(f, S \ {x}) \in Nat /\ SumOver(f, S) = f[x] + SumOver(f, S \ {x})
    BY <1>1
  <2>2. QED BY <1>2, <2>1
<1> DEFINE X == {T \in SUBSET D : (\A x \in T : f[x] = 0) => SumOver(f, T) = 0}
<1>3. {} \in X
  <2>1. SumOver(f, {}) = 0
    BY FS_EmptySet, SumPeel
  <2>2. QED BY <2>1
<1>4. ASSUME NEW T \in SUBSET D, T # {}, \A x \in T : T \ {x} \in X PROVE T \in X
  <2> SUFFICES ASSUME \A x \in T : f[x] = 0 PROVE SumOver(f, T) = 0
    OBVIOUS
  <2>1. PICK x \in T : TRUE
    BY <1>4
  <2>2. SumOver(f, T \ {x}) = 0
    BY <1>4
  <2>3. QED BY <1>1, <2>2
<1>5. \A T \in SUBSET D : T \in X
  <2> HIDE DEF X
  <2>1. QED BY <1>3, <1>4, SubsetInduction
<1>6. QED BY <1>2, <1>5

\* A sum of values none of which exceeds a bound.
LEMMA SumBound ==
    ASSUME NEW D, NEW f, IsFiniteSet(D), f \in [D -> Nat], NEW b \in Nat, \A x \in D : f[x] <= b
    PROVE  \A S \in SUBSET D : SumOver(f, S) <= Cardinality(S) * b
<1> DEFINE X == {S \in SUBSET D : SumOver(f, S) <= Cardinality(S) * b}
<1>1. \A S \in SUBSET D : /\ SumOver(f, S) \in Nat
                          /\ \A x \in S : SumOver(f, S) = f[x] + SumOver(f, S \ {x})
  BY SumType, SumRemove
<1>2. \A S \in SUBSET D : IsFiniteSet(S) /\ Cardinality(S) \in Nat
  BY FS_Subset, FS_CardinalityType
<1>3. {} \in X
  <2>1. SumOver(f, {}) = 0 /\ Cardinality({}) = 0
    BY FS_EmptySet, SumPeel
  <2>2. QED BY <2>1
<1>4. ASSUME NEW S \in SUBSET D, S # {}, \A x \in S : S \ {x} \in X PROVE S \in X
  <2>1. PICK x \in S : TRUE
    BY <1>4
  <2> DEFINE n == Cardinality(S \ {x})
             r == SumOver(f, S \ {x})
  <2>2. n \in Nat /\ Cardinality(S) = n + 1
    BY <1>2, <2>1, FS_RemoveElement
  <2>3. r <= n * b /\ r \in Nat /\ SumOver(f, S) = f[x] + r /\ f[x] \in Nat /\ f[x] <= b
    BY <1>1, <1>4, <2>1
  <2> HIDE DEF n, r
  <2>4. (n + 1) * b = n * b + b /\ n * b \in Nat
    BY <2>2
  <2>5. SumOver(f, S) <= (n + 1) * b
    BY <2>3, <2>4
  <2>6. QED BY <2>2, <2>5
<1>5. \A S \in SUBSET D : S \in X
  <2> HIDE DEF X
  <2>1. QED BY <1>3, <1>4, SubsetInduction
<1>6. QED BY <1>5

-----------------------------------------------------------------------------
(* What is selected greedily.                                               *)

\* select_non_conflicting_opportunities, candidate by candidate.
Selects(f, ranking, pls) ==
    /\ DOMAIN f = 0..Len(ranking)
    /\ f[0] = <<>>
    /\ \A n \in 1..Len(ranking) :
          f[n] = IF Disjoint(f[n - 1], ranking[n], pls)
                 THEN Append(f[n - 1], ranking[n])
                 ELSE f[n - 1]

\* SelectFrom is computed candidate by candidate.
LEMMA SelectFromIs ==
    ASSUME NEW C, NEW ranking, NEW pls, ranking \in Seq(C)
    PROVE  \E f : Selects(f, ranking, pls) /\ SelectFrom(ranking, pls) = f[Len(ranking)]
<1> DEFINE N == Len(ranking)
           Is(f) == f = [n \in 0..N |->
                            IF n = 0 THEN <<>>
                            ELSE IF Disjoint(f[n - 1], ranking[n], pls)
                                 THEN Append(f[n - 1], ranking[n])
                                 ELSE f[n - 1]]
           Take == [x \in Seq(C) \X (1..N) |->
                       IF Disjoint(x[1], ranking[x[2]], pls)
                       THEN Append(x[1], ranking[x[2]])
                       ELSE x[1]]
           g == CHOOSE f : Is(f)
<1>1. Take \in [Seq(C) \X (1..N) -> Seq(C)]
  OBVIOUS
<1>2. N \in Nat /\ <<>> \in Seq(C)
  OBVIOUS
<1>3. PICK f : Computes(f, Seq(C), <<>>, N, Take)
  <2> HIDE DEF N, Take, Is
  <2>1. QED BY <1>1, <1>2, FoldExists
<1>4. Is(f)
  <2>1. \A n \in 1..N : f[n - 1] \in Seq(C)
    BY <1>2, <1>3 DEF Computes
  <2>2. \A n \in 0..N : n = 0 \/ n \in 1..N
    BY <1>2
  <2>3. \A n \in 0..N :
            f[n] = IF n = 0 THEN <<>>
                   ELSE IF Disjoint(f[n - 1], ranking[n], pls)
                        THEN Append(f[n - 1], ranking[n])
                        ELSE f[n - 1]
    BY <1>3, <2>1, <2>2 DEF Computes
  <2>4. QED BY <1>3, <2>3 DEF Computes
<1>5. Is(g)
  BY <1>4, Zenon
<1>6. SelectFrom(ranking, pls) = g[N]
  BY DEF SelectFrom
<1> HIDE DEF g, Take, N
<1>7. DOMAIN g = 0..N
  BY <1>5
<1>8. g[0] = <<>>
  BY <1>2, <1>5
<1>9. ASSUME NEW n \in 1..N
      PROVE  g[n] = IF Disjoint(g[n - 1], ranking[n], pls)
                    THEN Append(g[n - 1], ranking[n])
                    ELSE g[n - 1]
  <2>1. n \in 0..N /\ n # 0
    BY <1>2
  <2>2. QED BY <1>5, <2>1, Zenon
<1>10. Selects(g, ranking, pls)
  BY <1>7, <1>8, <1>9 DEF Selects, N
<1>11. QED BY <1>6, <1>10 DEF N

\* What is selected shares no pool, and what is left out shares one with
\* something selected that comes before it.
Greedily(s, ranking, n, pls) ==
    /\ \A j \in 1..Len(s) : \E k \in 1..n : s[j] = ranking[k]
    /\ \A i, j \in 1..Len(s) : i # j => ~SharesPool(s[i], s[j], pls)
    /\ \A i \in 1..n :
          \/ \E j \in 1..Len(s) : s[j] = ranking[i]
          \/ \E k \in 1..i - 1, j \in 1..Len(s) :
                s[j] = ranking[k] /\ SharesPool(ranking[k], ranking[i], pls)

\* One more candidate keeps that, taken or left out.
LEMMA GreedyStep ==
    ASSUME NEW C, NEW ranking, NEW pls, NEW s, NEW n,
           ranking \in Seq(C), s \in Seq(C), n \in 0..Len(ranking) - 1,
           Greedily(s, ranking, n, pls)
    PROVE  LET t == IF Disjoint(s, ranking[n + 1], pls) THEN Append(s, ranking[n + 1]) ELSE s
           IN  t \in Seq(C) /\ Greedily(t, ranking, n + 1, pls)
<1> DEFINE c == ranking[n + 1]
<1>1. c \in C /\ n \in Nat /\ DOMAIN s = 1..Len(s) /\ Len(s) \in Nat
  BY ElementOfSeq
<1>2. \A i \in 1..n + 1 : i \in 1..n \/ i = n + 1
  BY <1>1
<1>3. CASE Disjoint(s, c, pls)
  <2> DEFINE t == Append(s, c)
  <2>1. /\ t \in Seq(C) /\ Len(t) = Len(s) + 1 /\ t[Len(s) + 1] = c
        /\ \A j \in 1..Len(s) : t[j] = s[j]
    BY <1>1
  <2> HIDE DEF t
  <2>2. \A j \in 1..Len(t) : j \in 1..Len(s) \/ j = Len(s) + 1
    BY <1>1, <2>1
  <2>3. \A j \in 1..Len(s) : j \in 1..Len(t)
    BY <1>1, <2>1
  <2>4. \A j \in 1..Len(t) : \E k \in 1..n + 1 : t[j] = ranking[k]
    <3>1. \A k \in 1..n : k \in 1..n + 1
      BY <1>1
    <3>2. \A j \in 1..Len(s) : \E k \in 1..n + 1 : t[j] = ranking[k]
      <4>1. \A j \in 1..Len(s) : \E k \in 1..n : s[j] = ranking[k]
        BY DEF Greedily
      <4>2. QED BY <2>1, <3>1, <4>1, Zenon
    <3>3. n + 1 \in 1..n + 1 /\ t[Len(s) + 1] = ranking[n + 1]
      BY <1>1, <2>1
    <3>4. QED BY <2>2, <3>2, <3>3
  <2>5. \A j \in 1..Len(s) : ~SharesPool(c, s[j], pls) /\ ~SharesPool(s[j], c, pls)
    BY <1>1, <1>3 DEF Disjoint, SharesPool
  <2>6. \A i, j \in 1..Len(t) : i # j => ~SharesPool(t[i], t[j], pls)
    BY <2>1, <2>2, <2>5 DEF Greedily
  <2>7. ASSUME NEW i \in 1..n + 1
        PROVE  \/ \E j \in 1..Len(t) : t[j] = ranking[i]
               \/ \E k \in 1..i - 1, j \in 1..Len(t) :
                     t[j] = ranking[k] /\ SharesPool(ranking[k], ranking[i], pls)
    <3>1. CASE i = n + 1
      BY <1>1, <2>1, <3>1
    <3>2. CASE i \in 1..n
      <4>1. \A j \in 1..Len(s) : j \in 1..Len(t) /\ t[j] = s[j]
        BY <2>1, <2>3
      <4>2. \/ \E j \in 1..Len(s) : s[j] = ranking[i]
            \/ \E k \in 1..i - 1, j \in 1..Len(s) :
                  s[j] = ranking[k] /\ SharesPool(ranking[k], ranking[i], pls)
        BY <3>2 DEF Greedily
      <4>3. QED BY <4>1, <4>2, Zenon
    <3>3. QED BY <1>2, <3>1, <3>2
  <2>8. Greedily(t, ranking, n + 1, pls)
    BY <2>4, <2>6, <2>7 DEF Greedily
  <2>9. QED BY <1>3, <2>1, <2>8 DEF t
<1>4. CASE ~Disjoint(s, c, pls)
  <2>1. PICK j \in 1..Len(s) : SharesPool(c, s[j], pls)
    BY <1>1, <1>4 DEF Disjoint
  <2>2. PICK k \in 1..n : s[j] = ranking[k]
    BY DEF Greedily
  <2>3. SharesPool(ranking[k], c, pls)
    BY <2>1, <2>2 DEF SharesPool
  <2>4. \A i \in 1..n + 1 :
           \/ \E m \in 1..Len(s) : s[m] = ranking[i]
           \/ \E m \in 1..i - 1, l \in 1..Len(s) :
                 s[l] = ranking[m] /\ SharesPool(ranking[m], ranking[i], pls)
    <3>1. k \in 1..(n + 1) - 1
      BY <1>1
    <3>2. QED BY <1>2, <2>2, <2>3, <3>1 DEF Greedily
  <2>5. \A m \in 1..Len(s) : \E l \in 1..n + 1 : s[m] = ranking[l]
    BY <1>1 DEF Greedily
  <2>6. Greedily(s, ranking, n + 1, pls)
    BY <2>4, <2>5 DEF Greedily
  <2>7. QED BY <1>4, <2>6
<1>5. QED BY <1>3, <1>4

\* So it holds of the whole selection.
LEMMA SelectFromGreedy ==
    ASSUME NEW C, NEW ranking, NEW pls, ranking \in Seq(C)
    PROVE  LET s == SelectFrom(ranking, pls)
           IN  s \in Seq(C) /\ Greedily(s, ranking, Len(ranking), pls)
<1>1. PICK f : Selects(f, ranking, pls) /\ SelectFrom(ranking, pls) = f[Len(ranking)]
  BY SelectFromIs
<1> DEFINE N == Len(ranking)
           S == {n \in 0..N : f[n] \in Seq(C) /\ Greedily(f[n], ranking, n, pls)}
<1>2. N \in Nat
  OBVIOUS
<1>3. 0 \in S
  <2>1. f[0] \in Seq(C) /\ Len(f[0]) = 0
    BY <1>1 DEF Selects
  <2>2. Greedily(f[0], ranking, 0, pls)
    BY <2>1 DEF Greedily
  <2>3. QED BY <1>2, <2>1, <2>2
<1>4. ASSUME NEW n \in 0..N - 1, n \in S
      PROVE  n + 1 \in S
  <2>1. n + 1 \in 1..N /\ n + 1 \in 0..N /\ (n + 1) - 1 = n
    BY <1>2
  <2>2. f[n + 1] = IF Disjoint(f[n], ranking[n + 1], pls)
                   THEN Append(f[n], ranking[n + 1]) ELSE f[n]
    BY <1>1, <2>1 DEF Selects
  <2>3. f[n] \in Seq(C) /\ Greedily(f[n], ranking, n, pls)
    BY <1>4
  <2>4. f[n + 1] \in Seq(C) /\ Greedily(f[n + 1], ranking, n + 1, pls)
    BY <2>2, <2>3, GreedyStep
  <2>5. QED BY <2>1, <2>4
<1>5. N \in S
  <2>1. \A n \in 0..N : n \in S
    <3> HIDE DEF S, N
    <3>1. QED BY <1>2, <1>3, <1>4, UpTo
  <2>2. QED BY <1>2, <2>1
<1>6. QED BY <1>1, <1>5

-----------------------------------------------------------------------------
(* What a filter keeps.                                                    *)

\* Sift, element by element.
Sifts(f, s, S) ==
    /\ DOMAIN f = 0..Len(s)
    /\ f[0] = <<>>
    /\ \A n \in 1..Len(s) : f[n] = IF s[n] \in S THEN Append(f[n - 1], s[n]) ELSE f[n - 1]

\* Sift is computed element by element.
LEMMA SiftComputes ==
    ASSUME NEW T, NEW s \in Seq(T), NEW S
    PROVE  \E f : Sifts(f, s, S) /\ Sift(s, S) = f[Len(s)]
<1> DEFINE N == Len(s)
           Is(f) == f = [n \in 0..N |->
                            IF n = 0 THEN <<>>
                            ELSE IF s[n] \in S THEN Append(f[n - 1], s[n])
                            ELSE f[n - 1]]
           Take == [x \in Seq(T) \X (1..N) |->
                       IF s[x[2]] \in S THEN Append(x[1], s[x[2]]) ELSE x[1]]
           g == CHOOSE f : Is(f)
<1>1. Take \in [Seq(T) \X (1..N) -> Seq(T)]
  OBVIOUS
<1>2. N \in Nat /\ <<>> \in Seq(T)
  OBVIOUS
<1>3. PICK f : Computes(f, Seq(T), <<>>, N, Take)
  <2> HIDE DEF N, Take, Is
  <2>1. QED BY <1>1, <1>2, FoldExists
<1>4. Is(f)
  <2>1. \A n \in 1..N : f[n - 1] \in Seq(T)
    BY <1>2, <1>3 DEF Computes
  <2>2. \A n \in 0..N : n = 0 \/ n \in 1..N
    BY <1>2
  <2>3. \A n \in 0..N : f[n] = IF n = 0 THEN <<>>
                               ELSE IF s[n] \in S THEN Append(f[n - 1], s[n])
                               ELSE f[n - 1]
    BY <1>3, <2>1, <2>2 DEF Computes
  <2>4. QED BY <1>3, <2>3 DEF Computes
<1>5. Is(g)
  BY <1>4, Zenon
<1>6. Sift(s, S) = g[N]
  BY DEF Sift
<1> HIDE DEF g, Take, N
<1>7. DOMAIN g = 0..N
  BY <1>5
<1>8. g[0] = <<>>
  BY <1>2, <1>5
<1>9. ASSUME NEW n \in 1..N
      PROVE  g[n] = IF s[n] \in S THEN Append(g[n - 1], s[n]) ELSE g[n - 1]
  <2>1. n \in 0..N /\ n # 0
    BY <1>2
  <2>2. QED BY <1>5, <2>1, Zenon
<1>10. Sifts(g, s, S)
  BY <1>7, <1>8, <1>9 DEF Sifts, N
<1>11. QED BY <1>6, <1>10 DEF N

\* t has those of the first n elements of s that are in S, as often as s has them or less.
Sifted(t, s, n, S) ==
    /\ \A j \in 1..Len(t) : \E k \in 1..n : t[j] = s[k] /\ s[k] \in S
    /\ \A k \in 1..n : s[k] \in S => \E j \in 1..Len(t) : t[j] = s[k]
    /\ IsInjective(s) => \A i, j \in 1..Len(t) : t[i] = t[j] => i = j

\* One more element keeps that.
LEMMA SiftedNext ==
    ASSUME NEW T, NEW s \in Seq(T), NEW S, NEW t \in Seq(T), NEW n \in 0..Len(s) - 1,
           Sifted(t, s, n, S)
    PROVE  LET u == IF s[n + 1] \in S THEN Append(t, s[n + 1]) ELSE t
           IN  u \in Seq(T) /\ Sifted(u, s, n + 1, S)
<1>1. n \in Nat /\ Len(t) \in Nat /\ n + 1 \in 1..Len(s) /\ s[n + 1] \in T /\ DOMAIN s = 1..Len(s)
  BY ElementOfSeq
<1>2. \A k \in 1..n + 1 : k \in 1..n \/ k = n + 1
  BY <1>1
<1>3. \A k \in 1..n : k \in 1..n + 1 /\ k \in 1..Len(s) /\ k # n + 1
  BY <1>1
<1>4. CASE s[n + 1] \in S
  <2> DEFINE u == Append(t, s[n + 1])
  <2>1. /\ u \in Seq(T) /\ Len(u) = Len(t) + 1 /\ u[Len(t) + 1] = s[n + 1]
        /\ \A j \in 1..Len(t) : u[j] = t[j]
    BY <1>1
  <2> HIDE DEF u
  <2>2. \A j \in 1..Len(u) : j \in 1..Len(t) \/ j = Len(t) + 1
    BY <1>1, <2>1
  <2>3. Len(t) + 1 \in 1..Len(u) /\ n + 1 \in 1..n + 1 /\ \A j \in 1..Len(t) : j \in 1..Len(u)
    BY <1>1, <2>1
  <2>4. \A j \in 1..Len(u) : \E k \in 1..n + 1 : u[j] = s[k] /\ s[k] \in S
    <3>1. \A j \in 1..Len(t) : \E k \in 1..n : t[j] = s[k] /\ s[k] \in S
      BY DEF Sifted
    <3>2. \A j \in 1..Len(t) : \E k \in 1..n + 1 : u[j] = s[k] /\ s[k] \in S
      BY <1>3, <2>1, <3>1, Zenon
    <3>3. QED BY <1>4, <2>1, <2>2, <2>3, <3>2, Zenon
  <2>5. \A k \in 1..n + 1 : s[k] \in S => \E j \in 1..Len(u) : u[j] = s[k]
    <3>1. \A k \in 1..n : s[k] \in S => \E j \in 1..Len(t) : t[j] = s[k]
      BY DEF Sifted
    <3>2. \A k \in 1..n : s[k] \in S => \E j \in 1..Len(u) : u[j] = s[k]
      BY <2>1, <2>3, <3>1, Zenon
    <3>3. QED BY <1>2, <2>1, <2>3, <3>2, Zenon
  <2>6. ASSUME IsInjective(s) PROVE \A i, j \in 1..Len(u) : u[i] = u[j] => i = j
    <3>1. \A i, j \in 1..Len(t) : t[i] = t[j] => i = j
      BY <2>6 DEF Sifted
    <3>2. \A j \in 1..Len(t) : t[j] # s[n + 1]
      BY <1>1, <1>3, <2>6 DEF Sifted, IsInjective
    <3>3. QED BY <2>1, <2>2, <3>1, <3>2
  <2>7. QED BY <1>4, <2>1, <2>4, <2>5, <2>6 DEF Sifted, u
<1>5. CASE s[n + 1] \notin S
  BY <1>1, <1>2, <1>3, <1>5 DEF Sifted
<1>6. QED BY <1>4, <1>5

\* What is sifted: the elements of s that are in S, and none twice that s has once.
LEMMA SiftIs ==
    ASSUME NEW T, NEW s \in Seq(T), NEW S
    PROVE  /\ Sift(s, S) \in Seq(T)
           /\ Range(Sift(s, S)) = Range(s) \cap S
           /\ IsInjective(s) => IsInjective(Sift(s, S))
<1>1. PICK f : Sifts(f, s, S) /\ Sift(s, S) = f[Len(s)]
  BY SiftComputes
<1> DEFINE N == Len(s)
           G == {n \in 0..N : f[n] \in Seq(T) /\ Sifted(f[n], s, n, S)}
<1>2. N \in Nat /\ DOMAIN s = 1..N
  OBVIOUS
<1>3. 0 \in G
  <2>1. f[0] \in Seq(T) /\ Len(f[0]) = 0
    BY <1>1 DEF Sifts
  <2>2. Sifted(f[0], s, 0, S)
    BY <2>1 DEF Sifted
  <2>3. QED BY <1>2, <2>1, <2>2
<1>4. ASSUME NEW n \in 0..N - 1, n \in G PROVE n + 1 \in G
  <2>1. n + 1 \in 1..N /\ n + 1 \in 0..N /\ (n + 1) - 1 = n
    BY <1>2
  <2>2. f[n + 1] = IF s[n + 1] \in S THEN Append(f[n], s[n + 1]) ELSE f[n]
    BY <1>1, <2>1 DEF Sifts
  <2>3. f[n] \in Seq(T) /\ Sifted(f[n], s, n, S)
    BY <1>4
  <2>4. f[n + 1] \in Seq(T) /\ Sifted(f[n + 1], s, n + 1, S)
    BY <2>2, <2>3, SiftedNext
  <2>5. QED BY <2>1, <2>4
<1>5. N \in G
  <2>1. \A n \in 0..N : n \in G
    <3> HIDE DEF G, N
    <3>1. QED BY <1>2, <1>3, <1>4, UpTo
  <2>2. QED BY <1>2, <2>1
<1> DEFINE t == Sift(s, S)
<1>6. t \in Seq(T) /\ Sifted(t, s, N, S)
  BY <1>1, <1>5
<1> HIDE DEF t, N, G
<1>7. DOMAIN t = 1..Len(t)
  BY <1>6
<1>8. Range(t) = Range(s) \cap S
  <2>1. /\ \A j \in 1..Len(t) : \E k \in 1..N : t[j] = s[k] /\ s[k] \in S
        /\ \A k \in 1..N : s[k] \in S => \E j \in 1..Len(t) : t[j] = s[k]
    BY <1>6 DEF Sifted
  <2>2. Range(t) = {t[j] : j \in 1..Len(t)} /\ Range(s) = {s[k] : k \in 1..N}
    BY <1>2, <1>7 DEF Range
  <2>3. \A x \in Range(t) : x \in Range(s) \cap S
    BY <2>1, <2>2, Zenon
  <2>4. \A x \in Range(s) \cap S : x \in Range(t)
    BY <2>1, <2>2, Zenon
  <2>5. QED BY <2>3, <2>4
<1>9. IsInjective(s) => IsInjective(t)
  BY <1>6, <1>7 DEF Sifted, IsInjective
<1>10. QED BY <1>6, <1>8, <1>9 DEF t

\* Two sequences without an element in common, one after the other.
LEMMA JoinIs ==
    ASSUME NEW T, NEW s \in Seq(T), NEW t \in Seq(T),
           IsInjective(s), IsInjective(t), \A x \in Range(t) : x \notin Range(s)
    PROVE  /\ s \o t \in Seq(T)
           /\ Range(s \o t) = Range(s) \cup Range(t)
           /\ IsInjective(s \o t)
<1> DEFINE u == s \o t
           L == Len(s)
           M == Len(t)
<1>1. /\ u \in Seq(T) /\ Len(u) = L + M /\ L \in Nat /\ M \in Nat
      /\ DOMAIN s = 1..L /\ DOMAIN t = 1..M
      /\ \A i \in 1..L + M : u[i] = IF i <= L THEN s[i] ELSE t[i - L]
  BY ConcatProperties
<1> HIDE DEF u, L, M
<1>2. DOMAIN u = 1..L + M
  BY <1>1
<1>3. \A i \in 1..L + M : \/ i \in 1..L /\ u[i] = s[i]
                          \/ i - L \in 1..M /\ u[i] = t[i - L]
  BY <1>1
<1>4. \A i \in 1..L : i \in 1..L + M /\ u[i] = s[i]
  BY <1>1
<1>5. \A i \in 1..M : i + L \in 1..L + M /\ u[i + L] = t[i]
  <2> TAKE i \in 1..M
  <2>1. i + L \in 1..L + M /\ ~(i + L <= L) /\ (i + L) - L = i
    BY <1>1
  <2>2. u[i + L] = t[(i + L) - L]
    BY <1>1, <2>1
  <2>3. QED BY <2>1, <2>2
<1>6. /\ Range(u) = {u[i] : i \in 1..L + M}
      /\ Range(s) = {s[i] : i \in 1..L}
      /\ Range(t) = {t[i] : i \in 1..M}
  BY <1>1, <1>2 DEF Range
<1>7. Range(u) = Range(s) \cup Range(t)
  <2>1. \A x \in Range(u) : x \in Range(s) \cup Range(t)
    BY <1>3, <1>6
  <2>2. \A x \in Range(s) : x \in Range(u)
    BY <1>4, <1>6
  <2>3. \A x \in Range(t) : x \in Range(u)
    BY <1>5, <1>6
  <2>4. QED BY <2>1, <2>2, <2>3
<1>8. ASSUME NEW i \in 1..L + M, NEW j \in 1..L + M, u[i] = u[j] PROVE i = j
  <2>1. CASE i \in 1..L /\ u[i] = s[i] /\ j \in 1..L /\ u[j] = s[j]
    BY <1>1, <1>8, <2>1 DEF IsInjective
  <2>2. CASE i \in 1..L /\ u[i] = s[i] /\ j - L \in 1..M /\ u[j] = t[j - L]
    BY <1>6, <1>8, <2>2
  <2>3. CASE i - L \in 1..M /\ u[i] = t[i - L] /\ j \in 1..L /\ u[j] = s[j]
    BY <1>6, <1>8, <2>3
  <2>4. CASE i - L \in 1..M /\ u[i] = t[i - L] /\ j - L \in 1..M /\ u[j] = t[j - L]
    <3>1. i - L = j - L
      BY <1>1, <1>8, <2>4 DEF IsInjective
    <3>2. QED BY <1>1, <3>1
  <2>5. QED BY <1>3, <2>1, <2>2, <2>3, <2>4
<1>9. QED BY <1>1, <1>2, <1>7, <1>8 DEF IsInjective, u
=============================================================================
