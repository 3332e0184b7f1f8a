------------------------- MODULE MonitorLoopProofs -------------------------
(***************************************************************************)
(* The monitors of MonitorLoop, with the search of BestSelection, for any   *)
(* paths, pools, profits and blocks: the search by backtracking finds the   *)
(* best set of paths that share no pool, the greedy selection of the        *)
(* services comes within HOPS of it, the file of paths does not lag, the    *)
(* file of best paths is that of the last selection, and no path whose      *)
(* pools change is left unpriced.                                           *)
(***************************************************************************)
EXTENDS MonitorLoop, SequenceTheorems, CommonFacts, TLAPS

-----------------------------------------------------------------------------
(* The invariant.                                                           *)

Searching == pc \in {"enter", "loop", "reported"}

TypeInv ==
    /\ poolsOf \in PoolMaps
    /\ pc \in {"init", "head", "price", "sort", "enter", "loop", "reported", "down"}
    /\ Candidates \subseteq Paths
    /\ profit \in [Candidates -> Profits]
    /\ pc \in {"sort", "enter", "loop", "reported"} => Candidates # {}

\* The places in sorted, from the most profitable path on.
SortedInv ==
    Searching =>
        /\ sorted \in Seq(Candidates) /\ sorted # <<>>
        /\ \A i, j \in 1..Len(sorted) : i < j => profit[sorted[i]] >= profit[sorted[j]]

Rising(s) == \A i, j \in 1..Len(s) : i < j => s[i] < s[j]

\* The paths taken share no pool, and their pools are those in use.
TakenInv ==
    Searching =>
        /\ combination \in Seq(1..Len(sorted)) /\ Rising(combination)
        /\ at \in 1..Len(sorted) + 1
        /\ \A i \in ToSet(combination) : i < at
        /\ ConflictFree(ToSet(combination))
        /\ used_pools = UNION {PoolsAt(i) : i \in ToSet(combination)}

BestInv ==
    Searching =>
        /\ best_combination \in Seq(1..Len(sorted)) /\ Rising(best_combination)
        /\ ConflictFree(ToSet(best_combination))
        /\ best_total = Gain(ToSet(best_combination))

\* The backtracking comes to sets of places in the order of their first difference.
\* Still to come are those that have more than what is taken, from at on ...
Beyond(taken, places) ==
    /\ taken \subseteq places /\ taken # places
    /\ \A x \in places \ taken : x >= at

\* ... and those that leave a place out that is taken, and have a later one.
After(taken, places) ==
    \E d \in taken \ places :
        /\ \A x \in 1..d - 1 : x \in places <=> x \in taken
        /\ \E x \in places : x > d

Ahead(places) == Beyond(ToSet(combination), places) \/ After(ToSet(combination), places)

\* Whatever is not still to come gains no more than the best so far.
SearchedInv ==
    Searching =>
        \A places \in SUBSET (1..Len(sorted)) :
            ConflictFree(places) =>
                \/ Gain(places) <= best_total
                \/ Ahead(places)
                \/ pc = "enter" /\ places = ToSet(combination)

EndInv == pc = "reported" => combination = <<>> /\ at \notin DOMAIN sorted

Off(gain, was) == IF gain > was THEN gain - was ELSE was - gain

\* What is logged is in the file, and not off by the threshold.
LogInv ==
    /\ \A p \in DOMAIN logged : p \in DOMAIN csv /\ csv[p] = logged[p] /\ logged[p] \in Profits
    /\ pc \in {"sort", "enter", "loop", "reported"} =>
          \A p \in Candidates : /\ p \in DOMAIN logged
                                /\ Off(profit[p], logged[p]) * 100 < THRESHOLD * logged[p]

\* A path of the index whose pools have changed is searched next, and none is
\* stale when the program starts and builds the index.
StaleInv ==
    /\ stale \cap InIndex \subseteq (IF pc = "price" THEN Searched ELSE {})
    /\ pc = "down" => stale = {}

\* The last selection was written, and its best path is in the file.
ReportInv ==
    /\ last_selection # <<>> => best_path = last_selection[1]
    /\ pc = "reported" => best_combination # <<>> /\ best_path = Selection[1]

-----------------------------------------------------------------------------
(* What a set of places gains.                                              *)

\* What the path at a place gains.
Worth == [i \in 1..Len(sorted) |-> profit[sorted[i]]]

\* The candidates are sorted, and have profits.
Ranked == sorted \in Seq(Candidates) /\ profit \in [Candidates -> Profits]

\* Profits are positive numbers.
LEMMA ProfitsAre == Profits \subseteq Nat \ {0}
BY SelectionAssumption

\* It is a number.
LEMMA WorthType ==
    ASSUME Ranked
    PROVE  /\ Len(sorted) \in Nat /\ DOMAIN sorted = 1..Len(sorted)
           /\ IsFiniteSet(1..Len(sorted))
           /\ Worth \in [1..Len(sorted) -> Nat]
           /\ \A i \in 1..Len(sorted) : Worth[i] = profit[sorted[i]] /\ Worth[i] > 0
<1>1. Len(sorted) \in Nat /\ DOMAIN sorted = 1..Len(sorted)
  BY DEF Ranked
<1>2. IsFiniteSet(1..Len(sorted))
  BY <1>1, FS_Interval
<1>3. \A i \in 1..Len(sorted) : profit[sorted[i]] \in Nat /\ profit[sorted[i]] > 0
  <2> TAKE i \in 1..Len(sorted)
  <2>1. sorted[i] \in Candidates
    BY <1>1, ElementOfSeq DEF Ranked
  <2>2. profit[sorted[i]] \in Profits
    BY <2>1 DEF Ranked
  <2>3. \A x \in Profits : x \in Nat /\ x > 0
    BY ProfitsAre
  <2>4. QED BY <2>2, <2>3, Zenon
<1>4. QED BY <1>1, <1>2, <1>3 DEF Worth

\* Gain is the sum over the places.
LEMMA GainIs ==
    ASSUME Ranked
    PROVE  \A places \in SUBSET (1..Len(sorted)) : Gain(places) = SumOver(Worth, places)
<1> TAKE places \in SUBSET (1..Len(sorted))
<1> DEFINE Is(g) == g = [s \in SUBSET places |->
                            IF s = {} THEN 0 ELSE profit[sorted[Pick(s)]] + g[s \ {Pick(s)}]]
           g0 == CHOOSE g : Is(g)
<1>1. IsFiniteSet(places)
  BY WorthType, FS_Subset
<1>2. \A s \in SUBSET places : s # {} => Worth[Pick(s)] = profit[sorted[Pick(s)]]
  BY PickIn, WorthType
<1>3. ASSUME NEW g PROVE Is(g) <=> SumsOn(g, Worth, places)
  <2> DEFINE A == [s \in SUBSET places |->
                      IF s = {} THEN 0 ELSE profit[sorted[Pick(s)]] + g[s \ {Pick(s)}]]
             B == [s \in SUBSET places |->
                      IF s = {} THEN 0 ELSE Worth[Pick(s)] + g[s \ {Pick(s)}]]
  <2>1. A = B
    BY <1>2
  <2> HIDE DEF A, B
  <2>2. Is(g) <=> g = A
    BY DEF A
  <2>3. SumsOn(g, Worth, places) <=> g = B
    BY DEF SumsOn, B
  <2>4. QED BY <2>1, <2>2, <2>3
<1>4. Gain(places) = g0[places]
  BY Zenon DEF Gain, MapThenSumSet, MapThenFoldSet, Pick
<1> HIDE DEF Is
<1>5. PICK h : SumsOn(h, Worth, places) /\ SumOver(Worth, places) = h[places]
  <2>1. \E h : SumsOn(h, Worth, places)
    BY <1>1, SumsExist
  <2>2. QED BY <2>1 DEF SumOver
<1>6. SumsOn(g0, Worth, places)
  <2>1. Is(h)
    BY <1>3, <1>5
  <2>2. Is(g0)
    BY <2>1, Zenon
  <2>3. QED BY <1>3, <2>2
<1> HIDE DEF g0
<1>7. g0[places] = h[places]
  <2>1. places \subseteq places /\ AgreeOn(Worth, Worth, places)
    BY DEF AgreeOn
  <2>2. QED BY <1>1, <1>5, <1>6, <2>1, SumsAgree
<1>8. QED BY <1>4, <1>5, <1>7

\* It is a number, nothing for no place, and positive for any other.
LEMMA GainType ==
    ASSUME Ranked
    PROVE  /\ \A places \in SUBSET (1..Len(sorted)) : Gain(places) \in Nat
           /\ Gain({}) = 0
           /\ \A places \in SUBSET (1..Len(sorted)) : places # {} => Gain(places) > 0
<1>1. /\ IsFiniteSet(1..Len(sorted)) /\ Worth \in [1..Len(sorted) -> Nat]
      /\ \A i \in 1..Len(sorted) : Worth[i] > 0
  BY WorthType
<1>2. \A places \in SUBSET (1..Len(sorted)) : Gain(places) \in Nat
  BY <1>1, GainIs, SumType
<1>3. \A places \in SUBSET (1..Len(sorted)) : (Gain(places) = 0) <=> (\A x \in places : Worth[x] = 0)
  <2>1. \A places \in SUBSET (1..Len(sorted)) :
           (SumOver(Worth, places) = 0) <=> (\A x \in places : Worth[x] = 0)
    BY <1>1, SumZero
  <2>2. QED BY <2>1, GainIs
<1>4. Gain({}) = 0
  BY <1>3
<1>5. ASSUME NEW places \in SUBSET (1..Len(sorted)), places # {} PROVE Gain(places) > 0
  <2>1. PICK x \in places : TRUE
    BY <1>5
  <2>2. Worth[x] # 0
    BY <1>1, <2>1
  <2>3. Gain(places) # 0
    BY <1>3, <2>1, <2>2
  <2>4. QED BY <1>2, <2>3
<1>6. QED BY <1>2, <1>4, <1>5

\* It depends on the order and the profits only.
LEMMA GainSame ==
    ASSUME UNCHANGED <<profit, sorted>>, NEW places
    PROVE  Gain(places)' = Gain(places)
BY Zenon DEF Gain, MapThenSumSet, MapThenFoldSet

-----------------------------------------------------------------------------
(* Rising sequences of places.                                              *)

\* Places of a sequence of numbers are numbers.
LEMMA PlacesAre ==
    ASSUME NEW n \in Nat, NEW s \in Seq(1..n)
    PROVE  /\ Len(s) \in Nat /\ DOMAIN s = 1..Len(s)
           /\ \A i \in 1..Len(s) : s[i] \in 1..n
           /\ ToSet(s) = {s[i] : i \in 1..Len(s)}
           /\ ToSet(s) \subseteq 1..n
<1>1. Len(s) \in Nat /\ DOMAIN s = 1..Len(s)
  OBVIOUS
<1>2. \A i \in 1..Len(s) : s[i] \in 1..n
  BY ElementOfSeq
<1>3. QED BY <1>1, <1>2 DEF ToSet

\* A place behind all others is appended.
LEMMA RisingAppend ==
    ASSUME NEW n \in Nat, NEW s \in Seq(1..n), Rising(s), NEW e \in 1..n, \A i \in ToSet(s) : i < e
    PROVE  /\ Append(s, e) \in Seq(1..n) /\ Rising(Append(s, e))
           /\ ToSet(Append(s, e)) = ToSet(s) \cup {e}
<1> DEFINE t == Append(s, e)
<1>1. /\ t \in Seq(1..n) /\ Len(t) = Len(s) + 1 /\ t[Len(s) + 1] = e
      /\ \A i \in 1..Len(s) : t[i] = s[i]
  OBVIOUS
<1> HIDE DEF t
<1>2. /\ Len(s) \in Nat
      /\ \A i \in 1..Len(s) : s[i] \in 1..n /\ s[i] < e
      /\ ToSet(s) = {s[i] : i \in 1..Len(s)}
      /\ ToSet(t) = {t[i] : i \in 1..Len(t)}
  BY <1>1, PlacesAre
<1>3. \A i \in 1..Len(t) : i \in 1..Len(s) \/ i = Len(s) + 1
  BY <1>1, <1>2
<1>4. Rising(t)
  <2> SUFFICES ASSUME NEW i \in 1..Len(t), NEW j \in 1..Len(t), i < j PROVE t[i] < t[j]
    BY DEF Rising
  <2>1. i \in 1..Len(s) /\ t[i] = s[i]
    BY <1>1, <1>2, <1>3
  <2>2. CASE j \in 1..Len(s)
    BY <1>1, <2>1, <2>2 DEF Rising
  <2>3. CASE j = Len(s) + 1
    BY <1>1, <1>2, <2>1, <2>3
  <2>4. QED BY <1>3, <2>2, <2>3
<1>5. ToSet(t) = ToSet(s) \cup {e}
  <2>1. ASSUME NEW x \in ToSet(t) PROVE x \in ToSet(s) \cup {e}
    <3>1. PICK i \in 1..Len(t) : x = t[i]
      BY <1>2, <2>1
    <3>2. QED BY <1>1, <1>2, <1>3, <3>1
  <2>2. ASSUME NEW x \in ToSet(s) PROVE x \in ToSet(t)
    <3>1. PICK i \in 1..Len(s) : x = s[i]
      BY <1>2, <2>2
    <3>2. i \in 1..Len(t)
      BY <1>1, <1>2
    <3>3. QED BY <1>1, <1>2, <3>1, <3>2
  <2>3. e \in ToSet(t)
    <3>1. Len(s) + 1 \in 1..Len(t)
      BY <1>1, <1>2
    <3>2. QED BY <1>1, <1>2, <3>1
  <2>4. QED BY <2>1, <2>2, <2>3
<1>6. QED BY <1>1, <1>4, <1>5 DEF t

\* The last place is taken off.
LEMMA RisingFront ==
    ASSUME NEW n \in Nat, NEW s \in Seq(1..n), Rising(s), s # <<>>
    PROVE  /\ Front(s) \in Seq(1..n) /\ Rising(Front(s))
           /\ Last(s) \in ToSet(s) /\ Last(s) \in 1..n
           /\ ToSet(Front(s)) = ToSet(s) \ {Last(s)}
           /\ \A i \in ToSet(Front(s)) : i < Last(s)
<1> DEFINE t == Front(s)
           m == Len(s)
<1>1. /\ m \in Nat /\ m # 0
      /\ \A i \in 1..m : s[i] \in 1..n
      /\ ToSet(s) = {s[i] : i \in 1..m}
  BY PlacesAre, EmptySeq
<1>2. t \in Seq(1..n) /\ Len(t) = m - 1 /\ \A i \in 1..m - 1 : t[i] = s[i]
  <2>1. /\ SubSeq(s, 1, m - 1) \in Seq(1..n)
        /\ Len(SubSeq(s, 1, m - 1)) = m - 1
        /\ \A i \in 1..m - 1 : SubSeq(s, 1, m - 1)[i] = s[i]
    <3>1. 1 \in Int /\ m - 1 \in Int /\ \A i \in 1..m - 1 : s[i] \in 1..n
      BY <1>1
    <3> DEFINE u == SubSeq(s, 1, m - 1)
    <3>2. /\ u \in Seq(1..n)
          /\ Len(u) = IF 1 <= m - 1 THEN (m - 1) - 1 + 1 ELSE 0
          /\ \A i \in 1..(m - 1) - 1 + 1 : u[i] = s[1 + i - 1]
      <4> HIDE DEF m
      <4>1. QED BY <3>1, SubSeqProperties
    <3>3. \A i \in 1..m - 1 : i \in 1..(m - 1) - 1 + 1 /\ 1 + i - 1 = i
      BY <1>1
    <3> HIDE DEF u
    <3>4. Len(u) = m - 1 /\ \A i \in 1..m - 1 : u[i] = s[i]
      <4>1. m \in Nat /\ m # 0
        BY <1>1
      <4> HIDE DEF m
      <4>2. Len(u) = m - 1
        BY <3>2, <4>1
      <4>3. ASSUME NEW i \in 1..m - 1 PROVE u[i] = s[i]
        <5>1. i \in 1..(m - 1) - 1 + 1 /\ 1 + i - 1 = i
          BY <3>3
        <5>2. u[i] = s[1 + i - 1]
          BY <3>2, <5>1, Zenon
        <5>3. QED BY <5>1, <5>2
      <4>4. QED BY <4>2, <4>3
    <3>5. QED BY <3>2, <3>4 DEF u
  <2>2. QED BY <2>1 DEF Front
<1> HIDE DEF t
<1>3. ToSet(t) = {t[i] : i \in 1..m - 1}
  BY <1>2, PlacesAre
<1>4. Last(s) = s[m] /\ m \in 1..m
  BY <1>1 DEF Last
<1>5. \A i \in 1..m - 1 : i \in 1..m /\ i < m
  BY <1>1
<1>6. \A i \in 1..m - 1 : s[i] < s[m]
  BY <1>4, <1>5 DEF Rising
<1>7. \A i \in 1..m : i \in 1..m - 1 \/ i = m
  BY <1>1
<1>8. Rising(t)
  BY <1>2, <1>5 DEF Rising
<1>9. ToSet(t) = ToSet(s) \ {Last(s)}
  <2>1. ASSUME NEW x \in ToSet(t) PROVE x \in ToSet(s) \ {Last(s)}
    <3>1. PICK i \in 1..m - 1 : x = s[i]
      BY <1>2, <1>3, <2>1
    <3>2. s[i] # s[m]
      BY <1>1, <1>4, <1>5, <1>6
    <3>3. QED BY <1>1, <1>4, <1>5, <3>1, <3>2
  <2>2. ASSUME NEW x \in ToSet(s), x # Last(s) PROVE x \in ToSet(t)
    <3>1. PICK i \in 1..m : x = s[i]
      BY <1>1, <2>2
    <3>2. i \in 1..m - 1
      BY <1>4, <1>7, <2>2, <3>1
    <3>3. QED BY <1>2, <1>3, <3>1, <3>2
  <2>3. QED BY <2>1, <2>2
<1>10. \A i \in ToSet(t) : i < Last(s)
  BY <1>2, <1>3, <1>4, <1>6
<1>11. Last(s) \in ToSet(s) /\ Last(s) \in 1..n
  BY <1>1, <1>4
<1>12. QED BY <1>2, <1>8, <1>9, <1>10, <1>11 DEF t

\* A sequence without places is empty.
LEMMA EmptyPlaces ==
    ASSUME NEW n \in Nat, NEW s \in Seq(1..n)
    PROVE  (s = <<>>) <=> (ToSet(s) = {})
<1>1. Len(s) \in Nat /\ ToSet(s) = {s[i] : i \in 1..Len(s)}
  BY PlacesAre
<1>2. (s = <<>>) <=> (Len(s) = 0)
  BY EmptySeq
<1>3. Len(s) # 0 => s[1] \in ToSet(s)
  BY <1>1
<1>4. Len(s) = 0 => ToSet(s) = {}
  BY <1>1
<1>5. QED BY <1>2, <1>3, <1>4

-----------------------------------------------------------------------------
(* The steps of the search.                                                 *)

\* The part of the invariant that the steps of the search need and keep.
SearchInv == TypeInv /\ SortedInv /\ TakenInv /\ BestInv /\ SearchedInv

\* Gains, conflicts and pools depend on the order and what it is of.
LEMMA SearchFrame ==
    ASSUME UNCHANGED <<poolsOf, profit, sorted>>, NEW places, NEW i
    PROVE  /\ Gain(places)' = Gain(places)
           /\ ConflictFree(places)' = ConflictFree(places)
           /\ PoolsAt(i)' = PoolsAt(i)
<1>1. Gain(places)' = Gain(places)
  BY GainSame
<1>2. ConflictFree(places)' = ConflictFree(places)
  BY DEF ConflictFree, SharesPool
<1>3. PoolsAt(i)' = PoolsAt(i)
  BY DEF PoolsAt
<1>4. QED BY <1>1, <1>2, <1>3

\* What it says of a search that is under way.
LEMMA SearchFacts ==
    ASSUME SearchInv, Searching
    PROVE  /\ Ranked /\ Len(sorted) \in Nat /\ DOMAIN sorted = 1..Len(sorted)
           /\ combination \in Seq(1..Len(sorted)) /\ ToSet(combination) \subseteq 1..Len(sorted)
           /\ at \in 1..Len(sorted) + 1
           /\ \A j \in ToSet(combination) : j < at
           /\ \A i, j \in ToSet(combination) : i # j => PoolsAt(i) \cap PoolsAt(j) = {}
           /\ used_pools = UNION {PoolsAt(j) : j \in ToSet(combination)}
<1>1. Ranked
  BY DEF SearchInv, TypeInv, SortedInv, Ranked
<1>2. Len(sorted) \in Nat /\ DOMAIN sorted = 1..Len(sorted)
  BY <1>1, WorthType
<1>3. ToSet(combination) \subseteq 1..Len(sorted)
  BY <1>2, PlacesAre DEF SearchInv, TakenInv
<1>4. \A i, j \in ToSet(combination) : i # j => PoolsAt(i) \cap PoolsAt(j) = {}
  BY DEF SearchInv, TakenInv, ConflictFree, SharesPool, PoolsAt
<1>5. QED BY <1>1, <1>2, <1>3, <1>4 DEF SearchInv, TakenInv

\* The first visit of a combination: it is compared with the best.
LEMMA EnterKeeps ==
    ASSUME SearchInv, Enter
    PROVE  SearchInv'
<1> DEFINE C == ToSet(combination)
<1>1. /\ pc = "enter" /\ pc' = "loop" /\ Searching
      /\ UNCHANGED <<poolsOf, profit, sorted, combination, used_pools, at>>
  BY DEF Enter, Searching
<1>2. /\ \A places : Gain(places)' = Gain(places) /\ ConflictFree(places)' = ConflictFree(places)
      /\ \A i : PoolsAt(i)' = PoolsAt(i)
  BY <1>1, SearchFrame
<1>3. Ranked /\ C \subseteq 1..Len(sorted) /\ Len(sorted) \in Nat
  BY <1>1, SearchFacts
<1>4. TypeInv' /\ SortedInv'
  BY <1>1 DEF SearchInv, TypeInv, SortedInv, Searching, Candidates
<1>5. TakenInv'
  BY <1>1, <1>2 DEF SearchInv, TakenInv, Searching
<1>6. BestInv'
  BY <1>1, <1>2 DEF SearchInv, BestInv, TakenInv, Searching, Enter
<1>7. best_total' >= best_total /\ best_total' >= Gain(C) /\ best_total \in Nat /\ Gain(C) \in Nat
      /\ best_total' \in Nat
  <2>1. Gain(C) \in Nat
    BY <1>3, GainType
  <2>2. best_total \in Nat
    <3>1. ToSet(best_combination) \in SUBSET (1..Len(sorted))
      BY <1>1, <1>3, PlacesAre DEF SearchInv, BestInv
    <3>2. QED BY <1>1, <1>3, <3>1, GainType DEF SearchInv, BestInv
  <2>3. QED BY <2>1, <2>2 DEF Enter
<1>8. ASSUME NEW places \in SUBSET (1..Len(sorted)), ConflictFree(places)
      PROVE  Gain(places) <= best_total' \/ Ahead(places)
  <2>1. Gain(places) \in Nat
    BY <1>3, GainType
  <2>2. Gain(places) <= best_total \/ Ahead(places) \/ places = C
    BY <1>1, <1>8 DEF SearchInv, SearchedInv
  <2>3. QED BY <1>7, <2>1, <2>2
<1>9. \A places : Ahead(places)' <=> Ahead(places)
  BY <1>1 DEF Ahead, Beyond, After
<1>10. SearchedInv'
  BY <1>1, <1>2, <1>8, <1>9 DEF SearchedInv
<1>11. QED BY <1>4, <1>5, <1>6, <1>10 DEF SearchInv

\* A path that shares a pool with one that is taken is passed over.
LEMMA SkipKeeps ==
    ASSUME SearchInv, Skip
    PROVE  SearchInv'
<1> DEFINE C == ToSet(combination)
           N == Len(sorted)
<1>1. /\ pc = "loop" /\ pc' = "loop" /\ Searching /\ at' = at + 1
      /\ at \in DOMAIN sorted /\ PoolsAt(at) \cap used_pools # {}
      /\ UNCHANGED <<poolsOf, profit, sorted, combination, used_pools, best_combination, best_total>>
  BY DEF Skip, Searching
<1>2. /\ \A places : Gain(places)' = Gain(places) /\ ConflictFree(places)' = ConflictFree(places)
      /\ \A i : PoolsAt(i)' = PoolsAt(i)
  BY <1>1, SearchFrame
<1>3. /\ C \subseteq 1..N /\ N \in Nat /\ at \in 1..N
      /\ \A j \in C : j < at
      /\ used_pools = UNION {PoolsAt(j) : j \in C}
  BY <1>1, SearchFacts
<1>4. TypeInv' /\ SortedInv'
  BY <1>1 DEF SearchInv, TypeInv, SortedInv, Searching, Candidates
<1>5. TakenInv'
  <2>1. at' \in 1..N + 1 /\ \A j \in C : j < at'
    BY <1>1, <1>3
  <2>2. QED BY <1>1, <1>2, <2>1 DEF SearchInv, TakenInv, Searching
<1>6. BestInv'
  BY <1>1, <1>2 DEF SearchInv, BestInv, Searching
<1>7. ASSUME NEW places \in SUBSET (1..N), ConflictFree(places), Ahead(places)
      PROVE  Ahead(places)'
  <2>1. CASE After(C, places)
    BY <1>1, <2>1 DEF Ahead, After
  <2>2. CASE Beyond(C, places)
    <3>1. PICK j \in C : PoolsAt(at) \cap PoolsAt(j) # {}
      BY <1>1, <1>3
    <3>2. at \notin places
      <4>1. j \in places /\ j # at
        BY <1>3, <2>2 DEF Beyond
      <4>2. QED BY <1>7, <3>1, <4>1 DEF ConflictFree, SharesPool, PoolsAt
    <3>3. \A x \in places \ C : x >= at + 1
      <4>1. \A x \in places \ C : x >= at /\ x # at /\ x \in Nat
        BY <1>3, <2>2, <3>2 DEF Beyond
      <4>2. QED BY <1>3, <4>1
    <3>4. Beyond(C, places)'
      BY <1>1, <2>2, <3>3 DEF Beyond
    <3>5. QED BY <3>4 DEF Ahead
  <2>3. QED BY <1>7, <2>1, <2>2 DEF Ahead
<1>8. SearchedInv'
  BY <1>1, <1>2, <1>7 DEF SearchInv, SearchedInv
<1>9. QED BY <1>4, <1>5, <1>6, <1>8 DEF SearchInv

\* A path is taken: combinations without it and with a later one come after it.
LEMMA PushKeeps ==
    ASSUME SearchInv, Push
    PROVE  SearchInv'
<1> DEFINE C == ToSet(combination)
           N == Len(sorted)
<1>1. /\ pc = "loop" /\ pc' = "enter" /\ Searching /\ at' = at + 1
      /\ at \in DOMAIN sorted /\ PoolsAt(at) \cap used_pools = {}
      /\ used_pools' = used_pools \cup PoolsAt(at)
      /\ combination' = Append(combination, at)
      /\ UNCHANGED <<poolsOf, profit, sorted, best_combination, best_total>>
  BY DEF Push, Searching
<1>2. /\ \A places : Gain(places)' = Gain(places) /\ ConflictFree(places)' = ConflictFree(places)
      /\ \A i : PoolsAt(i)' = PoolsAt(i)
  BY <1>1, SearchFrame
<1>3. /\ combination \in Seq(1..N) /\ C \subseteq 1..N /\ N \in Nat /\ at \in 1..N
      /\ \A j \in C : j < at
      /\ \A i, j \in C : i # j => PoolsAt(i) \cap PoolsAt(j) = {}
      /\ used_pools = UNION {PoolsAt(j) : j \in C}
      /\ Rising(combination)
  BY <1>1, SearchFacts DEF SearchInv, TakenInv
<1>4. TypeInv' /\ SortedInv'
  BY <1>1 DEF SearchInv, TypeInv, SortedInv, Searching, Candidates
<1>5. /\ combination' \in Seq(1..N) /\ Rising(combination')
      /\ ToSet(combination') = C \cup {at}
  BY <1>1, <1>3, RisingAppend
<1>6. ConflictFree(C \cup {at})
  <2>1. \A j \in C : PoolsAt(at) \cap PoolsAt(j) = {} /\ PoolsAt(j) \cap PoolsAt(at) = {}
    BY <1>1, <1>3
  <2>2. QED BY <1>3, <2>1 DEF ConflictFree, SharesPool, PoolsAt
<1>7. TakenInv'
  <2>1. at' \in 1..N + 1 /\ \A j \in C \cup {at} : j < at'
    BY <1>1, <1>3
  <2>2. used_pools' = UNION {PoolsAt(j) : j \in C \cup {at}}
    BY <1>1, <1>3
  <2>3. \A i, j \in ToSet(combination') : i # j => ~SharesPool(sorted'[i], sorted'[j], poolsOf')
    BY <1>1, <1>5, <1>6 DEF ConflictFree
  <2>4. ConflictFree(ToSet(combination))'
    BY <2>3 DEF ConflictFree
  <2>5. used_pools' = UNION {PoolsAt(j)' : j \in ToSet(combination')}
    BY <1>2, <1>5, <2>2
  <2>6. \A j \in ToSet(combination') : j < at'
    BY <1>5, <2>1
  <2>7. QED BY <1>1, <1>5, <2>1, <2>4, <2>5, <2>6 DEF TakenInv
<1>8. BestInv'
  BY <1>1, <1>2 DEF SearchInv, BestInv, Searching
<1>9. ASSUME NEW places \in SUBSET (1..N), ConflictFree(places), Ahead(places)
      PROVE  Ahead(places)' \/ places = ToSet(combination')
  <2> DEFINE T == C \cup {at}
  <2>1. CASE After(C, places)
    <3>1. PICK d \in C \ places : /\ \A x \in 1..d - 1 : x \in places <=> x \in C
                                  /\ \E x \in places : x > d
      BY <2>1 DEF After
    <3>2. \A x \in 1..d - 1 : x # at
      BY <1>3
    <3>3. After(T, places)
      BY <3>1, <3>2 DEF After
    <3>4. QED BY <1>5, <3>3 DEF Ahead, After
  <2>2. CASE Beyond(C, places)
    <3>1. C \subseteq places /\ places # C /\ \A x \in places \ C : x >= at /\ x \in Nat
      BY <1>3, <2>2 DEF Beyond
    <3>2. CASE at \in places
      <4>1. \A x \in places \ T : x >= at + 1
        <5>1. \A x \in places \ T : x >= at /\ x # at /\ x \in Nat
          BY <3>1
        <5>2. QED BY <1>3, <5>1
      <4>2. T \subseteq places
        BY <3>1, <3>2
      <4>3. CASE places # T
        <5>1. Beyond(ToSet(combination), places)'
          BY <1>1, <1>5, <4>1, <4>2, <4>3 DEF Beyond
        <5>2. QED BY <5>1 DEF Ahead
      <4>4. QED BY <1>5, <4>3
    <3>3. CASE at \notin places
      <4>1. at \in T \ places
        BY <3>3
      <4>2. \A x \in 1..at - 1 : x \in places <=> x \in T
        <5>1. \A x \in 1..at - 1 : x # at /\ ~(x >= at)
          BY <1>3
        <5>2. QED BY <3>1, <5>1
      <4>3. \E x \in places : x > at
        <5>1. PICK x \in places : x \notin C
          BY <3>1
        <5>2. x >= at /\ x # at /\ x \in Nat
          BY <3>1, <3>3, <5>1
        <5>3. QED BY <1>3, <5>2
      <4>4. After(T, places)
        BY <4>1, <4>2, <4>3 DEF After
      <4>5. QED BY <1>5, <4>4 DEF Ahead, After
    <3>4. QED BY <3>2, <3>3
  <2>3. QED BY <1>9, <2>1, <2>2 DEF Ahead
<1>10. SearchedInv'
  <2>1. \A places \in SUBSET (1..N) :
           ConflictFree(places) => Gain(places) <= best_total \/ Ahead(places)
    BY <1>1 DEF SearchInv, SearchedInv
  <2>2. QED BY <1>1, <1>2, <1>9, <2>1 DEF SearchedInv
<1>11. QED BY <1>4, <1>7, <1>8, <1>10 DEF SearchInv

\* The last path is given back when nothing behind it is left to be taken.
LEMMA PopKeeps ==
    ASSUME SearchInv, Pop
    PROVE  SearchInv'
<1> DEFINE C == ToSet(combination)
           N == Len(sorted)
           l == Last(combination)
<1>1. /\ pc = "loop" /\ pc' = "loop" /\ Searching /\ at' = l + 1
      /\ at \notin DOMAIN sorted /\ combination # <<>>
      /\ used_pools' = used_pools \ PoolsAt(l)
      /\ combination' = Front(combination)
      /\ UNCHANGED <<poolsOf, profit, sorted, best_combination, best_total>>
  BY DEF Pop, Searching
<1>2. /\ \A places : Gain(places)' = Gain(places) /\ ConflictFree(places)' = ConflictFree(places)
      /\ \A i : PoolsAt(i)' = PoolsAt(i)
  BY <1>1, SearchFrame
<1>3. /\ combination \in Seq(1..N) /\ C \subseteq 1..N /\ N \in Nat /\ at = N + 1
      /\ \A i, j \in C : i # j => PoolsAt(i) \cap PoolsAt(j) = {}
      /\ used_pools = UNION {PoolsAt(j) : j \in C}
      /\ Rising(combination)
  BY <1>1, SearchFacts DEF SearchInv, TakenInv
<1>4. TypeInv' /\ SortedInv'
  BY <1>1 DEF SearchInv, TypeInv, SortedInv, Searching, Candidates
<1>5. /\ combination' \in Seq(1..N) /\ Rising(combination')
      /\ l \in C /\ l \in 1..N
      /\ ToSet(combination') = C \ {l}
      /\ \A j \in C \ {l} : j < l
  <2> HIDE DEF N, l, C
  <2>1. QED BY <1>1, <1>3, RisingFront DEF l, C
<1> HIDE DEF l
<1>6. ConflictFree(C \ {l})
  BY <1>1 DEF SearchInv, TakenInv, ConflictFree
<1>7. TakenInv'
  <2>1. at' \in 1..N + 1 /\ \A j \in C \ {l} : j < at'
    BY <1>1, <1>3, <1>5
  <2>2. used_pools' = UNION {PoolsAt(j) : j \in C \ {l}}
    <3>1. \A j \in C \ {l} : PoolsAt(j) \cap PoolsAt(l) = {}
      BY <1>3, <1>5
    <3>2. QED BY <1>1, <1>3, <1>5, <3>1
  <2>3. \A i, j \in ToSet(combination') : i # j => ~SharesPool(sorted'[i], sorted'[j], poolsOf')
    BY <1>1, <1>5, <1>6 DEF ConflictFree
  <2>4. ConflictFree(ToSet(combination))'
    BY <2>3 DEF ConflictFree
  <2>5. used_pools' = UNION {PoolsAt(j)' : j \in ToSet(combination')}
    BY <1>2, <1>5, <2>2
  <2>6. \A j \in ToSet(combination') : j < at'
    BY <1>5, <2>1
  <2>7. QED BY <1>1, <1>5, <2>1, <2>4, <2>5, <2>6 DEF TakenInv
<1>8. BestInv'
  BY <1>1, <1>2 DEF SearchInv, BestInv, Searching
<1>9. ASSUME NEW places \in SUBSET (1..N), Ahead(places)
      PROVE  Ahead(places)'
  <2> DEFINE T == C \ {l}
  <2>1. ~Beyond(C, places)
    <3>1. \A x \in places : ~(x >= N + 1)
      BY <1>3
    <3>2. QED BY <1>3, <3>1 DEF Beyond
  <2>2. PICK d \in C \ places : /\ \A x \in 1..d - 1 : x \in places <=> x \in C
                                /\ \E x \in places : x > d
    BY <1>9, <2>1 DEF Ahead, After
  <2>3. CASE d = l
    <3>1. T \subseteq places
      <4>1. \A x \in T : x \in 1..l - 1
        BY <1>3, <1>5
      <4>2. QED BY <2>2, <2>3, <4>1
    <3>2. \A x \in places \ T : x >= l + 1
      <4>1. \A x \in places \ T : x # l /\ x \in 1..N /\ x \notin C
        BY <2>2, <2>3
      <4>2. \A x \in places \ T : x \notin 1..l - 1
        BY <2>2, <2>3, <4>1
      <4>3. QED BY <1>5, <4>1, <4>2
    <3>3. places # T
      <4>1. PICK x \in places : x > l
        BY <2>2, <2>3
      <4>2. x \notin T
        <5>1. x \in Nat /\ l \in Nat
          BY <1>5
        <5>2. QED BY <1>5, <4>1, <5>1
      <4>3. QED BY <4>1, <4>2
    <3>4. Beyond(ToSet(combination), places)'
      BY <1>1, <1>5, <3>1, <3>2, <3>3 DEF Beyond
    <3>5. QED BY <3>4 DEF Ahead
  <2>4. CASE d # l
    <3>1. d < l /\ d \in Nat /\ l \in Nat
      BY <1>3, <1>5, <2>2, <2>4
    <3>2. \A x \in 1..d - 1 : x # l
      BY <3>1
    <3>3. After(T, places)
      BY <2>2, <2>4, <3>2 DEF After
    <3>4. QED BY <1>5, <3>3 DEF Ahead, After
  <2>5. QED BY <2>3, <2>4
<1>10. SearchedInv'
  <2>1. \A places \in SUBSET (1..N) :
           ConflictFree(places) => Gain(places) <= best_total \/ Ahead(places)
    BY <1>1 DEF SearchInv, SearchedInv
  <2>2. QED BY <1>1, <1>2, <1>9, <2>1 DEF SearchedInv
<1>11. QED BY <1>4, <1>7, <1>8, <1>10 DEF SearchInv

\* The search begins with nothing taken: everything is still to come.
LEMMA SortKeeps ==
    ASSUME SearchInv, NEW order \in SetToSeqs(Candidates), Sort(order)
    PROVE  SearchInv'
<1>1. /\ pc = "sort" /\ pc' = "enter" /\ Searching'
      /\ sorted' = order /\ combination' = <<>> /\ used_pools' = {} /\ at' = 1
      /\ best_combination' = <<>> /\ best_total' = 0
      /\ ToSet(order) = Candidates
      /\ \A i, j \in DOMAIN order : i < j => profit[order[i]] >= profit[order[j]]
      /\ UNCHANGED <<poolsOf, profit>>
  BY DEF Sort, Searching
<1>2. /\ Candidates # {} /\ Candidates \subseteq Paths /\ profit \in [Candidates -> Profits]
      /\ poolsOf \in PoolMaps
  BY <1>1 DEF SearchInv, TypeInv
<1>3. order \in Seq(Candidates) /\ Len(order) \in Nat /\ DOMAIN order = 1..Len(order)
  <2>1. IsFiniteSet(Candidates)
    BY <1>2, SelectionAssumption, FS_Subset
  <2>2. Cardinality(Candidates) \in Nat
    BY <2>1, FS_CardinalityType
  <2>3. order \in [1..Cardinality(Candidates) -> Candidates]
    BY DEF SetToSeqs
  <2>4. QED BY <2>2, <2>3
<1>4. order # <<>>
  <2>1. DOMAIN order # {}
    BY <1>1, <1>2 DEF ToSet
  <2>2. QED BY <2>1
<1>5. Candidates' = Candidates
  BY <1>1 DEF Candidates
<1>6. TypeInv' /\ SortedInv'
  BY <1>1, <1>2, <1>3, <1>4, <1>5 DEF TypeInv, SortedInv
<1>7. ToSet(<<>>) = {} /\ <<>> \in Seq(1..Len(order)) /\ Rising(<<>>)
  BY DEF ToSet, Rising
<1>8. TakenInv'
  BY <1>1, <1>3, <1>7 DEF TakenInv, ConflictFree
<1>9. Gain({})' = 0
  <2>1. Ranked => Gain({}) = 0
    BY GainType
  <2>2. (Ranked => Gain({}) = 0)'
    BY <2>1, GainType, PTL
  <2>3. Ranked'
    BY <1>1, <1>2, <1>3, <1>5 DEF Ranked
  <2>4. QED BY <2>2, <2>3
<1>10. BestInv'
  BY <1>1, <1>7, <1>9 DEF BestInv, ConflictFree
<1>11. ASSUME NEW places \in SUBSET (1..Len(order)), places # {}
       PROVE  Ahead(places)'
  <2>1. \A x \in places : x >= 1
    BY <1>3
  <2>2. Beyond({}, places)'
    BY <1>1, <1>11, <2>1 DEF Beyond
  <2>3. QED BY <1>1, <1>7, <2>2 DEF Ahead
<1>12. SearchedInv'
  BY <1>1, <1>7, <1>11 DEF SearchedInv
<1>13. QED BY <1>6, <1>8, <1>10, <1>12 DEF SearchInv

-----------------------------------------------------------------------------
(* The other steps.                                                         *)

\* The whole invariant.
AllInv == SearchInv /\ EndInv /\ LogInv /\ StaleInv /\ ReportInv

\* Outside the search nothing is claimed of it.
LEMMA NotSearching ==
    ASSUME poolsOf' \in PoolMaps, pc' \in {"init", "head", "price", "down"},
           \/ profit' = <<>>
           \/ profit' = profit /\ profit \in [Candidates -> Profits] /\ Candidates \subseteq Paths
    PROVE  SearchInv' /\ EndInv'
<1>1. ~Searching' /\ pc' # "reported" /\ pc' # "sort"
  BY DEF Searching
<1>2. TypeInv'
  <2>1. CASE profit' = <<>>
    <3>1. Candidates' = {} /\ profit' \in [{} -> Profits]
      BY <2>1 DEF Candidates
    <3>2. QED BY <3>1 DEF TypeInv
  <2>2. CASE profit' = profit /\ profit \in [Candidates -> Profits] /\ Candidates \subseteq Paths
    <3>1. Candidates' = Candidates
      BY <2>2 DEF Candidates
    <3>2. QED BY <2>2, <3>1 DEF TypeInv
  <2>3. QED BY <2>1, <2>2
<1>3. QED BY <1>1, <1>2 DEF SearchInv, SortedInv, TakenInv, BestInv, SearchedInv, EndInv

\* What a block brings are profits of paths.
LEMMA GainsAre ==
    ASSUME NEW gains \in Gains
    PROVE  DOMAIN gains \subseteq Paths /\ gains \in [DOMAIN gains -> Profits]
<1>1. PICK S \in SUBSET Paths : gains \in [S -> Profits]
  BY MonitorAssumption
<1>2. QED BY <1>1

\* The search stays within its invariant, whatever else happens.
LEMMA SearchStep ==
    ASSUME SearchInv, EndInv, [Next]_mvars
    PROVE  SearchInv' /\ EndInv'
<1>1. /\ poolsOf \in PoolMaps /\ profit \in [Candidates -> Profits] /\ Candidates \subseteq Paths
      /\ pc \in {"init", "head", "price", "sort", "enter", "loop", "reported", "down"}
  BY DEF SearchInv, TypeInv
<1>2. ASSUME NEW S \in Activity, Mine(S) PROVE SearchInv' /\ EndInv'
  <2>1. pc' \in {"init", "head", "price", "down"} /\ UNCHANGED <<poolsOf, profit>>
    BY <1>2 DEF Mine, vars
  <2>2. QED BY <1>1, <2>1, NotSearching
<1>3. CASE Subscribe
  <2>1. pc' = "head" /\ UNCHANGED <<poolsOf, profit>>
    BY <1>3 DEF Subscribe
  <2>2. QED BY <1>1, <2>1, NotSearching
<1>4. ASSUME NEW skipped, NEW read, TakeBlock(skipped, read) PROVE SearchInv' /\ EndInv'
  <2>1. pc' \in {"head", "price"} /\ UNCHANGED <<poolsOf, profit>>
    BY <1>4 DEF TakeBlock
  <2>2. QED BY <1>1, <2>1, NotSearching
<1>5. CASE LoseBlock
  <2>1. pc' = "head" /\ UNCHANGED <<poolsOf, profit>>
    BY <1>5 DEF LoseBlock, vars
  <2>2. QED BY <1>1, <2>1, NotSearching
<1>6. ASSUME NEW gains \in Gains, Price(gains) PROVE SearchInv' /\ EndInv'
  <2>1. CASE DOMAIN gains = {}
    <3>1. pc' = "head" /\ UNCHANGED <<poolsOf, profit>>
      BY <1>6, <2>1 DEF Price
    <3>2. QED BY <1>1, <3>1, NotSearching
  <2>2. CASE DOMAIN gains # {}
    <3>1. pc' = "sort" /\ profit' = gains /\ poolsOf' = poolsOf
      BY <1>6, <2>2 DEF Price, Log
    <3>2. Candidates' = DOMAIN gains
      BY <3>1 DEF Candidates
    <3>3. TypeInv'
      BY <1>1, <2>2, <3>1, <3>2, GainsAre DEF TypeInv
    <3>4. QED BY <3>1, <3>3 DEF SearchInv, SortedInv, TakenInv, BestInv, SearchedInv, EndInv, Searching
  <2>3. QED BY <2>1, <2>2
<1>7. CASE Search
  <2>1. pc' # "reported"
    BY <1>7 DEF Search, Sort, Enter, Skip, Push, Pop
  <2>2. EndInv'
    BY <2>1 DEF EndInv
  <2>3. SearchInv'
    BY <1>7, SortKeeps, EnterKeeps, SkipKeeps, PushKeeps, PopKeeps DEF Search
  <2>4. QED BY <2>2, <2>3
<1>8. CASE Report
  <2>1. /\ pc = "loop" /\ pc' = "reported" /\ Searching /\ combination = <<>> /\ at \notin DOMAIN sorted
        /\ UNCHANGED <<poolsOf, profit, searchVars>>
    BY <1>8 DEF Report, SearchEnded, Searching
  <2>2. UNCHANGED <<sorted, combination, used_pools, at, best_combination, best_total>>
    BY <2>1 DEF searchVars
  <2>3. /\ \A places : Gain(places)' = Gain(places) /\ ConflictFree(places)' = ConflictFree(places)
        /\ \A i : PoolsAt(i)' = PoolsAt(i)
    BY <2>1, <2>2, SearchFrame
  <2>4. TypeInv' /\ SortedInv'
    BY <2>1, <2>2 DEF SearchInv, TypeInv, SortedInv, Searching, Candidates
  <2>5. TakenInv' /\ BestInv'
    BY <2>1, <2>2, <2>3 DEF SearchInv, TakenInv, BestInv, Searching
  <2>6. \A places : Ahead(places)' <=> Ahead(places)
    BY <2>2 DEF Ahead, Beyond, After
  <2>7. SearchedInv'
    BY <2>1, <2>2, <2>3, <2>6 DEF SearchInv, SearchedInv
  <2>8. EndInv'
    BY <2>1, <2>2 DEF EndInv
  <2>9. QED BY <2>4, <2>5, <2>7, <2>8 DEF SearchInv
<1>9. CASE Return
  <2>1. pc' = "head" /\ poolsOf' = poolsOf /\ profit' = <<>>
    BY <1>9 DEF Return, Forget
  <2>2. QED BY <1>1, <2>1, NotSearching
<1>10. CASE Stop
  <2>1. pc' = "down" /\ poolsOf' = poolsOf /\ profit' = <<>>
    BY <1>10 DEF Stop, Forget
  <2>2. QED BY <1>1, <2>1, NotSearching
<1>11. CASE Start
  <2>1. pc' = "init" /\ UNCHANGED <<poolsOf, profit>>
    BY <1>11 DEF Start
  <2>2. QED BY <1>1, <2>1, NotSearching
<1>12. CASE UNCHANGED mvars
  <2>1. /\ UNCHANGED <<poolsOf, pc, profit, sorted, combination, used_pools, at, best_combination,
                       best_total>>
    BY <1>12 DEF mvars, vars, searchVars
  <2>2. /\ \A places : Gain(places)' = Gain(places) /\ ConflictFree(places)' = ConflictFree(places)
        /\ \A i : PoolsAt(i)' = PoolsAt(i)
    BY <2>1, SearchFrame
  <2>3. TypeInv' /\ SortedInv'
    BY <2>1 DEF SearchInv, TypeInv, SortedInv, Searching, Candidates
  <2>4. TakenInv' /\ BestInv'
    BY <2>1, <2>2 DEF SearchInv, TakenInv, BestInv, Searching
  <2>5. \A places : Ahead(places)' <=> Ahead(places)
    BY <2>1 DEF Ahead, Beyond, After
  <2>6. SearchedInv'
    BY <2>1, <2>2, <2>5 DEF SearchInv, SearchedInv, Searching
  <2>7. EndInv'
    BY <2>1 DEF EndInv
  <2>8. QED BY <2>3, <2>4, <2>6, <2>7 DEF SearchInv
<1>13. QED BY <1>2, <1>3, <1>4, <1>5, <1>6, <1>7, <1>8, <1>9, <1>10, <1>11, <1>12 DEF Next

\* What the file has and what is remembered of it change together.
LEMMA LogStep ==
    ASSUME TypeInv, LogInv, [Next]_mvars
    PROVE  LogInv'
<1>1. ASSUME NEW gains \in Gains, Price(gains), DOMAIN gains # {} PROVE LogInv'
  <2> DEFINE toLog == {p \in DOMAIN gains : ShouldLog(p, gains[p])}
  <2>1. /\ profit' = gains /\ pc' = "sort"
        /\ csv' = Updated(csv, gains, toLog)
        /\ logged' = Updated(logged, gains, toLog)
    BY <1>1 DEF Price, Log, UpdateLogged
  <2>2. gains \in [DOMAIN gains -> Profits]
    BY GainsAre
  <2>3. /\ DOMAIN logged' = toLog \cup DOMAIN logged
        /\ \A p \in DOMAIN logged' : logged'[p] = IF p \in toLog THEN gains[p] ELSE logged[p]
        /\ DOMAIN csv' = toLog \cup DOMAIN csv
        /\ \A p \in DOMAIN csv' : csv'[p] = IF p \in toLog THEN gains[p] ELSE csv[p]
    <3> HIDE DEF toLog
    <3>1. QED BY <2>1 DEF Updated
  <2>4. ASSUME NEW p \in DOMAIN logged'
        PROVE  p \in DOMAIN csv' /\ csv'[p] = logged'[p] /\ logged'[p] \in Profits
    <3>1. CASE p \in toLog
      BY <2>2, <2>3, <3>1
    <3>2. CASE p \notin toLog
      <4> HIDE DEF toLog
      <4>1. QED BY <2>3, <2>4, <3>2 DEF LogInv
    <3>3. QED BY <3>1, <3>2
  <2>5. ASSUME NEW p \in DOMAIN gains
        PROVE  p \in DOMAIN logged' /\ Off(gains[p], logged'[p]) * 100 < THRESHOLD * logged'[p]
    <3>1. gains[p] \in Nat /\ gains[p] > 0 /\ THRESHOLD \in Nat /\ THRESHOLD > 0
      <4>1. gains[p] \in Profits
        BY <2>2
      <4>2. \A x \in Profits : x \in Nat /\ x > 0
        BY ProfitsAre
      <4>3. gains[p] \in Nat /\ gains[p] > 0
        BY <4>1, <4>2, Zenon
      <4>4. THRESHOLD \in Nat /\ THRESHOLD > 0
        BY SelectionAssumption
      <4>5. QED BY <4>3, <4>4
    <3>2. CASE p \in toLog
      <4>1. logged'[p] = gains[p] /\ p \in DOMAIN logged'
        BY <2>3, <3>2
      <4>2. Off(gains[p], gains[p]) = 0
        BY <3>1 DEF Off
      <4>3. 0 * 100 < THRESHOLD * gains[p]
        BY <3>1
      <4>4. QED BY <4>1, <4>2, <4>3
    <3>3. CASE p \notin toLog
      <4>1. ~ShouldLog(p, gains[p])
        BY <3>3
      <4>2. p \in DOMAIN logged /\ ~(Off(gains[p], logged[p]) * 100 >= THRESHOLD * logged[p])
        BY <4>1 DEF ShouldLog, Off
      <4>3. logged[p] \in Nat
        <5>1. logged[p] \in Profits
          BY <4>2 DEF LogInv
        <5>2. QED BY <5>1, ProfitsAre
      <4>4. logged'[p] = logged[p] /\ p \in DOMAIN logged'
        <5> HIDE DEF toLog
        <5>1. QED BY <2>3, <3>3, <4>2
      <4>5. Off(gains[p], logged[p]) \in Nat
        BY <3>1, <4>3 DEF Off
      <4>6. THRESHOLD * logged[p] \in Nat
        BY <3>1, <4>3
      <4>7. QED BY <4>2, <4>4, <4>5, <4>6
    <3>4. QED BY <3>2, <3>3
  <2> HIDE DEF toLog
  <2>6. QED BY <2>1, <2>4, <2>5 DEF LogInv, Candidates
<1>2. CASE logged' = logged /\ csv' = csv /\ pc' \notin {"sort", "enter", "loop", "reported"}
  BY <1>2 DEF LogInv
<1>3. CASE /\ UNCHANGED <<logged, csv, profit>>
           /\ pc \in {"sort", "enter", "loop", "reported"}
  BY <1>3 DEF LogInv, Candidates
<1>4. CASE logged' = <<>> /\ csv' = csv /\ pc' = "down"
  BY <1>4 DEF LogInv
<1>5. CASE UNCHANGED <<logged, csv, profit, pc>>
  BY <1>5 DEF LogInv, Candidates
<1>6. CASE Search
  BY <1>3, <1>6 DEF Search, Sort, Enter, Skip, Push, Pop, logVars
<1>7. CASE UNCHANGED mvars
  BY <1>5, <1>7 DEF mvars, vars, logVars
<1>8. ASSUME NEW S, Mine(S) PROVE LogInv'
  BY <1>5, <1>8 DEF Mine, vars, logVars
<1>9. ASSUME NEW skipped, NEW read, TakeBlock(skipped, read) PROVE LogInv'
  <2>1. logged' = logged /\ csv' = csv /\ pc' \in {"head", "price"}
    BY <1>9 DEF TakeBlock, logVars
  <2>2. QED BY <1>2, <2>1
<1>10. CASE LoseBlock
  BY <1>5, <1>10 DEF LoseBlock, vars, logVars
<1>11. CASE Report
  BY <1>3, <1>11 DEF Report, SearchEnded, logVars
<1>12. CASE Subscribe \/ Return \/ Start
  BY <1>2, <1>12 DEF Subscribe, Return, Start, logVars
<1>13. CASE Stop
  BY <1>4, <1>13 DEF Stop
<1>14. ASSUME NEW gains, Price(gains), DOMAIN gains = {} PROVE LogInv'
  BY <1>2, <1>14 DEF Price, logVars
<1>15. QED BY <1>1, <1>6, <1>7, <1>8, <1>9, <1>10, <1>11, <1>12, <1>13, <1>14 DEF Next

\* What is searched for a block depends on what has changed.
LEMMA SearchedSame ==
    ASSUME UNCHANGED <<program, indexed, poolsOf, changed>>
    PROVE  Searched' = Searched /\ InIndex' = InIndex
BY DEF Searched, V2Searched, V3Searched, MoeSearched, TestSearched, InIndex

\* Every path whose pools change is priced before the next head is taken.
LEMMA StaleStep ==
    ASSUME StaleInv, [Next]_mvars
    PROVE  StaleInv'
<1>1. CASE UNCHANGED <<pc, program, indexed, poolsOf, changed, stale>>
  BY <1>1, SearchedSame DEF StaleInv
<1>2. CASE /\ pc # "price" /\ pc' \notin {"price", "down"}
           /\ UNCHANGED <<stale, indexed, poolsOf>>
  BY <1>2 DEF StaleInv, InIndex
<1>3. ASSUME NEW skipped, NEW read, TakeBlock(skipped, read) PROVE StaleInv'
  <2>1. /\ stale \cap InIndex = {}
        /\ stale' = stale \cup
                    {q \in Paths : \E p \in poolsOf[q] : p \in changed' /\ pools'[p] # pools[p]}
        /\ poolsOf' = poolsOf /\ indexed' = indexed /\ InIndex' = InIndex
        /\ pc' = IF Prices THEN "price" ELSE "head"
    <3>1. stale \cap InIndex = {}
      BY <1>3 DEF TakeBlock, StaleInv
    <3>2. poolsOf' = poolsOf /\ indexed' = indexed
      BY <1>3 DEF TakeBlock
    <3>3. InIndex' = InIndex
      BY <3>2 DEF InIndex
    <3>4. QED BY <1>3, <3>1, <3>2, <3>3 DEF TakeBlock
  <2>2. \A q \in stale' \cap InIndex' :
            q \in Paths /\ poolsOf'[q] \cap changed' # {} /\ poolsOf'[q] \subseteq indexed'
    BY <2>1 DEF InIndex
  <2>3. stale' \cap InIndex' \subseteq Searched'
    <3>1. \A q \in Paths :
              poolsOf'[q] \cap changed' # {} /\ poolsOf'[q] \subseteq indexed' => q \in Searched'
      BY DEF Searched, V2Searched, V3Searched, MoeSearched, TestSearched, InIndex
    <3>2. QED BY <2>2, <3>1
  <2>4. CASE Prices
    BY <2>1, <2>3, <2>4 DEF StaleInv
  <2>5. CASE ~Prices
    <3>1. changed' = {}
      BY <2>5 DEF Prices, V2Prices, V3Prices, MoePrices, TestPrices
    <3>2. stale' \cap InIndex' = {} /\ pc' = "head"
      BY <2>1, <2>2, <2>5, <3>1
    <3>3. QED BY <3>2 DEF StaleInv
  <2>6. QED BY <2>4, <2>5
<1>4. ASSUME NEW gains, Price(gains) PROVE StaleInv'
  <2>1. /\ stale' = stale \ Searched /\ stale \cap InIndex \subseteq Searched
        /\ poolsOf' = poolsOf /\ indexed' = indexed /\ pc' \in {"head", "sort"}
    BY <1>4 DEF Price, Log, StaleInv
  <2>2. InIndex' = InIndex
    BY <2>1 DEF InIndex
  <2>3. QED BY <2>1, <2>2 DEF StaleInv
<1>5. CASE UNCHANGED mvars
  BY <1>1, <1>5 DEF mvars, vars, loopVars
<1>6. ASSUME NEW S, Mine(S) PROVE StaleInv'
  BY <1>1, <1>6 DEF Mine, vars, loopVars
<1>7. CASE Subscribe \/ Report \/ Return
  BY <1>2, <1>7 DEF Subscribe, Report, SearchEnded, Return, loopVars
<1>8. CASE LoseBlock
  BY <1>2, <1>8 DEF LoseBlock, vars
<1>9. CASE Search /\ UNCHANGED <<feedVars, program, loopVars, reportVars, stops>>
  BY <1>2, <1>9 DEF Search, Sort, Enter, Skip, Push, Pop, loopVars
<1>10. CASE Stop
  BY <1>10 DEF Stop, StaleInv
<1>11. CASE Start
  <2>1. stale = {} /\ stale' = {} /\ pc' = "init"
    BY <1>11 DEF Start, StaleInv
  <2>2. QED BY <2>1 DEF StaleInv
<1>12. QED BY <1>3, <1>4, <1>5, <1>6, <1>7, <1>8, <1>9, <1>10, <1>11 DEF Next

\* At the end of the search something was found: the best path alone gains.
LEMMA SomethingFound ==
    ASSUME SearchInv, Searching, pc # "enter", combination = <<>>, at \notin DOMAIN sorted
    PROVE  /\ best_combination \in Seq(1..Len(sorted)) /\ best_combination # <<>>
           /\ Rising(best_combination)
           /\ \A places \in SUBSET (1..Len(sorted)) :
                 ConflictFree(places) => Gain(places) <= best_total
<1> DEFINE N == Len(sorted)
<1>1. /\ Ranked /\ N \in Nat /\ DOMAIN sorted = 1..N /\ at = N + 1
  BY SearchFacts
<1>2. \A places \in SUBSET (1..N) : ~Ahead(places)
  <2>1. ToSet(combination) = {}
    BY DEF ToSet
  <2>2. \A places \in SUBSET (1..N) : ~Beyond({}, places) /\ ~After({}, places)
    <3>1. \A places \in SUBSET (1..N) : \A x \in places : ~(x >= at)
      BY <1>1
    <3>2. QED BY <3>1 DEF Beyond, After
  <2>3. QED BY <2>1, <2>2 DEF Ahead
<1>3. \A places \in SUBSET (1..N) : ConflictFree(places) => Gain(places) <= best_total
  BY <1>2 DEF SearchInv, SearchedInv
<1>4. /\ best_combination \in Seq(1..N) /\ Rising(best_combination)
      /\ best_total = Gain(ToSet(best_combination))
  BY DEF SearchInv, BestInv
<1>5. best_combination # <<>>
  <2>1. 1 \in 1..N /\ {1} \in SUBSET (1..N)
    <3>1. sorted # <<>>
      BY DEF SearchInv, SortedInv
    <3>2. N # 0
      BY <1>1, <3>1, EmptySeq DEF Ranked
    <3>3. QED BY <1>1, <3>2
  <2>2. ConflictFree({1})
    BY DEF ConflictFree
  <2>3. Gain({1}) > 0 /\ Gain({1}) \in Nat /\ Gain({}) = 0
    BY <1>1, <2>1, GainType
  <2>4. best_total # 0
    <3>1. Gain({1}) <= best_total
      BY <1>3, <2>1, <2>2
    <3>2. QED BY <2>3, <3>1
  <2>5. ToSet(best_combination) # {}
    BY <1>4, <2>3, <2>4
  <2>6. QED BY <1>1, <1>4, <2>5, EmptyPlaces
<1>6. QED BY <1>3, <1>4, <1>5

\* The file of best paths has the best of the last selection.
LEMMA ReportStep ==
    ASSUME SearchInv, ReportInv, [Next]_mvars
    PROVE  ReportInv'
<1>1. CASE UNCHANGED <<last_selection, best_path>> /\ pc' # "reported"
  BY <1>1 DEF ReportInv
<1>2. CASE Report
  <2>1. /\ pc = "loop" /\ combination = <<>> /\ at \notin DOMAIN sorted /\ Searching
        /\ UNCHANGED <<profit, sorted, best_combination>>
    BY <1>2 DEF Report, SearchEnded, Searching, searchVars
  <2>2. best_combination \in Seq(1..Len(sorted)) /\ best_combination # <<>>
    BY <2>1, SomethingFound
  <2>3. Selection # <<>>
    <3>1. Len(best_combination) \in Nat \ {0} /\ DOMAIN best_combination = 1..Len(best_combination)
      BY <2>2, EmptySeq
    <3>2. 1 \in DOMAIN Selection
      BY <3>1 DEF Selection
    <3>3. QED BY <3>2
  <2>4. best_path' = Selection[1]
    <3>1. CASE Writes
      BY <1>2, <3>1 DEF Report
    <3>2. CASE ~Writes
      <4>1. last_selection = Selection
        BY <3>2 DEF Writes, V2Writes, V3Writes, MoeWrites, TestWrites, SameSelection
      <4>2. QED BY <1>2, <2>3, <3>2, <4>1 DEF Report, ReportInv
    <3>3. QED BY <3>1, <3>2
  <2>5. Selection' = Selection
    BY <2>1 DEF Selection
  <2>6. last_selection' = Selection
    BY <1>2 DEF Report
  <2>7. QED BY <2>1, <2>2, <2>4, <2>5, <2>6 DEF ReportInv
<1>3. CASE UNCHANGED mvars
  <2>1. UNCHANGED <<pc, profit, sorted, best_combination, last_selection, best_path>>
    BY <1>3 DEF mvars, vars, searchVars, reportVars
  <2>2. Selection' = Selection
    BY <2>1 DEF Selection
  <2>3. QED BY <2>1, <2>2 DEF ReportInv
<1>4. ASSUME NEW S, Mine(S) PROVE ReportInv'
  BY <1>1, <1>4 DEF Mine, vars, reportVars
<1>5. ASSUME NEW skipped, NEW read, TakeBlock(skipped, read) PROVE ReportInv'
  <2>1. UNCHANGED <<last_selection, best_path>> /\ pc' \in {"head", "price"}
    BY <1>5 DEF TakeBlock, reportVars
  <2>2. QED BY <1>1, <2>1
<1>6. CASE LoseBlock
  BY <1>1, <1>6 DEF LoseBlock, vars, reportVars
<1>7. ASSUME NEW gains, Price(gains) PROVE ReportInv'
  <2>1. UNCHANGED <<last_selection, best_path>> /\ pc' \in {"head", "sort"}
    BY <1>7 DEF Price, Log, reportVars
  <2>2. QED BY <1>1, <2>1
<1>8. CASE Search /\ UNCHANGED <<feedVars, program, loopVars, reportVars, stops>>
  BY <1>1, <1>8 DEF Search, Sort, Enter, Skip, Push, Pop, reportVars
<1>9. CASE Subscribe \/ Return \/ Start
  BY <1>1, <1>9 DEF Subscribe, Return, Start, reportVars
<1>10. CASE Stop
  BY <1>10 DEF Stop, ReportInv
<1>11. QED BY <1>2, <1>3, <1>4, <1>5, <1>6, <1>7, <1>8, <1>9, <1>10 DEF Next

\* The invariant holds at the start.
LEMMA InitAll == Init => AllInv
<1> SUFFICES ASSUME Init PROVE AllInv
  OBVIOUS
<1>1. /\ pc = "init" /\ poolsOf \in PoolMaps /\ profit = <<>> /\ logged = <<>> /\ csv = <<>>
      /\ stale = {} /\ last_selection = <<>>
  BY DEF Init, SelectionInit
<1>2. TypeInv
  <2>1. Candidates = {} /\ profit \in [{} -> Profits]
    BY <1>1 DEF Candidates
  <2>2. QED BY <1>1, <2>1 DEF TypeInv
<1>3. SearchInv /\ EndInv
  BY <1>1, <1>2 DEF SearchInv, SortedInv, TakenInv, BestInv, SearchedInv, EndInv, Searching
<1>4. LogInv /\ StaleInv /\ ReportInv
  BY <1>1 DEF LogInv, StaleInv, ReportInv
<1>5. QED BY <1>3, <1>4 DEF AllInv

\* Every step keeps it.
LEMMA NextAll == AllInv /\ [Next]_mvars => AllInv'
<1> SUFFICES ASSUME AllInv, [Next]_mvars PROVE AllInv'
  OBVIOUS
<1>1. SearchInv /\ EndInv /\ LogInv /\ StaleInv /\ ReportInv /\ TypeInv
  BY DEF AllInv, SearchInv
<1>2. SearchInv' /\ EndInv'
  BY <1>1, SearchStep
<1>3. LogInv' /\ StaleInv' /\ ReportInv'
  BY <1>1, LogStep, StaleStep, ReportStep
<1>4. QED BY <1>2, <1>3 DEF AllInv

\* The inductive invariant of the monitors.
THEOREM Invariant == Spec => []AllInv
BY InitAll, NextAll, PTL DEF Spec

\* The search by backtracking ends with paths that share no pool and gain most of
\* all such sets of the block's candidates (select_best_non_conflicting_paths).
THEOREM SelectsBest == Spec => []SelectionIsBest
<1>1. ASSUME AllInv PROVE SelectionIsBest
  <2> SUFFICES ASSUME pc = "reported"
               PROVE  /\ ConflictFree(ToSet(best_combination))
                      /\ best_total = Gain(ToSet(best_combination))
                      /\ \A places \in SUBSET DOMAIN sorted :
                            ConflictFree(places) => Gain(places) <= best_total
    BY DEF SelectionIsBest
  <2>1. SearchInv /\ Searching /\ combination = <<>> /\ at \notin DOMAIN sorted
    BY <1>1 DEF AllInv, EndInv, Searching
  <2>2. DOMAIN sorted = 1..Len(sorted)
    BY <2>1, SearchFacts
  <2>3. \A places \in SUBSET (1..Len(sorted)) : ConflictFree(places) => Gain(places) <= best_total
    BY <2>1, SomethingFound
  <2>4. ConflictFree(ToSet(best_combination)) /\ best_total = Gain(ToSet(best_combination))
    BY <2>1 DEF SearchInv, BestInv
  <2>5. QED BY <2>2, <2>3, <2>4
<1>2. QED BY <1>1, Invariant, PTL

\* The last profit of a path in the file is never off by the threshold, also when
\* it has drifted there in small steps (should_log_path).
THEOREM KeepsFileCurrent == Spec => []FileIsCurrent
<1>1. ASSUME AllInv PROVE FileIsCurrent
  <2> SUFFICES ASSUME pc = "reported", NEW p \in Candidates
               PROVE  Off(profit[p], csv[p]) * 100 < THRESHOLD * csv[p]
    BY DEF FileIsCurrent, Off
  <2>1. /\ p \in DOMAIN logged
        /\ Off(profit[p], logged[p]) * 100 < THRESHOLD * logged[p]
    BY <1>1 DEF AllInv, LogInv
  <2>2. csv[p] = logged[p]
    BY <1>1, <2>1 DEF AllInv, LogInv
  <2>3. QED BY <2>1, <2>2
<1>2. QED BY <1>1, Invariant, PTL

\* While a monitor waits for a head every path of its index has been priced since
\* its pools changed, whatever was skipped or lost; paths through a pool that
\* held nothing when the Moe monitor started are not in the index.
THEOREM PricesStayCurrent == Spec => []PricesAreCurrent
<1>1. AllInv => PricesAreCurrent
  BY DEF AllInv, StaleInv, PricesAreCurrent
<1>2. QED BY <1>1, Invariant, PTL

\* The last row of the file of best paths is the best of this block's selection,
\* also where it is written only when the selection changes, and after a restart.
THEOREM ReportsBestPath == Spec => []BestPathIsReported
<1>1. ASSUME AllInv PROVE BestPathIsReported
  <2> DEFINE k == best_combination[1]
             N == Len(sorted)
  <2> SUFFICES ASSUME pc = "reported"
               PROVE  /\ k \in DOMAIN sorted /\ k \in ToSet(best_combination)
                      /\ best_path = [path |-> sorted[k], profit |-> profit[sorted[k]]]
                      /\ \A j \in ToSet(best_combination) : profit[sorted[j]] <= best_path.profit
    BY DEF BestPathIsReported
  <2>1. SearchInv /\ Searching /\ combination = <<>> /\ at \notin DOMAIN sorted
    BY <1>1 DEF AllInv, EndInv, Searching
  <2>2. /\ best_combination \in Seq(1..N) /\ best_combination # <<>> /\ Rising(best_combination)
        /\ Ranked /\ N \in Nat /\ DOMAIN sorted = 1..N
    BY <2>1, SomethingFound, SearchFacts
  <2>3. /\ Len(best_combination) \in Nat \ {0}
        /\ DOMAIN best_combination = 1..Len(best_combination)
        /\ ToSet(best_combination) = {best_combination[i] : i \in 1..Len(best_combination)}
        /\ \A i \in 1..Len(best_combination) : best_combination[i] \in 1..N
    BY <2>2, EmptySeq, PlacesAre
  <2>4. 1 \in 1..Len(best_combination)
    BY <2>3
  <2>5. best_path = [path |-> sorted[k], profit |-> profit[sorted[k]]]
    BY <1>1, <2>3, <2>4 DEF AllInv, ReportInv, Selection
  <2>6. ASSUME NEW j \in ToSet(best_combination) PROVE profit[sorted[j]] <= profit[sorted[k]]
    <3>1. PICK i \in 1..Len(best_combination) : j = best_combination[i]
      BY <2>3
    <3>2. CASE i = 1
      <4>1. profit[sorted[j]] \in Nat
        BY <2>2, <2>3, <3>1, WorthType
      <4>2. QED BY <3>1, <3>2, <4>1
    <3>3. CASE i # 1
      <4>1. 1 < i
        BY <3>3
      <4>2. k < j
        BY <2>2, <2>4, <3>1, <4>1 DEF Rising
      <4>3. profit[sorted[k]] >= profit[sorted[j]]
        BY <2>1, <2>3, <2>4, <3>1, <4>2 DEF SearchInv, SortedInv
      <4>4. profit[sorted[k]] \in Nat /\ profit[sorted[j]] \in Nat
        BY <2>2, <2>3, <2>4, <3>1, WorthType
      <4>5. QED BY <4>3, <4>4
    <3>4. QED BY <3>2, <3>3
  <2>7. QED BY <2>2, <2>3, <2>4, <2>5, <2>6
<1>2. QED BY <1>1, Invariant, PTL

-----------------------------------------------------------------------------
(* What the services take of the same candidates.                           *)

\* The places of what the services take.
Taken == {i \in DOMAIN sorted : sorted[i] \in Greedy}

\* Every place shares a pool with one that is taken and does not come after it.
LEMMA TakenCovers ==
    ASSUME Ranked, poolsOf \in PoolMaps, Candidates \subseteq Paths
    PROVE  \A i \in 1..Len(sorted) : \E k \in Taken : k <= i /\ PoolsAt(k) \cap PoolsAt(i) # {}
<1> DEFINE N == Len(sorted)
           s == SelectFrom(sorted, poolsOf)
<1>1. N \in Nat /\ DOMAIN sorted = 1..N
  BY WorthType
<1>2. s \in Seq(Candidates) /\ Greedily(s, sorted, N, poolsOf)
  BY SelectFromGreedy DEF Ranked
<1>3. Greedy = {s[j] : j \in 1..Len(s)}
  <2>1. DOMAIN s = 1..Len(s)
    BY <1>2
  <2>2. QED BY <2>1 DEF Greedy, ToSet
<1>4. ASSUME NEW i \in 1..N PROVE PoolsAt(i) # {}
  <2>1. sorted[i] \in Paths
    BY <1>4, ElementOfSeq DEF Ranked
  <2>2. IsFiniteSet(poolsOf[sorted[i]]) /\ Cardinality(poolsOf[sorted[i]]) \in 1..HOPS
    BY <2>1, SelectionAssumption
  <2>3. HOPS \in Nat
    BY SelectionAssumption
  <2>4. Cardinality(poolsOf[sorted[i]]) # 0
    BY <2>2, <2>3
  <2>5. QED BY <2>2, <2>4, FS_EmptySet DEF PoolsAt
<1> HIDE DEF s
<1>5. ASSUME NEW i \in 1..N
      PROVE  \E k \in Taken : k <= i /\ PoolsAt(k) \cap PoolsAt(i) # {}
  <2>1. CASE \E j \in 1..Len(s) : s[j] = sorted[i]
    <3>1. i \in Taken
      BY <1>1, <1>3, <2>1 DEF Taken
    <3>2. i <= i
      BY <1>1
    <3>3. QED BY <1>4, <3>1, <3>2
  <2>2. CASE \E k \in 1..i - 1, j \in 1..Len(s) :
                s[j] = sorted[k] /\ SharesPool(sorted[k], sorted[i], poolsOf)
    <3>1. PICK k \in 1..i - 1, j \in 1..Len(s) :
                s[j] = sorted[k] /\ SharesPool(sorted[k], sorted[i], poolsOf)
      BY <2>2
    <3>2. k \in 1..N /\ k <= i
      BY <1>1
    <3>3. k \in Taken
      BY <1>1, <1>3, <3>1, <3>2 DEF Taken
    <3>4. PoolsAt(k) \cap PoolsAt(i) # {}
      BY <3>1 DEF SharesPool, PoolsAt
    <3>5. QED BY <3>2, <3>3, <3>4
  <2>3. QED BY <1>2, <2>1, <2>2 DEF Greedily
<1>6. QED BY <1>5

\* Places that share no pool among them, but each one with a given path, are not
\* more than that path has pools.
LEMMA FewShare ==
    ASSUME Ranked, poolsOf \in PoolMaps, Candidates \subseteq Paths,
           NEW k \in 1..Len(sorted), NEW R \in SUBSET (1..Len(sorted)), ConflictFree(R),
           \A i \in R : PoolsAt(k) \cap PoolsAt(i) # {}
    PROVE  IsFiniteSet(R) /\ Cardinality(R) \in Nat /\ Cardinality(R) <= HOPS
<1> DEFINE f == [i \in R |-> CHOOSE p \in PoolsAt(k) : p \in PoolsAt(i)]
<1>1. IsFiniteSet(PoolsAt(k)) /\ Cardinality(PoolsAt(k)) \in 1..HOPS /\ HOPS \in Nat
  <2>1. sorted[k] \in Paths
    BY ElementOfSeq DEF Ranked
  <2>2. QED BY <2>1, SelectionAssumption DEF PoolsAt
<1>2. \A i \in R : f[i] \in PoolsAt(k) /\ f[i] \in PoolsAt(i)
  <2> TAKE i \in R
  <2>1. \E p \in PoolsAt(k) : p \in PoolsAt(i)
    OBVIOUS
  <2>2. QED BY <2>1
<1>3. f \in [R -> PoolsAt(k)]
  BY <1>2
<1> HIDE DEF f
<1>4. \A i, j \in R : f[i] = f[j] => i = j
  BY <1>2 DEF ConflictFree, SharesPool, PoolsAt
<1>5. f \in Injection(R, PoolsAt(k))
  BY <1>3, <1>4 DEF Injection, IsInjective
<1>6. IsFiniteSet(R) /\ Cardinality(R) <= Cardinality(PoolsAt(k))
  BY <1>1, <1>5, FS_Injection
<1>7. Cardinality(R) \in Nat
  BY <1>6, FS_CardinalityType
<1>8. QED BY <1>1, <1>6, <1>7

\* The places of T that are charged to one of H.
Charged(T, H) == {i \in T : \E k \in H : k <= i /\ PoolsAt(k) \cap PoolsAt(i) # {}}

\* Each path of a set without conflicts is charged to one that the services take,
\* which gains as much at least, and none is charged more than HOPS of them.
LEMMA GreedyShare ==
    ASSUME SearchInv, Searching, NEW T \in SUBSET (1..Len(sorted)), ConflictFree(T)
    PROVE  HOPS * Gain(Taken) >= Gain(T)
<1> DEFINE N == Len(sorted)
           X == {H \in SUBSET Taken : SumOver(Worth, Charged(T, H)) <= HOPS * SumOver(Worth, H)}
<1>1. Ranked /\ poolsOf \in PoolMaps /\ Candidates \subseteq Paths /\ HOPS \in Nat
  BY SearchFacts, SelectionAssumption DEF SearchInv, TypeInv
<1>2. /\ N \in Nat /\ DOMAIN sorted = 1..N /\ IsFiniteSet(1..N) /\ Worth \in [1..N -> Nat]
      /\ \A i \in 1..N : Worth[i] = profit[sorted[i]]
  BY <1>1, WorthType
<1>3. \A i, j \in 1..N : i <= j => Worth[j] <= Worth[i]
  <2> SUFFICES ASSUME NEW i \in 1..N, NEW j \in 1..N, i <= j PROVE Worth[j] <= Worth[i]
    OBVIOUS
  <2>1. Worth[i] \in Nat /\ Worth[j] \in Nat
    BY <1>2
  <2>2. CASE i = j
    BY <2>1, <2>2
  <2>3. CASE i < j
    <3>1. profit[sorted[i]] >= profit[sorted[j]]
      BY <2>3 DEF SearchInv, SortedInv
    <3>2. QED BY <1>2, <2>1, <3>1
  <2>4. QED BY <1>2, <2>2, <2>3
<1>4. Taken \subseteq 1..N /\ IsFiniteSet(Taken)
  <2>1. Taken \subseteq 1..N
    BY <1>2 DEF Taken
  <2>2. QED BY <1>2, <2>1, FS_Subset
<1>5. /\ \A S \in SUBSET (1..N) : SumOver(Worth, S) \in Nat
      /\ \A S \in SUBSET (1..N) : \A x \in S : SumOver(Worth, S) = Worth[x] + SumOver(Worth, S \ {x})
      /\ \A A, B \in SUBSET (1..N) :
            A \cap B = {} => SumOver(Worth, A \cup B) = SumOver(Worth, A) + SumOver(Worth, B)
  <2> DEFINE D == 1..N
  <2>1. IsFiniteSet(D) /\ Worth \in [D -> Nat]
    BY <1>2
  <2> HIDE DEF D
  <2>2. \A S \in SUBSET D : SumOver(Worth, S) \in Nat
    BY <2>1, SumType
  <2>3. \A S \in SUBSET D : \A x \in S : SumOver(Worth, S) = Worth[x] + SumOver(Worth, S \ {x})
    <3> TAKE S \in SUBSET D
    <3> TAKE x \in S
    <3>1. SumOver(Worth, S) = Worth[x] + SumOver(Worth, S \ {x})
      BY <2>1, SumRemove
    <3>2. QED BY <3>1
  <2>4. ASSUME NEW A \in SUBSET D
        PROVE  \A B \in SUBSET D :
                  A \cap B = {} => SumOver(Worth, A \cup B) = SumOver(Worth, A) + SumOver(Worth, B)
    BY <2>1, SumDisjoint
  <2>5. QED BY <2>2, <2>3, <2>4 DEF D
<1>6. {} \in X
  <2>1. Charged(T, {}) = {}
    BY DEF Charged
  <2>2. SumOver(Worth, {}) = 0
    BY FS_EmptySet, SumPeel
  <2>3. 0 <= HOPS * 0
    BY <1>1
  <2>4. QED BY <2>1, <2>2, <2>3
<1>7. ASSUME NEW H \in SUBSET Taken, H # {}, \A k \in H : H \ {k} \in X PROVE H \in X
  <2>1. PICK k \in H : TRUE
    BY <1>7
  <2> DEFINE A == Charged(T, H \ {k})
             R == Charged(T, H) \ A
             a == SumOver(Worth, A)
             r == SumOver(Worth, R)
             h == SumOver(Worth, H \ {k})
             w == Worth[k]
  <2>2. A \in SUBSET (1..N) /\ R \in SUBSET (1..N) /\ A \cap R = {} /\ A \cup R = Charged(T, H)
    BY DEF Charged
  <2>3. \A i \in R : k <= i /\ PoolsAt(k) \cap PoolsAt(i) # {}
    BY DEF Charged
  <2>4. k \in 1..N /\ w \in Nat /\ R \subseteq T /\ H \in SUBSET (1..N)
    BY <1>2, <1>4, <2>1 DEF Charged
  <2> HIDE DEF A, R
  <2>5. ConflictFree(R)
    BY <2>4 DEF ConflictFree
  <2>6. IsFiniteSet(R) /\ Cardinality(R) \in Nat /\ Cardinality(R) <= HOPS
    BY <1>1, <2>2, <2>3, <2>4, <2>5, FewShare
  <2>7. \A i \in R : Worth[i] <= w
    BY <1>3, <2>2, <2>3, <2>4
  <2>8. r <= Cardinality(R) * w
    <3> DEFINE g == [i \in R |-> Worth[i]]
    <3>1. g \in [R -> Nat] /\ \A i \in R : g[i] <= w /\ g[i] = Worth[i]
      BY <1>2, <2>2, <2>7
    <3> HIDE DEF g, w
    <3>2. SumOver(g, R) <= Cardinality(R) * w
      BY <2>4, <2>6, <3>1, SumBound
    <3>3. SumOver(g, R) = SumOver(Worth, R)
      BY <2>6, <3>1, SumSame
    <3>4. QED BY <3>2, <3>3
  <2>9. SumOver(Worth, Charged(T, H)) = a + r
    <3>1. SumOver(Worth, A \cup R) = a + r
      BY <1>5, <2>2
    <3>2. QED BY <2>2, <3>1
  <2>10. SumOver(Worth, H) = w + h
    BY <1>5, <2>1, <2>4
  <2>11. a <= HOPS * h
    BY <1>7, <2>1 DEF A
  <2>12. a \in Nat /\ r \in Nat /\ h \in Nat
    BY <1>5, <2>2, <2>4
  <2> HIDE DEF a, r, h, w
  <2>13. Cardinality(R) * w <= HOPS * w
    BY <1>1, <2>4, <2>6
  <2>14. HOPS * (w + h) = HOPS * w + HOPS * h /\ HOPS * w \in Nat /\ HOPS * h \in Nat
         /\ Cardinality(R) * w \in Nat
    BY <1>1, <2>4, <2>6, <2>12
  <2>15. a + r <= HOPS * (w + h)
    BY <2>8, <2>11, <2>12, <2>13, <2>14
  <2>16. SumOver(Worth, Charged(T, H)) <= HOPS * SumOver(Worth, H)
    BY <2>9, <2>10, <2>15
  <2>17. QED BY <2>16
<1>8. Taken \in X
  <2> HIDE DEF X
  <2>1. \A H \in SUBSET Taken : H \in X
    BY <1>4, <1>6, <1>7, SubsetInduction
  <2>2. QED BY <2>1
<1>9. Charged(T, Taken) = T
  <2>1. \A i \in T : \E k \in Taken : k <= i /\ PoolsAt(k) \cap PoolsAt(i) # {}
    BY <1>1, TakenCovers
  <2>2. QED BY <2>1 DEF Charged
<1>10. SumOver(Worth, T) <= HOPS * SumOver(Worth, Taken)
  <2>1. SumOver(Worth, Charged(T, Taken)) <= HOPS * SumOver(Worth, Taken)
    BY <1>8
  <2>2. QED BY <1>9, <2>1
<1>11. Gain(T) = SumOver(Worth, T) /\ Gain(Taken) = SumOver(Worth, Taken)
  BY <1>1, <1>4, GainIs
<1>12. Gain(T) \in Nat /\ HOPS * Gain(Taken) \in Nat
  BY <1>1, <1>4, <1>5, <1>11
<1>13. QED BY <1>10, <1>11, <1>12

\* The greedy selection of the services, of the same candidates, gains a share of
\* 1/HOPS of the best selection at least (select_non_conflicting_opportunities).
THEOREM GreedyHasItsShare == Spec => []GreedyWithinHops
<1>1. ASSUME AllInv PROVE GreedyWithinHops
  <2> SUFFICES ASSUME pc = "reported" PROVE HOPS * Gain(Taken) >= best_total
    BY DEF GreedyWithinHops, Taken
  <2>1. SearchInv /\ Searching
    BY <1>1 DEF AllInv, Searching
  <2>2. /\ best_combination \in Seq(1..Len(sorted)) /\ ConflictFree(ToSet(best_combination))
        /\ best_total = Gain(ToSet(best_combination)) /\ Len(sorted) \in Nat
    BY <2>1, SearchFacts DEF SearchInv, BestInv
  <2>3. ToSet(best_combination) \in SUBSET (1..Len(sorted))
    BY <2>2, PlacesAre
  <2>4. QED BY <2>1, <2>2, <2>3, GreedyShare
<1>2. QED BY <1>1, Invariant, PTL
=============================================================================
