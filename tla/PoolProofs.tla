----------------------------- MODULE PoolProofs -----------------------------
(***************************************************************************)
(* Proofs about UniswapV3Pool, AgniPool and MoeLbPair.  For any ticks,      *)
(* spacing, word size, positions and amounts: the tick table and the bitmap *)
(* stay those of the contract, or below them where the ticks were not read; *)
(* the pool's liquidity is what is active at its tick; the swap loop cannot *)
(* run for ever; and what it quotes is what walking the contract's          *)
(* positions yields.  For any bins, radius, batches and fees: the copy of a *)
(* pair is exact where no swap went since it was read, a reading reaches    *)
(* every bin of the radius, and a quote is what the active bin pays.        *)
(*                                                                         *)
(* PoolInv is the inductive invariant of the pools.  Its steps are about    *)
(* sums over the positions, which a Mint or Burn changes by its delta at    *)
(* the two ends of its range and between them, and about the ticks between  *)
(* two set bits, where nothing starts or ends.  QuoteInv adds that the loop *)
(* is where a walk by units is after some of them.  MoeInv is that of the   *)
(* pair: types, and CopyExact, which is inductive with them.                *)
(***************************************************************************)
EXTENDS AgniPool, MoeLbPair, FiniteSetTheorems, CommonFacts, TLAPS

-----------------------------------------------------------------------------
(* Sums over positions are those of CommonFacts.                            *)

LEMMA SumIs == \A f, S : SumOf(f, S) = SumOver(f, S)
BY Zenon DEF SumOf, FoldFunctionOnSet, MapThenFoldSet, SumOver, SumsOn, Pick

-----------------------------------------------------------------------------
(* Ticks and bits.                                                          *)

\* Division by the spacing rounds down.
LEMMA DivBelow ==
    ASSUME NEW t \in Int, NEW d \in Nat \ {0}, NEW b \in Int
    PROVE  t \div d \in Int /\ (d * b <= t <=> b <= t \div d)
<1> DEFINE q == t \div d
<1>1. q \in Int /\ d * q <= t /\ t < d * q + d
  OBVIOUS
<1> HIDE DEF q
<1>2. b <= q => d * b <= d * q
  BY <1>1
<1>3. b >= q + 1 => d * b >= d * q + d
  BY <1>1
<1>4. b <= q \/ b >= q + 1
  BY <1>1
<1>5. QED
  <2>1. d * b \in Int /\ d * q \in Int
    BY <1>1
  <2>2. QED BY <1>1, <1>2, <1>3, <1>4, <2>1 DEF q

\* A tick is its bit times the spacing.
LEMMA DivExact ==
    ASSUME NEW t \in Int, NEW d \in Nat \ {0}, t % d = 0
    PROVE  t \div d \in Int /\ t = d * (t \div d) /\ t = (t \div d) * d
OBVIOUS

\* A multiple of the spacing, divided by it.
LEMMA MultipleIs ==
    ASSUME NEW b \in Int, NEW d \in Nat \ {0}
    PROVE  b * d \in Int /\ (b * d) % d = 0 /\ (b * d) \div d = b /\ b * d = d * b
OBVIOUS

Bit(t) == t \div tick_spacing

\* There are finitely many ticks, in the order of their bits.
LEMMA TicksAre ==
    /\ IsFiniteSet(Ticks)
    /\ \A t \in Ticks : /\ t \in Int /\ MinTick <= t /\ t <= MaxTick
                        /\ Bit(t) \in Int /\ t = Bit(t) * tick_spacing
    /\ \A t \in Ticks, u \in Int : /\ Bit(u) \in Int
                                   /\ t <= u <=> Bit(t) <= Bit(u)
    /\ \A t, u \in Ticks : Bit(t) = Bit(u) => t = u
<1>1. IsFiniteSet(Ticks)
  <2>1. IsFiniteSet(MinTick..MaxTick)
    BY PoolAssumption, FS_Interval
  <2>2. QED BY <2>1, FS_Subset DEF Ticks
<1>2. ASSUME NEW t \in Ticks
      PROVE  /\ t \in Int /\ MinTick <= t /\ t <= MaxTick
             /\ Bit(t) \in Int /\ t = Bit(t) * tick_spacing /\ t = tick_spacing * Bit(t)
  BY PoolAssumption, DivExact DEF Ticks, Bit
<1>3. ASSUME NEW t \in Ticks, NEW u \in Int PROVE Bit(u) \in Int /\ (t <= u <=> Bit(t) <= Bit(u))
  <2>1. Bit(u) \in Int /\ (tick_spacing * Bit(t) <= u <=> Bit(t) <= Bit(u))
    BY <1>2, PoolAssumption, DivBelow DEF Bit
  <2>2. QED BY <1>2, <2>1
<1>4. ASSUME NEW t \in Ticks, NEW u \in Ticks, Bit(t) = Bit(u) PROVE t = u
  BY <1>2, <1>4
<1>5. QED BY <1>1, <1>2, <1>3, <1>4

\* The bits by the name the proofs use.
LEMMA BitsOfIs == \A S : BitsOf(S) = {Bit(t) : t \in S}
BY DEF BitsOf, Bit

\* A bit is set exactly for the ticks that it is set for.
LEMMA BitSet ==
    ASSUME NEW S \in SUBSET Ticks, NEW t \in Ticks
    PROVE  t \div tick_spacing \in BitsOf(S) <=> t \in S
<1>1. t \div tick_spacing = Bit(t)
  BY DEF Bit
<1>2. QED BY <1>1, TicksAre, BitsOfIs

\* Toggling the bits of some ticks makes the bitmap that of the ticks toggled.
LEMMA BitsToggle ==
    ASSUME NEW A \in SUBSET Ticks, NEW B \in SUBSET Ticks
    PROVE  (BitsOf(A) \ BitsOf(B)) \cup (BitsOf(B) \ BitsOf(A))
             = BitsOf((A \ B) \cup (B \ A))
<1>1. \A S \in SUBSET Ticks, t \in Ticks : Bit(t) \in BitsOf(S) <=> t \in S
  BY BitSet DEF Bit
<1>2. \A S \in SUBSET Ticks : BitsOf(S) \subseteq {Bit(t) : t \in Ticks}
  BY BitsOfIs
<1> DEFINE C == (A \ B) \cup (B \ A)
           L == (BitsOf(A) \ BitsOf(B)) \cup (BitsOf(B) \ BitsOf(A))
<1>3. C \in SUBSET Ticks /\ \A t \in Ticks : t \in C <=> (t \in A /\ t \notin B) \/ (t \in B /\ t \notin A)
  OBVIOUS
<1>4. L \subseteq {Bit(t) : t \in Ticks} /\ BitsOf(C) \subseteq {Bit(t) : t \in Ticks}
  BY <1>2, <1>3
<1>5. \A t \in Ticks : Bit(t) \in L <=> Bit(t) \in BitsOf(C)
  BY <1>1, <1>3
<1> HIDE DEF C, L
<1>6. L = BitsOf(C)
  BY <1>4, <1>5
<1>7. QED BY <1>6 DEF C, L

-----------------------------------------------------------------------------
(* Sums over positions.                                                     *)

Held == positions \in [Ranges -> 0..MaxLiquidity]

\* There are finitely many ranges.
LEMMA RangesFinite == IsFiniteSet(Ranges)
<1>1. IsFiniteSet(Ticks \X Ticks)
  BY TicksAre, FS_Product
<1>2. QED BY <1>1, FS_Subset DEF Ranges

\* A range is of two ticks, the lower first.
LEMMA RangesAre ==
    \A r \in Ranges : r[1] \in Ticks /\ r[2] \in Ticks /\ r[1] < r[2] /\ r[1] \in Int /\ r[2] \in Int
BY TicksAre DEF Ranges

\* Liquidity is a natural number.
LEMMA HeldNat == ASSUME Held PROVE positions \in [Ranges -> Nat]
<1>1. \A n \in 0..MaxLiquidity : n \in Nat
  BY PoolAssumption
<1>2. QED BY <1>1 DEF Held

\* So are the sums of it.
LEMMA LiquidityTypes ==
    ASSUME Held
    PROVE  \A t : GrossAt(t) \in Nat /\ NetAt(t) \in Int /\ Active(t) \in Nat
<1>1. \A S \in SUBSET Ranges : SumOf(positions, S) \in Nat
  BY HeldNat, RangesFinite, SumType, SumIs
<1> TAKE t
<1> DEFINE A == {r \in Ranges : t \in {r[1], r[2]}}
           B == {r \in Ranges : t = r[1]}
           C == {r \in Ranges : t = r[2]}
           E == {r \in Ranges : r[1] <= t /\ t < r[2]}
<1>2. A \in SUBSET Ranges /\ B \in SUBSET Ranges /\ C \in SUBSET Ranges /\ E \in SUBSET Ranges
  OBVIOUS
<1>3. /\ GrossAt(t) = SumOf(positions, A)
      /\ NetAt(t) = SumOf(positions, B) - SumOf(positions, C)
      /\ Active(t) = SumOf(positions, E)
  BY DEF GrossAt, NetAt, Active
<1> HIDE DEF A, B, C, E
<1>4. QED BY <1>1, <1>2, <1>3

\* A position that grows by delta.
Grown(r, delta) ==
    /\ r \in Ranges /\ delta \in Int
    /\ Held /\ Held'
    /\ positions' = [positions EXCEPT ![r] = @ + delta]

\* Of the sums over positions those change that the range is part of.
LEMMA SumGrown ==
    ASSUME NEW r, NEW delta, Grown(r, delta)
    PROVE  \A S \in SUBSET Ranges :
              SumOf(positions', S) = SumOf(positions, S) + (IF r \in S THEN delta ELSE 0)
<1>1. /\ r \in Ranges /\ delta \in Int /\ Held /\ Held'
      /\ positions' = [positions EXCEPT ![r] = @ + delta]
  BY DEF Grown
<1>2. positions \in [Ranges -> Nat] /\ positions' \in [Ranges -> Nat]
  <2>1. \A n \in 0..MaxLiquidity : n \in Nat
    BY PoolAssumption
  <2>2. QED BY <1>1, <2>1 DEF Held
<1>3. /\ positions'[r] - positions[r] = delta
      /\ \A x \in Ranges : x # r => positions'[x] = positions[x]
  BY <1>1, <1>2
<1> DEFINE f == positions
           g == positions'
<1>4. f \in [Ranges -> Nat] /\ g \in [Ranges -> Nat] /\ g[r] - f[r] = delta
      /\ \A x \in Ranges : x # r => g[x] = f[x]
  BY <1>2, <1>3
<1> HIDE DEF f, g
<1>5. \A S \in SUBSET Ranges : SumOf(g, S) = SumOf(f, S) + (IF r \in S THEN g[r] - f[r] ELSE 0)
  BY <1>1, <1>4, RangesFinite, SumUpdate, SumIs
<1>6. QED BY <1>4, <1>5 DEF f, g

\* What a Mint or Burn changes of the liquidity at and over the ticks.
LEMMA LiquidityGrown ==
    ASSUME NEW r, NEW delta, Grown(r, delta)
    PROVE  \A t : /\ GrossAt(t)' = GrossAt(t) + (IF t \in {r[1], r[2]} THEN delta ELSE 0)
                  /\ NetAt(t)' = NetAt(t) + (IF t = r[1] THEN delta
                                             ELSE IF t = r[2] THEN -delta ELSE 0)
                  /\ Active(t)' = Active(t) + (IF r[1] <= t /\ t < r[2] THEN delta ELSE 0)
<1>1. \A S \in SUBSET Ranges :
         /\ SumOf(positions', S) = SumOf(positions, S) + (IF r \in S THEN delta ELSE 0)
         /\ SumOf(positions, S) \in Nat
  BY SumGrown, HeldNat, RangesFinite, SumType, SumIs DEF Grown
<1>2. r \in Ranges /\ delta \in Int /\ r[1] # r[2]
  BY RangesAre DEF Grown
<1> TAKE t
<1> DEFINE A == {s \in Ranges : t \in {s[1], s[2]}}
           B == {s \in Ranges : t = s[1]}
           C == {s \in Ranges : t = s[2]}
           E == {s \in Ranges : s[1] <= t /\ t < s[2]}
<1>3. /\ A \in SUBSET Ranges /\ (r \in A <=> t \in {r[1], r[2]})
      /\ B \in SUBSET Ranges /\ (r \in B <=> t = r[1])
      /\ C \in SUBSET Ranges /\ (r \in C <=> t = r[2])
      /\ E \in SUBSET Ranges /\ (r \in E <=> r[1] <= t /\ t < r[2])
  BY <1>2
<1>4. /\ GrossAt(t) = SumOf(positions, A) /\ GrossAt(t)' = SumOf(positions', A)
      /\ NetAt(t) = SumOf(positions, B) - SumOf(positions, C)
      /\ NetAt(t)' = SumOf(positions', B) - SumOf(positions', C)
      /\ Active(t) = SumOf(positions, E) /\ Active(t)' = SumOf(positions', E)
  BY DEF GrossAt, NetAt, Active
<1> HIDE DEF A, B, C, E
<1>5. GrossAt(t)' = GrossAt(t) + (IF t \in {r[1], r[2]} THEN delta ELSE 0)
  BY <1>1, <1>3, <1>4
<1>6. Active(t)' = Active(t) + (IF r[1] <= t /\ t < r[2] THEN delta ELSE 0)
  BY <1>1, <1>3, <1>4
<1>7. NetAt(t)' = NetAt(t) + (IF t = r[1] THEN delta ELSE IF t = r[2] THEN -delta ELSE 0)
  <2>1. /\ SumOf(positions', B) = SumOf(positions, B) + (IF t = r[1] THEN delta ELSE 0)
        /\ SumOf(positions', C) = SumOf(positions, C) + (IF t = r[2] THEN delta ELSE 0)
        /\ SumOf(positions, B) \in Nat /\ SumOf(positions, C) \in Nat
    BY <1>1, <1>3
  <2>2. QED BY <1>2, <1>4, <2>1
<1>8. QED BY <1>5, <1>6, <1>7

\* Where no position starts or ends none does so with liquidity.
LEMMA NothingThere ==
    ASSUME Held, NEW t, GrossAt(t) = 0
    PROVE  /\ NetAt(t) = 0
           /\ \A r \in Ranges : t \in {r[1], r[2]} => positions[r] = 0
<1> DEFINE A == {r \in Ranges : t \in {r[1], r[2]}}
           B == {r \in Ranges : t = r[1]}
           C == {r \in Ranges : t = r[2]}
<1>1. \A S \in SUBSET Ranges : SumOf(positions, S) = 0 <=> \A r \in S : positions[r] = 0
  BY HeldNat, RangesFinite, SumZero, SumIs
<1>2. GrossAt(t) = SumOf(positions, A) /\ NetAt(t) = SumOf(positions, B) - SumOf(positions, C)
  BY DEF GrossAt, NetAt
<1>3. A \in SUBSET Ranges /\ \A r \in A : positions[r] = 0
  <2>1. A \in SUBSET Ranges
    OBVIOUS
  <2> HIDE DEF A
  <2>2. QED BY <1>1, <1>2, <2>1
<1>4. /\ B \in SUBSET Ranges /\ \A r \in B : positions[r] = 0
      /\ C \in SUBSET Ranges /\ \A r \in C : positions[r] = 0
  BY <1>3
<1>5. SumOf(positions, B) = 0 /\ SumOf(positions, C) = 0
  <2> HIDE DEF B, C
  <2>1. QED BY <1>1, <1>4
<1>6. NetAt(t) = 0
  BY <1>2, <1>5
<1>7. QED BY <1>3, <1>6

\* Over a tick the active liquidity changes by the net liquidity of the tick.
LEMMA ActiveCrosses ==
    ASSUME Held, NEW t \in Int
    PROVE  Active(t) = Active(t - 1) + NetAt(t)
<1> DEFINE A == {r \in Ranges : r[1] <= t /\ t < r[2]}
           B == {r \in Ranges : r[1] <= t - 1 /\ t - 1 < r[2]}
           F == {r \in Ranges : t = r[1]}
           L == {r \in Ranges : t = r[2]}
<1>1. /\ A \in SUBSET Ranges /\ B \in SUBSET Ranges /\ F \in SUBSET Ranges /\ L \in SUBSET Ranges
  OBVIOUS
<1>2. A \cap L = {} /\ B \cap F = {} /\ A \cup L = B \cup F
  <2>1. \A r \in Ranges : (r \in A \/ r \in L) <=> (r \in B \/ r \in F)
    BY RangesAre
  <2>2. \A r \in Ranges : ~(r \in A /\ r \in L) /\ ~(r \in B /\ r \in F)
    BY RangesAre
  <2> HIDE DEF A, B, F, L
  <2>3. QED BY <1>1, <2>1, <2>2
<1>3. /\ Active(t) = SumOf(positions, A) /\ Active(t - 1) = SumOf(positions, B)
      /\ NetAt(t) = SumOf(positions, F) - SumOf(positions, L)
  BY DEF Active, NetAt
<1> HIDE DEF A, B, F, L
<1>4. /\ SumOf(positions, A \cup L) = SumOf(positions, A) + SumOf(positions, L)
      /\ SumOf(positions, B \cup F) = SumOf(positions, B) + SumOf(positions, F)
  BY <1>1, <1>2, HeldNat, RangesFinite, SumDisjoint, SumIs
<1>5. /\ SumOf(positions, A) \in Nat /\ SumOf(positions, B) \in Nat
      /\ SumOf(positions, F) \in Nat /\ SumOf(positions, L) \in Nat
  BY <1>1, HeldNat, RangesFinite, SumType, SumIs
<1>6. SumOf(positions, A) + SumOf(positions, L) = SumOf(positions, B) + SumOf(positions, F)
  BY <1>2, <1>4
<1> DEFINE a == SumOf(positions, A)
           b == SumOf(positions, B)
           f == SumOf(positions, F)
           l == SumOf(positions, L)
<1>7. a \in Nat /\ b \in Nat /\ f \in Nat /\ l \in Nat /\ a + l = b + f
  BY <1>5, <1>6
<1>8. Active(t) = a /\ Active(t - 1) = b /\ NetAt(t) = f - l
  BY <1>3
<1> HIDE DEF a, b, f, l
<1>9. a = b + (f - l)
  BY <1>7
<1>10. QED BY <1>8, <1>9, Zenon

\* Between ticks at which nothing starts or ends it stays.
Flat(a, b) == \A t \in Ticks : a < t /\ t <= b => GrossAt(t) = 0

\* There the active liquidity is the same.
LEMMA ActiveFlat ==
    ASSUME Held, NEW a \in Int, NEW b \in Int, a <= b, Flat(a, b)
    PROVE  Active(a) = Active(b)
<1> DEFINE A == {r \in Ranges : r[1] <= a /\ a < r[2]}
           B == {r \in Ranges : r[1] <= b /\ b < r[2]}
           M == A \cap B
<1>1. /\ A \in SUBSET Ranges /\ B \in SUBSET Ranges /\ M \in SUBSET Ranges
      /\ A \ M \in SUBSET Ranges /\ B \ M \in SUBSET Ranges
      /\ M \cap (A \ M) = {} /\ M \cap (B \ M) = {}
      /\ M \cup (A \ M) = A /\ M \cup (B \ M) = B
  OBVIOUS
<1>2. ASSUME NEW r \in (A \ M) \cup (B \ M) PROVE positions[r] = 0
  <2>1. r \in Ranges /\ r[1] \in Ticks /\ r[2] \in Ticks /\ r[1] \in Int /\ r[2] \in Int /\ r[1] < r[2]
    BY RangesAre
  <2>2. (a < r[1] /\ r[1] <= b) \/ (a < r[2] /\ r[2] <= b)
    BY <2>1
  <2>3. PICK t \in {r[1], r[2]} : t \in Ticks /\ GrossAt(t) = 0
    BY <2>1, <2>2 DEF Flat
  <2>4. QED BY <2>1, <2>3, NothingThere
<1>3. Active(a) = SumOf(positions, A) /\ Active(b) = SumOf(positions, B)
  BY DEF Active
<1> DEFINE AM == A \ M
           BM == B \ M
<1>4. /\ AM \in SUBSET Ranges /\ BM \in SUBSET Ranges
      /\ M \cap AM = {} /\ M \cap BM = {} /\ M \cup AM = A /\ M \cup BM = B
      /\ (\A r \in AM : positions[r] = 0) /\ (\A r \in BM : positions[r] = 0)
  BY <1>1, <1>2
<1> HIDE DEF AM, BM, A, B, M
<1>5. SumOf(positions, AM) = 0 /\ SumOf(positions, BM) = 0
  BY <1>4, HeldNat, RangesFinite, SumZero, SumIs
<1>6. /\ SumOf(positions, M \cup AM) = SumOf(positions, M) + SumOf(positions, AM)
      /\ SumOf(positions, M \cup BM) = SumOf(positions, M) + SumOf(positions, BM)
  BY <1>1, <1>4, HeldNat, RangesFinite, SumDisjoint, SumIs
<1>7. QED BY <1>3, <1>4, <1>5, <1>6

-----------------------------------------------------------------------------
(* Mint and Burn keep the tick table.                                       *)

Used == {t \in Ticks : GrossAt(t) > 0}

\* An entry that mirrors the contract, also where there is none.
LEMMA EntryMirrors ==
    ASSUME Held, TicksMirror, NEW t \in Ticks
    PROVE  /\ EntryOrDefault(t).liquidity_gross = GrossAt(t)
           /\ EntryOrDefault(t).liquidity_net = NetAt(t)
           /\ EntryOrDefault(t).initialized \/ GrossAt(t) = 0
<1>1. ticks = [u \in Used |-> [liquidity_gross |-> GrossAt(u), liquidity_net |-> NetAt(u),
                               initialized |-> TRUE]]
  BY DEF TicksMirror, Used
<1>2. GrossAt(t) \in Nat /\ NetAt(t) \in Int
  BY LiquidityTypes
<1>3. CASE t \in Used
  <2>1. EntryOrDefault(t) = [liquidity_gross |-> GrossAt(t), liquidity_net |-> NetAt(t),
                             initialized |-> TRUE]
    BY <1>1, <1>3 DEF EntryOrDefault
  <2>2. QED BY <2>1
<1>4. CASE t \notin Used
  <2>1. EntryOrDefault(t) = DefaultInfo
    BY <1>1, <1>4 DEF EntryOrDefault
  <2>2. GrossAt(t) = 0
    BY <1>2, <1>4 DEF Used
  <2>3. QED BY <2>1, <2>2, NothingThere DEF DefaultInfo
<1>5. QED BY <1>3, <1>4

\* The ticks of a range from which so much is taken have had it.
MirrorEntry(t) == [liquidity_gross |-> GrossAt(t), liquidity_net |-> NetAt(t), initialized |-> TRUE]

\* update_tick makes an entry that mirrors the contract one that mirrors it after the log.
LEMMA MirrorUpdated ==
    ASSUME NEW r, NEW delta, Grown(r, delta), TicksMirror
    PROVE  /\ UpdatedTick(r[1], delta, FALSE) = MirrorEntry(r[1])'
           /\ UpdatedTick(r[2], delta, TRUE) = MirrorEntry(r[2])'
           /\ \A t \in {r[1], r[2]} : Flipped(t, delta) <=> (GrossAt(t)' = 0) # (GrossAt(t) = 0)
           /\ \A t \in {r[1], r[2]} : GrossAt(t)' = GrossAt(t) + delta
<1>1. /\ r \in Ranges /\ delta \in Int /\ Held /\ Held'
      /\ r[1] \in Ticks /\ r[2] \in Ticks /\ r[1] # r[2]
  BY RangesAre DEF Grown
<1>2. ASSUME NEW t \in {r[1], r[2]}
      PROVE  /\ EntryOrDefault(t).liquidity_gross = GrossAt(t)
             /\ EntryOrDefault(t).liquidity_net = NetAt(t)
             /\ EntryOrDefault(t).initialized \/ GrossAt(t) = 0
             /\ GrossAt(t)' = GrossAt(t) + delta /\ GrossAt(t) \in Nat /\ NetAt(t) \in Int
             /\ NetAt(t)' = NetAt(t) + (IF t = r[1] THEN delta
                                        ELSE IF t = r[2] THEN -delta ELSE 0)
  BY <1>1, EntryMirrors, LiquidityGrown, LiquidityTypes
<1>3. ASSUME NEW t \in {r[1], r[2]}, NEW upper \in BOOLEAN, upper = (t = r[2])
      PROVE  UpdatedTick(t, delta, upper) = MirrorEntry(t)'
  <2> DEFINE e == EntryOrDefault(t)
  <2>1. UpdatedTick(t, delta, upper) =
          [liquidity_gross |-> e.liquidity_gross + delta,
           liquidity_net |-> e.liquidity_net + (IF upper THEN -delta ELSE delta),
           initialized |-> e.initialized \/ e.liquidity_gross = 0]
    BY DEF UpdatedTick
  <2>2. e.liquidity_gross + delta = GrossAt(t)'
    BY <1>2
  <2>3. e.liquidity_net + (IF upper THEN -delta ELSE delta) = NetAt(t)'
    BY <1>1, <1>2, <1>3
  <2>4. (e.initialized \/ e.liquidity_gross = 0) = TRUE
    BY <1>2
  <2>5. MirrorEntry(t)' = [liquidity_gross |-> GrossAt(t)', liquidity_net |-> NetAt(t)',
                           initialized |-> TRUE]
    BY DEF MirrorEntry
  <2> HIDE DEF e
  <2>6. QED BY <2>1, <2>2, <2>3, <2>4, <2>5
<1>4. /\ UpdatedTick(r[1], delta, FALSE) = MirrorEntry(r[1])'
      /\ UpdatedTick(r[2], delta, TRUE) = MirrorEntry(r[2])'
  BY <1>1, <1>3
<1>5. \A t \in {r[1], r[2]} : Flipped(t, delta) <=> (GrossAt(t)' = 0) # (GrossAt(t) = 0)
  BY <1>2 DEF Flipped
<1>6. QED BY <1>2, <1>4, <1>5

\* What is taken from a range was there.
LEMMA GrownTypes ==
    ASSUME NEW r, NEW delta, Grown(r, delta)
    PROVE  \A t : GrossAt(t)' \in Nat /\ Active(t)' \in Nat
<1> DEFINE g == positions'
<1>1. g \in [Ranges -> Nat]
  <2>1. \A n \in 0..MaxLiquidity : n \in Nat
    BY PoolAssumption
  <2>2. QED BY <2>1 DEF Grown, Held
<1> TAKE t
<1> DEFINE A == {s \in Ranges : t \in {s[1], s[2]}}
           B == {s \in Ranges : s[1] <= t /\ t < s[2]}
<1>2. A \in SUBSET Ranges /\ B \in SUBSET Ranges
  OBVIOUS
<1>3. GrossAt(t)' = SumOf(g, A) /\ Active(t)' = SumOf(g, B)
  BY DEF GrossAt, Active
<1> HIDE DEF g, A, B
<1>4. QED BY <1>1, <1>2, <1>3, RangesFinite, SumType, SumIs

\* The ticks in use after it.
LEMMA UsedGrown ==
    ASSUME NEW r, NEW delta, Grown(r, delta), delta # 0
    PROVE  LET flipped == {t \in {r[1], r[2]} : (GrossAt(t)' = 0) # (GrossAt(t) = 0)}
           IN  /\ Used' = (Used \ flipped) \cup (flipped \ Used)
               /\ Used' = (Used \cup {r[1], r[2]}) \ (IF delta < 0 THEN flipped ELSE {})
<1>1. /\ r \in Ranges /\ delta \in Int /\ r[1] \in Ticks /\ r[2] \in Ticks
      /\ Used \subseteq Ticks /\ Used' \subseteq Ticks
  BY RangesAre DEF Grown, Used
<1>2. \A t : /\ GrossAt(t)' = GrossAt(t) + (IF t \in {r[1], r[2]} THEN delta ELSE 0)
             /\ GrossAt(t) \in Nat
  BY LiquidityGrown, LiquidityTypes DEF Grown
<1>3. \A t : GrossAt(t)' \in Nat
  BY GrownTypes
<1>4. \A t \in Ticks : (t \in Used <=> GrossAt(t) > 0) /\ (t \in Used' <=> GrossAt(t)' > 0)
  BY DEF Used
<1> DEFINE flipped == {t \in {r[1], r[2]} : (GrossAt(t)' = 0) # (GrossAt(t) = 0)}
<1>5. \A t \in Ticks : t \in flipped <=> t \in {r[1], r[2]} /\ ((GrossAt(t)' = 0) # (GrossAt(t) = 0))
  OBVIOUS
<1>6. flipped \subseteq Ticks
  BY <1>1
<1>7. \A t \in Ticks : t \in Used' <=> (t \in Used /\ t \notin flipped) \/ (t \in flipped /\ t \notin Used)
  <2> TAKE t \in Ticks
  <2>1. CASE t \in {r[1], r[2]}
    BY <1>2, <1>3, <1>4, <1>5, <2>1
  <2>2. CASE t \notin {r[1], r[2]}
    BY <1>2, <1>3, <1>4, <1>5, <2>2
  <2>3. QED BY <2>1, <2>2
<1>8. \A t \in Ticks : t \in Used' <=> (t \in Used \/ t \in {r[1], r[2]}) /\ ~(delta < 0 /\ t \in flipped)
  <2> TAKE t \in Ticks
  <2>1. CASE t \in {r[1], r[2]}
    BY <1>1, <1>2, <1>3, <1>4, <1>5, <2>1
  <2>2. CASE t \notin {r[1], r[2]}
    BY <1>2, <1>3, <1>4, <1>5, <2>2
  <2>3. QED BY <2>1, <2>2
<1> HIDE DEF flipped
<1>9. Used' = (Used \ flipped) \cup (flipped \ Used)
  BY <1>1, <1>6, <1>7
<1>10. Used' = (Used \cup {r[1], r[2]}) \ (IF delta < 0 THEN flipped ELSE {})
  BY <1>1, <1>6, <1>8
<1>11. QED BY <1>9, <1>10 DEF flipped

\* A Mint or Burn keeps the table and the bitmap those of the contract.
LEMMA MirrorKept ==
    ASSUME NEW r, NEW delta, Grown(r, delta), TicksMirror, UpdatePosition(r[1], r[2], delta)
    PROVE  TicksMirror'
<1> DEFINE l == r[1]
           u == r[2]
           flipped == IF delta = 0 THEN {} ELSE {t \in {l, u} : Flipped(t, delta)}
           updated == [t \in DOMAIN ticks \cup {l, u} |->
                          IF t = l THEN UpdatedTick(t, delta, FALSE)
                          ELSE IF t = u THEN UpdatedTick(t, delta, TRUE)
                          ELSE ticks[t]]
           removed == IF delta < 0 THEN flipped ELSE {}
           table == [t \in Used |-> MirrorEntry(t)]
<1>1. /\ ticks' = IF delta = 0 THEN ticks ELSE [t \in DOMAIN updated \ removed |-> updated[t]]
      /\ tick_bitmap' = (tick_bitmap \ BitsOf(flipped)) \cup (BitsOf(flipped) \ tick_bitmap)
  BY Zenon DEF UpdatePosition, Restrict
<1>2. /\ r \in Ranges /\ delta \in Int /\ Held /\ Held'
      /\ l \in Ticks /\ u \in Ticks /\ l # u
  BY RangesAre DEF Grown
<1>3. ticks = table /\ tick_bitmap = BitsOf(Used)
  BY DEF TicksMirror, Used, MirrorEntry
<1>4. SUFFICES ticks' = [t \in Used' |-> MirrorEntry(t)'] /\ tick_bitmap' = BitsOf(Used')
  BY DEF TicksMirror, Used, MirrorEntry
<1>5. \A t : /\ GrossAt(t)' = GrossAt(t) + (IF t \in {l, u} THEN delta ELSE 0)
             /\ NetAt(t)' = NetAt(t) + (IF t = l THEN delta ELSE IF t = u THEN -delta ELSE 0)
             /\ GrossAt(t) \in Nat /\ NetAt(t) \in Int
  BY <1>2, LiquidityGrown, LiquidityTypes
<1>6. CASE delta = 0
  <2>1. \A t : GrossAt(t)' = GrossAt(t) /\ NetAt(t)' = NetAt(t)
    BY <1>5, <1>6
  <2>2. Used' = Used /\ \A t : MirrorEntry(t)' = MirrorEntry(t)
    BY <2>1 DEF Used, MirrorEntry
  <2>3. ticks' = ticks
    BY <1>1, <1>6
  <2>4. BitsOf(flipped) = {}
    BY <1>6 DEF BitsOf
  <2>5. tick_bitmap' = tick_bitmap
    <3> HIDE DEF flipped
    <3>1. QED BY <1>1, <2>4
  <2>6. QED BY <1>3, <2>2, <2>3, <2>5
<1>7. CASE delta # 0
  <2>1. /\ UpdatedTick(l, delta, FALSE) = MirrorEntry(l)'
        /\ UpdatedTick(u, delta, TRUE) = MirrorEntry(u)'
        /\ \A t \in {l, u} : Flipped(t, delta) <=> (GrossAt(t)' = 0) # (GrossAt(t) = 0)
    BY MirrorUpdated
  <2>2. flipped = {t \in {l, u} : (GrossAt(t)' = 0) # (GrossAt(t) = 0)}
    BY <1>7, <2>1
  <2> HIDE DEF flipped
  <2>3. /\ Used' = (Used \ flipped) \cup (flipped \ Used)
        /\ Used' = (Used \cup {l, u}) \ removed
    BY <1>7, <2>2, UsedGrown
  <2>4. tick_bitmap' = BitsOf(Used')
    <3>1. flipped \in SUBSET Ticks /\ Used \in SUBSET Ticks
      BY <1>2, <2>2 DEF Used
    <3>2. QED BY <1>1, <1>3, <2>3, <3>1, BitsToggle
  <2>5. DOMAIN updated \ removed = Used'
    <3>1. DOMAIN updated = Used \cup {l, u}
      BY <1>3
    <3> HIDE DEF updated
    <3>2. QED BY <2>3, <3>1
  <2>6. ASSUME NEW t \in Used' PROVE updated[t] = MirrorEntry(t)'
    <3>1. t \in Used \cup {l, u}
      BY <2>3
    <3>2. CASE t \in {l, u}
      BY <1>2, <2>1, <3>2
    <3>3. CASE t \notin {l, u}
      <4>1. updated[t] = MirrorEntry(t)
        BY <1>3, <3>1, <3>3
      <4>2. MirrorEntry(t)' = MirrorEntry(t)
        <5>1. GrossAt(t)' = GrossAt(t) /\ NetAt(t)' = NetAt(t)
          BY <1>5, <3>3
        <5>2. QED BY <5>1 DEF MirrorEntry
      <4>3. QED BY <4>1, <4>2
    <3>4. QED BY <3>2, <3>3
  <2>7. ticks' = [t \in Used' |-> MirrorEntry(t)']
    <3>1. ticks' = [t \in Used' |-> updated[t]]
      <4> HIDE DEF updated
      <4>1. QED BY <1>1, <1>7, <2>5
    <3> HIDE DEF updated
    <3>2. QED BY <2>6, <3>1
  <2>8. QED BY <2>4, <2>7
<1>8. QED BY <1>6, <1>7

\* Where the table is the contract's, AgniPool's saturation never bites.
LEMMA AgniUpdates ==
    ASSUME NEW r, NEW delta, Grown(r, delta), TicksMirror,
           AgniUpdatePosition(r[1], r[2], delta)
    PROVE  UpdatePosition(r[1], r[2], delta)
<1>1. /\ delta \in Int /\ Held /\ r[1] \in Ticks /\ r[2] \in Ticks
  BY RangesAre DEF Grown
<1>2. ASSUME NEW t \in {r[1], r[2]}
      PROVE  Saturating(EntryOrDefault(t).liquidity_gross + delta)
               = EntryOrDefault(t).liquidity_gross + delta
  <2>1. EntryOrDefault(t).liquidity_gross = GrossAt(t) /\ GrossAt(t) \in Nat
    BY <1>1, EntryMirrors, LiquidityTypes
  <2>2. GrossAt(t)' = GrossAt(t) + delta
    BY LiquidityGrown
  <2>4. GrossAt(t)' \in Nat
    BY GrownTypes
  <2>3. QED BY <1>1, <2>1, <2>2, <2>4 DEF Saturating
<1>3. ASSUME NEW t \in {r[1], r[2]}
      PROVE  /\ AgniFlipped(t, delta) <=> Flipped(t, delta)
             /\ \A upper \in BOOLEAN :
                   AgniUpdatedTick(t, delta, upper) = UpdatedTick(t, delta, upper)
  <2>1. AgniFlipped(t, delta) <=> Flipped(t, delta)
    BY <1>2 DEF AgniFlipped, Flipped
  <2>2. \A upper \in BOOLEAN :
           AgniUpdatedTick(t, delta, upper) = UpdatedTick(t, delta, upper)
    BY <1>2 DEF AgniUpdatedTick, UpdatedTick
  <2>3. QED BY <2>1, <2>2
<1> DEFINE l == r[1]
           u == r[2]
           fa == {t \in {l, u} : AgniFlipped(t, delta)}
           fu == {t \in {l, u} : Flipped(t, delta)}
           ua == [t \in DOMAIN ticks \cup {l, u} |->
                     IF t = l THEN AgniUpdatedTick(t, delta, FALSE)
                     ELSE IF t = u THEN AgniUpdatedTick(t, delta, TRUE)
                     ELSE ticks[t]]
           uu == [t \in DOMAIN ticks \cup {l, u} |->
                     IF t = l THEN UpdatedTick(t, delta, FALSE)
                     ELSE IF t = u THEN UpdatedTick(t, delta, TRUE)
                     ELSE ticks[t]]
<1>4. fa = fu
  BY <1>3
<1>5. ua = uu
  BY <1>3
<1>6. QED
  <2>1. LET flipped == IF delta = 0 THEN {} ELSE fa
            removed == IF delta < 0 THEN flipped ELSE {}
            bits == BitsOf(flipped)
        IN  /\ ticks' = IF delta = 0 THEN ticks ELSE Restrict(ua, DOMAIN ua \ removed)
            /\ tick_bitmap' = (tick_bitmap \ bits) \cup (bits \ tick_bitmap)
    BY Zenon DEF AgniUpdatePosition
  <2>2. LET flipped == IF delta = 0 THEN {} ELSE fu
            removed == IF delta < 0 THEN flipped ELSE {}
            bits == BitsOf(flipped)
        IN  /\ ticks' = IF delta = 0 THEN ticks ELSE Restrict(uu, DOMAIN uu \ removed)
            /\ tick_bitmap' = (tick_bitmap \ bits) \cup (bits \ tick_bitmap)
    <3> HIDE DEF fa, fu, ua, uu
    <3>1. QED BY <1>4, <1>5, <2>1, Zenon
  <2>3. QED BY <2>2, Zenon DEF UpdatePosition

-----------------------------------------------------------------------------
(* A copy whose ticks were not read.                                        *)

Live == {t \in DOMAIN ticks : ticks[t].liquidity_gross > 0}

BasicTable ==
    /\ DOMAIN ticks \subseteq Ticks
    /\ \A t \in DOMAIN ticks :
          /\ ticks[t].liquidity_gross \in Nat /\ ticks[t].liquidity_net \in Int
          /\ ticks[t].liquidity_gross <= GrossAt(t)
    /\ tick_bitmap = BitsOf(Live)

\* An entry that holds no more than the contract, also where there is none.
LEMMA BasicEntry ==
    ASSUME Held, BasicTable, NEW t \in Ticks
    PROVE  /\ EntryOrDefault(t).liquidity_gross \in Nat
           /\ EntryOrDefault(t).liquidity_net \in Int
           /\ EntryOrDefault(t).liquidity_gross <= GrossAt(t)
           /\ t \in Live <=> EntryOrDefault(t).liquidity_gross > 0
<1>1. GrossAt(t) \in Nat
  BY LiquidityTypes
<1>2. CASE t \in DOMAIN ticks
  <2>1. EntryOrDefault(t) = ticks[t]
    BY <1>2 DEF EntryOrDefault
  <2>2. QED BY <1>2, <2>1 DEF BasicTable, Live
<1>3. CASE t \notin DOMAIN ticks
  <2>1. EntryOrDefault(t).liquidity_gross = 0 /\ EntryOrDefault(t).liquidity_net = 0
    BY <1>3 DEF EntryOrDefault, DefaultInfo
  <2>2. QED BY <1>1, <1>3, <2>1 DEF Live
<1>4. QED BY <1>2, <1>3

\* A Mint or Burn keeps such a table below the contract, and its bits on what it holds.
LEMMA BasicKept ==
    ASSUME NEW r, NEW delta, Grown(r, delta), BasicTable,
           AgniUpdatePosition(r[1], r[2], delta)
    PROVE  BasicTable'
<1> DEFINE l == r[1]
           u == r[2]
           flipped == IF delta = 0 THEN {} ELSE {t \in {l, u} : AgniFlipped(t, delta)}
           updated == [t \in DOMAIN ticks \cup {l, u} |->
                          IF t = l THEN AgniUpdatedTick(t, delta, FALSE)
                          ELSE IF t = u THEN AgniUpdatedTick(t, delta, TRUE)
                          ELSE ticks[t]]
           removed == IF delta < 0 THEN flipped ELSE {}
           left(t) == Saturating(EntryOrDefault(t).liquidity_gross + delta)
<1>1. /\ ticks' = IF delta = 0 THEN ticks ELSE [t \in DOMAIN updated \ removed |-> updated[t]]
      /\ tick_bitmap' = (tick_bitmap \ BitsOf(flipped)) \cup (BitsOf(flipped) \ tick_bitmap)
  BY Zenon DEF AgniUpdatePosition, Restrict
<1>2. /\ r \in Ranges /\ delta \in Int /\ Held /\ Held'
      /\ l \in Ticks /\ u \in Ticks /\ l # u
      /\ DOMAIN ticks \subseteq Ticks /\ tick_bitmap = BitsOf(Live) /\ Live \subseteq Ticks
  BY RangesAre DEF Grown, BasicTable, Live
<1>3. \A t : /\ GrossAt(t)' = GrossAt(t) + (IF t \in {l, u} THEN delta ELSE 0)
             /\ GrossAt(t) \in Nat /\ GrossAt(t)' \in Nat
  BY <1>2, LiquidityGrown, LiquidityTypes, GrownTypes
<1>4. CASE delta = 0
  <2>1. ticks' = ticks /\ \A t : GrossAt(t)' = GrossAt(t)
    BY <1>1, <1>3, <1>4
  <2>2. BitsOf(flipped) = {}
    BY <1>4 DEF BitsOf
  <2>3. tick_bitmap' = tick_bitmap
    <3> HIDE DEF flipped
    <3>1. QED BY <1>1, <2>2
  <2>4. QED BY <2>1, <2>3 DEF BasicTable, Live
<1>5. CASE delta # 0
  <2>1. ASSUME NEW t \in {l, u}
        PROVE  /\ EntryOrDefault(t).liquidity_gross \in Nat
               /\ EntryOrDefault(t).liquidity_net \in Int
               /\ left(t) \in Nat /\ left(t) <= GrossAt(t)'
               /\ t \in Live <=> EntryOrDefault(t).liquidity_gross > 0
               /\ t \in flipped <=> (left(t) = 0) # (EntryOrDefault(t).liquidity_gross = 0)
               /\ delta < 0 => left(t) <= EntryOrDefault(t).liquidity_gross
    <3>1. /\ EntryOrDefault(t).liquidity_gross \in Nat
          /\ EntryOrDefault(t).liquidity_net \in Int
          /\ EntryOrDefault(t).liquidity_gross <= GrossAt(t)
          /\ t \in Live <=> EntryOrDefault(t).liquidity_gross > 0
      BY <1>2, BasicEntry
    <3>2. left(t) \in Nat /\ left(t) <= GrossAt(t)'
          /\ (delta < 0 => left(t) <= EntryOrDefault(t).liquidity_gross)
      BY <1>2, <1>3, <3>1 DEF Saturating
    <3>3. t \in flipped <=> (left(t) = 0) # (EntryOrDefault(t).liquidity_gross = 0)
      BY <1>5 DEF AgniFlipped
    <3>4. QED BY <3>1, <3>2, <3>3
  <2>2. ASSUME NEW t \in {l, u}
        PROVE  /\ updated[t].liquidity_gross = left(t)
               /\ updated[t].liquidity_net \in Int
    <3>1. PICK upper \in BOOLEAN : updated[t] = AgniUpdatedTick(t, delta, upper)
      OBVIOUS
    <3>2. AgniUpdatedTick(t, delta, upper).liquidity_gross = left(t)
      BY DEF AgniUpdatedTick
    <3>3. AgniUpdatedTick(t, delta, upper).liquidity_net \in Int
      BY <1>2, <2>1 DEF AgniUpdatedTick
    <3>4. QED BY <3>1, <3>2, <3>3
  <2>3. \A t \in DOMAIN ticks \ {l, u} : updated[t] = ticks[t]
    OBVIOUS
  <2>4. flipped \subseteq {l, u} /\ DOMAIN updated = DOMAIN ticks \cup {l, u}
    OBVIOUS
  <2> HIDE DEF updated, flipped, left
  <2>5. /\ DOMAIN ticks' = (DOMAIN ticks \cup {l, u}) \ removed
        /\ \A t \in DOMAIN ticks' : ticks'[t] = updated[t]
    BY <1>1, <1>5, <2>4
  <2>6. DOMAIN ticks' \subseteq Ticks
    BY <1>2, <2>5
  <2>7. ASSUME NEW t \in DOMAIN ticks'
        PROVE  /\ ticks'[t].liquidity_gross \in Nat /\ ticks'[t].liquidity_net \in Int
               /\ ticks'[t].liquidity_gross <= GrossAt(t)'
    <3>1. CASE t \in {l, u}
      BY <2>1, <2>2, <2>5, <3>1
    <3>2. CASE t \notin {l, u}
      <4>1. t \in DOMAIN ticks /\ ticks'[t] = ticks[t] /\ GrossAt(t)' = GrossAt(t)
        BY <1>3, <2>3, <2>5, <3>2
      <4>2. QED BY <4>1 DEF BasicTable
    <3>3. QED BY <3>1, <3>2
  <2>8. Live' = (Live \ flipped) \cup (flipped \ Live)
    <3>1. Live' \subseteq Ticks /\ flipped \subseteq Ticks
      BY <1>2, <2>4, <2>6 DEF Live
    <3>2. ASSUME NEW t \in Ticks
          PROVE  t \in Live' <=> (t \in Live /\ t \notin flipped) \/ (t \in flipped /\ t \notin Live)
      <4>1. CASE t \in {l, u}
        <5>1. t \in Live' <=> t \notin removed /\ left(t) > 0
          BY <2>2, <2>5, <4>1 DEF Live
        <5>2. QED BY <1>2, <2>1, <4>1, <5>1
      <4>2. CASE t \notin {l, u}
        <5>1. t \notin flipped /\ (t \in DOMAIN ticks' <=> t \in DOMAIN ticks)
          BY <2>4, <2>5, <4>2
        <5>2. t \in DOMAIN ticks => ticks'[t] = ticks[t]
          BY <2>3, <2>5, <4>2, <5>1
        <5>3. QED BY <5>1, <5>2 DEF Live
      <4>3. QED BY <4>1, <4>2
    <3>3. QED BY <1>2, <3>1, <3>2
  <2>9. tick_bitmap' = BitsOf(Live')
    <3>1. flipped \in SUBSET Ticks /\ Live \in SUBSET Ticks
      BY <1>2, <2>4
    <3>2. QED BY <1>1, <1>2, <2>8, <3>1, BitsToggle
  <2>10. QED BY <2>6, <2>7, <2>9 DEF BasicTable
<1>6. QED BY <1>4, <1>5

-----------------------------------------------------------------------------
(* Prices and ticks.                                                        *)

\* The extreme prices.
LEMMA PricesAre == Lowest \in Int /\ Highest \in Int /\ Lowest < Highest /\ Lowest = 2 * MinTick + 1
                   /\ Highest = 2 * MaxTick - 1
BY PoolAssumption DEF Lowest, Highest

\* The ticks a price may belong to.
LEMMA TickOfPrice ==
    ASSUME NEW p \in Lowest..Highest
    PROVE  \A t : t \in TicksAt(p) <=>
              /\ t \in Int /\ MinTick <= t /\ t < MaxTick
              /\ \/ 2 * t <= p /\ p <= 2 * t + 1
                 \/ p = 2 * t + 2 /\ t + 1 \in Ticks
<1>1. /\ MinTick \in Int /\ MaxTick \in Int /\ p \in Int
      /\ 2 * MinTick + 1 <= p /\ p <= 2 * MaxTick - 1
  BY PoolAssumption, PricesAre
<1> TAKE t
<1>2. t = p \div 2 <=> t \in Int /\ 2 * t <= p /\ p <= 2 * t + 1
  BY <1>1
<1>3. t = p \div 2 => MinTick <= t /\ t < MaxTick
  BY <1>1, <1>2
<1>4. t \in Int /\ MinTick <= t /\ p = 2 * t + 2 => t < MaxTick
  BY <1>1
<1>5. t \in MinTick..MaxTick <=> t \in Int /\ MinTick <= t /\ t <= MaxTick
  BY <1>1
<1>6. t \in TicksAt(p) <=> t = p \div 2 \/ (t \in MinTick..MaxTick /\ 2 * (t + 1) = p /\ t + 1 \in Ticks)
  BY DEF TicksAt
<1>7. t \in Int => (2 * (t + 1) = p <=> p = 2 * t + 2)
  BY <1>1
<1>8. t \in Int /\ t < MaxTick => t <= MaxTick
  BY <1>1
<1>9. QED BY <1>2, <1>3, <1>4, <1>5, <1>6, <1>7, <1>8

-----------------------------------------------------------------------------
(* The next tick.                                                           *)

\* Max is the greatest of a set of integers within bounds.
LEMMA MaxOf ==
    ASSUME NEW a \in Int, NEW b \in Int, NEW S \in SUBSET (a..b), S # {}
    PROVE  Max(S) \in S /\ \A x \in S : x <= Max(S)
<1> DEFINE T == {x - a : x \in S}
<1>0. \A x \in S : x \in Int /\ x - a \in T
  OBVIOUS
<1>1. b - a \in Nat /\ T \subseteq Nat /\ T # {} /\ \A y \in T : y <= b - a
  <2>1. PICK x \in S : TRUE
    OBVIOUS
  <2>2. b - a \in Nat
    <3>1. x \in a..b
      OBVIOUS
    <3>2. QED BY <3>1
  <2>3. T \subseteq Nat
    <3>1. \A y \in S : y - a \in Nat
      OBVIOUS
    <3>2. QED BY <3>1
  <2>4. T # {}
    BY <2>1
  <2>5. \A y \in T : y <= b - a
    OBVIOUS
  <2>6. QED BY <2>2, <2>3, <2>4, <2>5
<1>2. PICK k \in T : \A y \in T : y <= k
  <2> HIDE DEF T
  <2>1. QED BY <1>1, GreatestNat
<1>3. PICK m \in S : k = m - a
  BY <1>2
<1>4. \A x \in S : x <= m
  <2> HIDE DEF T
  <2>1. QED BY <1>0, <1>2, <1>3
<1>5. QED BY <1>4, Zenon DEF Max

\* Min is the least.
LEMMA MinOf ==
    ASSUME NEW a \in Int, NEW b \in Int, NEW S \in SUBSET (a..b), S # {}
    PROVE  Min(S) \in S /\ \A x \in S : Min(S) <= x
<1> DEFINE T == {x - a : x \in S}
<1>0. \A x \in S : x \in Int /\ x - a \in T
  OBVIOUS
<1>1. T \subseteq Nat /\ T # {}
  <2>1. PICK x \in S : TRUE
    OBVIOUS
  <2>2. \A y \in S : y - a \in Nat
    OBVIOUS
  <2>3. T \subseteq Nat
    BY <2>2
  <2>4. T # {}
    BY <2>1
  <2>5. QED BY <2>3, <2>4
<1>2. PICK k \in T : \A y \in T : k <= y
  <2> HIDE DEF T
  <2>1. QED BY <1>1, LeastNat
<1>3. PICK m \in S : k = m - a
  BY <1>2
<1>4. \A x \in S : m <= x
  <2> HIDE DEF T
  <2>1. QED BY <1>0, <1>2, <1>3
<1>5. QED BY <1>4, Zenon DEF Min

\* The greater of two.
LEMMA MaxTwo == ASSUME NEW a \in Int, NEW b \in Int PROVE Max({a, b}) = IF a >= b THEN a ELSE b
<1> DEFINE m == IF a >= b THEN a ELSE b
<1>1. m \in {a, b} /\ \A y \in {a, b} : m >= y
  OBVIOUS
<1>2. \A x \in {a, b} : (\A y \in {a, b} : x >= y) => x = m
  OBVIOUS
<1> HIDE DEF m
<1>3. Max({a, b}) = m
  BY <1>1, <1>2, Zenon DEF Max
<1>4. QED BY <1>3 DEF m

\* The lesser of two.
LEMMA MinTwo == ASSUME NEW a \in Int, NEW b \in Int PROVE Min({a, b}) = IF a <= b THEN a ELSE b
<1> DEFINE m == IF a <= b THEN a ELSE b
<1>1. m \in {a, b} /\ \A y \in {a, b} : m <= y
  OBVIOUS
<1>2. \A x \in {a, b} : (\A y \in {a, b} : x <= y) => x = m
  OBVIOUS
<1> HIDE DEF m
<1>3. Min({a, b}) = m
  BY <1>1, <1>2, Zenon DEF Min
<1>4. QED BY <1>3 DEF m

\* What the loop does with a next tick beyond the extreme ones.
LEMMA ClampIs ==
    ASSUME NEW t \in Int
    PROVE  Clamp(t) = IF t < MinTick THEN MinTick ELSE IF t > MaxTick THEN MaxTick ELSE t
<1>1. MinTick \in Int /\ MaxTick \in Int /\ MinTick < MaxTick
  BY PoolAssumption
<1>2. Max({MinTick, t}) = IF MinTick >= t THEN MinTick ELSE t
  BY <1>1, MaxTwo
<1> DEFINE m == IF MinTick >= t THEN MinTick ELSE t
<1>3. m \in Int
  BY <1>1
<1>4. Min({MaxTick, m}) = IF MaxTick <= m THEN MaxTick ELSE m
  <2> HIDE DEF m
  <2>1. QED BY <1>1, <1>3, MinTwo
<1>5. Clamp(t) = IF MaxTick <= m THEN MaxTick ELSE m
  BY <1>2, <1>4 DEF Clamp
<1>6. QED BY <1>1, <1>5

\* The bits of the ticks S are set.
Bitmap(S) == S \in SUBSET Ticks /\ tick_bitmap = BitsOf(S)

\* A set bit is that of a tick of S, and the other way round.
LEMMA SetBits ==
    ASSUME NEW S, Bitmap(S)
    PROVE  /\ \A b \in tick_bitmap : b \in Int /\ b * tick_spacing \in S
           /\ \A u \in S : u \in Int /\ Bit(u) \in tick_bitmap /\ Bit(u) \in Int
                           /\ u = Bit(u) * tick_spacing
<1>1. S \in SUBSET Ticks /\ tick_bitmap = {Bit(u) : u \in S}
  BY BitsOfIs DEF Bitmap
<1>2. QED BY <1>1, TicksAre

\* What the search returns.
Found(n, i) == [tick |-> n, initialized |-> i]

\* Its fields.
LEMMA FoundIs ==
    ASSUME NEW n, NEW i \in BOOLEAN
    PROVE  Found(n, i).tick = n /\ Found(n, i).initialized = i
BY DEF Found

\* The search downwards ends at or below t, on a tick of S or at the end of a word,
\* and passes over no tick of S (next_initialized_tick_within_one_word).
LEMMA NextDown ==
    ASSUME NEW S, Bitmap(S), NEW t \in Int
    PROVE  /\ NextTick(TRUE, t).tick \in Int /\ NextTick(TRUE, t).tick % tick_spacing = 0
           /\ NextTick(TRUE, t).tick <= t
           /\ NextTick(TRUE, t).initialized \in BOOLEAN
           /\ NextTick(TRUE, t).initialized <=> NextTick(TRUE, t).tick \in S
           /\ \A u \in S : ~(NextTick(TRUE, t).tick < u /\ u <= t)
<1> DEFINE start == t \div tick_spacing
           end == WordBits * (start \div WordBits)
           set == {b \in tick_bitmap : b \in end..start}
           bit == IF set = {} THEN end ELSE Max(set)
           n == bit * tick_spacing
<1>1. NextTick(TRUE, t) = Found(n, set # {})
  <2>1. SearchStart(TRUE, t) = start /\ WordEnd(TRUE, start) = end
    <3>1. start \in Int
      BY PoolAssumption, DivBelow
    <3>2. SearchStart(TRUE, t) = start
      BY <3>1 DEF SearchStart
    <3>3. WordEnd(TRUE, start) = end
      BY DEF WordEnd
    <3>4. QED BY <3>2, <3>3
  <2> HIDE DEF start, end
  <2>2. QED BY <2>1, Zenon DEF NextTick, Found
<1>2. start \in Int /\ end \in Int /\ end <= start
  <2>1. start \in Int
    BY PoolAssumption, DivBelow
  <2> HIDE DEF start
  <2>2. start \div WordBits \in Int /\ end <= start
    BY <2>1, PoolAssumption, DivBelow
  <2>3. QED BY <2>1, <2>2, PoolAssumption
<1>3. /\ bit \in Int /\ end <= bit /\ bit <= start
      /\ set # {} => bit \in tick_bitmap /\ \A b \in set : b <= bit
  <2>1. set \in SUBSET (end..start)
    OBVIOUS
  <2> HIDE DEF start, end
  <2>2. CASE set = {}
    BY <1>2, <2>2
  <2>3. CASE set # {}
    <3>1. Max(set) \in set /\ \A b \in set : b <= Max(set)
      <4> HIDE DEF set
      <4>1. QED BY <1>2, <2>1, <2>3, MaxOf
    <3>2. bit = Max(set)
      BY <2>3
    <3>3. bit \in tick_bitmap /\ bit \in end..start
      BY <3>1, <3>2
    <3> HIDE DEF bit
    <3>4. QED BY <1>2, <3>1, <3>2, <3>3
  <2>4. QED BY <2>2, <2>3
<1>4. /\ n \in Int /\ n % tick_spacing = 0 /\ n <= t
      /\ n \in Ticks => Bit(n) = bit
  <2> HIDE DEF bit
  <2>1. n \in Int /\ n % tick_spacing = 0 /\ n \div tick_spacing = bit /\ n = tick_spacing * bit
    BY <1>3, PoolAssumption, MultipleIs
  <2>2. tick_spacing * bit <= t <=> bit <= start
    BY <1>3, PoolAssumption, DivBelow
  <2>3. QED BY <1>3, <2>1, <2>2 DEF Bit
<1>5. set # {} <=> n \in S
  <2>1. ASSUME set # {} PROVE n \in S
    <3> HIDE DEF bit, set
    <3>1. QED BY <1>3, <2>1, SetBits
  <2>2. ASSUME n \in S PROVE set # {}
    <3> HIDE DEF bit, start, end
    <3>1. Bit(n) \in tick_bitmap /\ n \in Ticks
      BY <2>2, SetBits DEF Bitmap
    <3>2. bit \in tick_bitmap /\ bit \in end..start
      BY <1>2, <1>3, <1>4, <3>1
    <3>3. QED BY <3>2
  <2>3. QED BY <2>1, <2>2
<1>6. ASSUME NEW u \in S, n < u, u <= t PROVE FALSE
  <2> HIDE DEF bit, end
  <2>1. u \in Ticks /\ Bit(u) \in tick_bitmap /\ Bit(u) \in Int
    BY SetBits DEF Bitmap
  <2>2. u = Bit(u) * tick_spacing /\ u \in Int
    BY SetBits
  <2>3. Bit(u) <= start
    BY <1>6, <2>1, TicksAre DEF Bit
  <2>4. Bit(u) > bit
    <3>1. ASSUME Bit(u) <= bit PROVE u <= n
      <4>1. Bit(n) = bit
        BY <1>3, PoolAssumption, MultipleIs DEF Bit
      <4> HIDE DEF n
      <4>2. QED BY <1>4, <2>1, <3>1, <4>1, TicksAre
    <3>2. QED BY <1>3, <1>4, <1>6, <2>1, <2>2, <3>1
  <2> HIDE DEF start, n
  <2>5. Bit(u) \in set
    BY <1>2, <1>3, <2>1, <2>3, <2>4
  <2> HIDE DEF set
  <2>6. QED BY <1>3, <2>1, <2>4, <2>5
<1>7. QED
  <2> HIDE DEF n, set
  <2> DEFINE i == set # {}
  <2>0. i \in BOOLEAN
    BY Zenon
  <2>1. NextTick(TRUE, t).tick = n
    BY <1>1, <2>0, FoundIs, Zenon
  <2>2. NextTick(TRUE, t).initialized = i
    BY <1>1, <2>0, FoundIs, Zenon
  <2>3. NextTick(TRUE, t).initialized \in BOOLEAN
    BY <2>0, <2>2, Zenon
  <2>4. NextTick(TRUE, t).initialized <=> set # {}
    BY <2>2, Zenon
  <2>5. NextTick(TRUE, t).initialized <=> NextTick(TRUE, t).tick \in S
    BY <1>5, <2>1, <2>4, Zenon
  <2>6. \A u \in S : ~(NextTick(TRUE, t).tick < u /\ u <= t)
    BY <1>6, <2>1, Zenon
  <2>7. QED BY <1>4, <2>1, <2>3, <2>5, <2>6

\* The search upwards ends above t and passes over none either.
LEMMA NextUp ==
    ASSUME NEW S, Bitmap(S), NEW t \in Int
    PROVE  /\ NextTick(FALSE, t).tick \in Int /\ NextTick(FALSE, t).tick % tick_spacing = 0
           /\ t < NextTick(FALSE, t).tick
           /\ NextTick(FALSE, t).initialized \in BOOLEAN
           /\ NextTick(FALSE, t).initialized <=> NextTick(FALSE, t).tick \in S
           /\ \A u \in S : ~(t < u /\ u < NextTick(FALSE, t).tick)
<1> DEFINE start == t \div tick_spacing + 1
           end == WordBits * (start \div WordBits) + WordBits - 1
           set == {b \in tick_bitmap : b \in start..end}
           bit == IF set = {} THEN end ELSE Min(set)
           n == bit * tick_spacing
<1>1. NextTick(FALSE, t) = Found(n, set # {})
  <2>1. SearchStart(FALSE, t) = start /\ WordEnd(FALSE, start) = end
    BY DEF SearchStart, WordEnd
  <2> HIDE DEF start, end
  <2>2. QED BY <2>1, Zenon DEF NextTick, Found
<1>2. /\ start \in Int /\ end \in Int /\ start <= end
      /\ t \div tick_spacing \in Int /\ t \div tick_spacing = start - 1
  <2>1. start \in Int /\ t \div tick_spacing \in Int /\ t \div tick_spacing = start - 1
    BY PoolAssumption, DivBelow
  <2> HIDE DEF start
  <2> DEFINE q == start \div WordBits
  <2>2. q \in Int /\ (WordBits * (q + 1) <= start <=> q + 1 <= q)
    BY <2>1, PoolAssumption, DivBelow
  <2>3. WordBits * (q + 1) = WordBits * q + WordBits /\ WordBits * q \in Int
    BY <2>2, PoolAssumption
  <2>4. ~(WordBits * q + WordBits <= start)
    BY <2>2, <2>3
  <2> HIDE DEF q
  <2>5. QED BY <2>1, <2>2, <2>3, <2>4, PoolAssumption DEF q
<1>3. /\ bit \in Int /\ start <= bit /\ bit <= end
      /\ set # {} => bit \in tick_bitmap /\ \A b \in set : bit <= b
  <2>1. set \in SUBSET (start..end)
    OBVIOUS
  <2> HIDE DEF start, end
  <2>2. CASE set = {}
    BY <1>2, <2>2
  <2>3. CASE set # {}
    <3>1. Min(set) \in set /\ \A b \in set : Min(set) <= b
      <4> HIDE DEF set
      <4>1. QED BY <1>2, <2>1, <2>3, MinOf
    <3>2. bit = Min(set)
      BY <2>3
    <3>3. bit \in tick_bitmap /\ bit \in start..end
      BY <3>1, <3>2
    <3> HIDE DEF bit
    <3>4. QED BY <1>2, <3>1, <3>2, <3>3
  <2>4. QED BY <2>2, <2>3
<1>4. /\ n \in Int /\ n % tick_spacing = 0 /\ t < n
      /\ n \in Ticks => Bit(n) = bit
  <2> HIDE DEF bit
  <2>1. n \in Int /\ n % tick_spacing = 0 /\ n \div tick_spacing = bit /\ n = tick_spacing * bit
    BY <1>3, PoolAssumption, MultipleIs
  <2>2. tick_spacing * bit <= t <=> bit <= t \div tick_spacing
    BY <1>3, PoolAssumption, DivBelow
  <2> HIDE DEF start
  <2>3. ~(bit <= t \div tick_spacing)
    BY <1>2, <1>3
  <2> HIDE DEF n
  <2>4. QED BY <2>1, <2>2, <2>3 DEF Bit
<1>5. set # {} <=> n \in S
  <2>1. ASSUME set # {} PROVE n \in S
    <3> HIDE DEF bit, set
    <3>1. QED BY <1>3, <2>1, SetBits
  <2>2. ASSUME n \in S PROVE set # {}
    <3> HIDE DEF bit, start, end
    <3>1. Bit(n) \in tick_bitmap /\ n \in Ticks
      BY <2>2, SetBits DEF Bitmap
    <3>2. bit \in tick_bitmap /\ bit \in start..end
      BY <1>2, <1>3, <1>4, <3>1
    <3>3. QED BY <3>2
  <2>3. QED BY <2>1, <2>2
<1>6. ASSUME NEW u \in S, t < u, u < n PROVE FALSE
  <2> HIDE DEF bit, end
  <2>1. u \in Ticks /\ Bit(u) \in tick_bitmap /\ Bit(u) \in Int /\ u \in Int
    BY SetBits DEF Bitmap
  <2>2. ~(Bit(u) <= t \div tick_spacing)
    BY <1>6, <2>1, TicksAre DEF Bit
  <2>3. start <= Bit(u)
    <3> HIDE DEF start
    <3>1. QED BY <1>2, <2>1, <2>2
  <2>4. Bit(u) < bit
    <3>1. Bit(n) = bit
      BY <1>3, PoolAssumption, MultipleIs DEF Bit
    <3> HIDE DEF n
    <3>2. Bit(u) <= bit
      BY <1>4, <1>6, <2>1, <3>1, TicksAre
    <3>3. Bit(u) = bit => u = n
      BY SetBits DEF n
    <3>4. QED BY <1>3, <1>4, <1>6, <2>1, <3>2, <3>3
  <2> HIDE DEF start, n
  <2>5. Bit(u) \in set
    BY <1>2, <1>3, <2>1, <2>3, <2>4
  <2> HIDE DEF set
  <2>6. QED BY <1>3, <2>1, <2>4, <2>5
<1>7. QED
  <2> HIDE DEF n, set
  <2> DEFINE i == set # {}
  <2>0. i \in BOOLEAN
    BY Zenon
  <2>1. NextTick(FALSE, t).tick = n
    BY <1>1, <2>0, FoundIs, Zenon
  <2>2. NextTick(FALSE, t).initialized = i
    BY <1>1, <2>0, FoundIs, Zenon
  <2>3. NextTick(FALSE, t).initialized \in BOOLEAN
    BY <2>0, <2>2, Zenon
  <2>4. NextTick(FALSE, t).initialized <=> set # {}
    BY <2>2, Zenon
  <2>5. NextTick(FALSE, t).initialized <=> NextTick(FALSE, t).tick \in S
    BY <1>5, <2>1, <2>4, Zenon
  <2>6. \A u \in S : ~(t < u /\ u < NextTick(FALSE, t).tick)
    BY <1>6, <2>1, Zenon
  <2>7. QED BY <1>4, <2>1, <2>3, <2>5, <2>6

-----------------------------------------------------------------------------
(* One iteration of the swap loop.                                          *)

\* A step moves the price towards the target, and unless it gets there it uses
\* up the amount.
LEMMA SwapMathIs ==
    ASSUME NEW p \in Int, NEW target \in Int, NEW l \in Nat, NEW amount \in Nat
    PROVE  LET step == SwapMathStep(p, target, l, amount)
           IN  /\ step.price \in Int
               /\ target > p => p <= step.price /\ step.price <= target
               /\ target <= p => target <= step.price /\ step.price <= p
               /\ step.used \in Nat /\ step.used <= amount
               /\ step.out \in Nat /\ step.out <= step.used
               /\ step.price = target \/ step.used = amount
<1> DEFINE distance == IF target > p THEN target - p ELSE p - target
           moved == IF distance * l <= amount THEN distance ELSE amount \div l
           price == IF target > p THEN p + moved ELSE p - moved
           used == IF moved = distance THEN distance * l ELSE amount
           out == moved * l
           step == SwapMathStep(p, target, l, amount)
<1>1. step = [price |-> price, used |-> used, out |-> out]
  BY Zenon DEF SwapMathStep
<1>2. step.price = price /\ step.used = used /\ step.out = out
  <2> HIDE DEF price, used, out, step
  <2>1. QED BY <1>1
<1>3. distance \in Nat
  OBVIOUS
<1>4. moved \in Nat /\ moved <= distance /\ moved * l <= amount
  <2> HIDE DEF distance
  <2>1. CASE distance * l <= amount
    BY <1>3, <2>1
  <2>2. CASE ~(distance * l <= amount)
    <3>1. l > 0
      BY <1>3, <2>2
    <3>2. distance * l \in Nat /\ distance * l = l * distance
      BY <1>3
    <3>3. amount < l * distance
      BY <2>2, <3>2
    <3>4. amount \div l \in Nat /\ amount \div l < distance
      BY <1>3, <3>1, <3>3, QuotientBelow
    <3>5. (amount \div l) * l <= amount
      BY <3>1, <3>4
    <3>6. moved = amount \div l
      BY <2>2
    <3> HIDE DEF moved
    <3>7. QED BY <1>3, <3>4, <3>5, <3>6
  <2>3. QED BY <2>1, <2>2
<1>5. out \in Nat /\ out <= amount
  <2> HIDE DEF distance, moved
  <2>1. QED BY <1>4
<1>6. used \in Nat /\ used <= amount /\ out <= used
  <2> HIDE DEF distance
  <2>1. distance * l \in Nat
    BY <1>3
  <2>2. QED BY <1>3, <1>4, <1>5, <2>1
<1>7. moved = distance \/ used = amount
  OBVIOUS
<1>8. /\ price \in Int
      /\ target > p => p <= price /\ price <= target
      /\ target <= p => target <= price /\ price <= p
      /\ moved = distance => price = target
  <2> HIDE DEF moved
  <2>1. QED BY <1>4
<1> HIDE DEF price, used, out, step, moved, distance
<1>9. QED BY <1>2, <1>5, <1>6, <1>7, <1>8 DEF step

\* It moves by units, as many as the amount pays for.
Units(p, target, l, amount, step, m) ==
    /\ step.price = IF target > p THEN p + m ELSE p - m
    /\ step.out = m * l /\ m * l <= amount
    /\ IF step.price = target THEN step.used = m * l
       ELSE step.used = amount /\ amount < m * l + l

\* Such a number of units there is.
LEMMA SwapMathUnits ==
    ASSUME NEW p \in Int, NEW target \in Int, NEW l \in Nat, NEW amount \in Nat
    PROVE  \E m \in Nat : Units(p, target, l, amount, SwapMathStep(p, target, l, amount), m)
<1> DEFINE distance == IF target > p THEN target - p ELSE p - target
           moved == IF distance * l <= amount THEN distance ELSE amount \div l
           price == IF target > p THEN p + moved ELSE p - moved
           used == IF moved = distance THEN distance * l ELSE amount
           out == moved * l
           step == SwapMathStep(p, target, l, amount)
<1>1. step = [price |-> price, used |-> used, out |-> out]
  BY Zenon DEF SwapMathStep
<1>2. step.price = price /\ step.used = used /\ step.out = out
  <2> HIDE DEF price, used, out, step
  <2>1. QED BY <1>1
<1>3. distance \in Nat /\ distance * l \in Nat
  <2>1. distance \in Nat
    OBVIOUS
  <2> HIDE DEF distance
  <2>2. QED BY <2>1
<1>4. CASE distance * l <= amount
  <2>1. moved = distance /\ used = distance * l /\ out = distance * l
    BY <1>4
  <2>2. price = target
    <3> HIDE DEF moved
    <3>1. QED BY <1>3, <2>1
  <2>3. moved \in Nat /\ step.used = moved * l /\ step.out = moved * l /\ moved * l <= amount
    <3> HIDE DEF moved, distance, used, out, step, price
    <3>1. QED BY <1>2, <1>3, <1>4, <2>1
  <2>4. step.price = target /\ step.price = IF target > p THEN p + moved ELSE p - moved
    BY <1>2, <2>2
  <2> HIDE DEF moved, step
  <2>5. QED BY <2>3, <2>4 DEF Units, step
<1>5. CASE ~(distance * l <= amount)
  <2>1. l > 0
    <3> HIDE DEF distance
    <3>1. l = 0 => distance * l = 0
      BY <1>3
    <3>2. QED BY <1>3, <1>5, <3>1
  <2>2. moved = amount \div l
    BY <1>5
  <2>3. moved \in Nat /\ moved * l <= amount /\ amount < moved * l + l
    <3> DEFINE k == amount \div l
    <3>1. k \in Nat /\ k * l <= amount
      BY <2>1
    <3>2. ~(l * (k + 1) <= amount)
      <4>1. l * (k + 1) <= amount <=> k + 1 <= k
        BY <2>1, <3>1, DivBelow
      <4> HIDE DEF k
      <4>2. QED BY <3>1, <4>1
    <3> HIDE DEF k
    <3>3. l * (k + 1) = k * l + l /\ k * l \in Nat
      BY <3>1
    <3>4. k * l <= amount /\ amount < k * l + l
      BY <3>1, <3>2, <3>3
    <3>5. QED BY <2>2, <3>1, <3>4 DEF k
  <2>4. moved # distance
    <3> HIDE DEF moved, distance
    <3>1. QED BY <1>5, <2>3
  <2>5. used = amount /\ price # target
    <3> HIDE DEF moved
    <3>1. QED BY <2>3, <2>4
  <2>6. /\ step.price = IF target > p THEN p + moved ELSE p - moved
        /\ step.out = moved * l /\ step.used = amount /\ step.price # target
    BY <1>2, <2>5
  <2> HIDE DEF moved, step
  <2>7. QED BY <2>3, <2>6 DEF Units, step
<1>6. QED BY <1>4, <1>5

\* What SwapStep makes of the next tick n.
Target(down, n) == IF down THEN Max({2 * Clamp(n), Limit(down)}) ELSE Min({2 * Clamp(n), Limit(down)})
TickAfter(down, n, q, p, t) ==
    IF q = 2 * Clamp(n) THEN IF down THEN Clamp(n) - 1 ELSE Clamp(n)
    ELSE IF q # p THEN q \div 2 ELSE t

\* Down: q is where the step ends.  It ends at the next tick, which is crossed
\* then, or between it and the tick it started at.
LEMMA StepDown ==
    ASSUME NEW p \in Lowest..Highest, NEW t \in TicksAt(p), NEW n \in Int,
           n % tick_spacing = 0, n <= t, NEW q \in Int
    PROVE  /\ Target(TRUE, n) \in Int /\ Target(TRUE, n) <= p
           /\ Target(TRUE, n) <= q /\ q <= p =>
                 /\ q \in Lowest..Highest /\ TickAfter(TRUE, n, q, p, t) \in TicksAt(q)
                 /\ q = 2 * Clamp(n) => Clamp(n) = n /\ n \in Ticks
                 /\ q # 2 * Clamp(n) => /\ n <= TickAfter(TRUE, n, q, p, t)
                                        /\ TickAfter(TRUE, n, q, p, t) <= t
                                        /\ 2 * n < q
                 /\ q = Target(TRUE, n) /\ q # Lowest => q = 2 * Clamp(n)
                 /\ q = 2 * Clamp(n) \/ q = Lowest => q = Target(TRUE, n)
<1> DEFINE c == Clamp(n)
           target == Target(TRUE, n)
           after == TickAfter(TRUE, n, q, p, t)
<1>1. /\ MinTick \in Int /\ MaxTick \in Int /\ Lowest = 2 * MinTick + 1 /\ Highest = 2 * MaxTick - 1
      /\ p \in Int /\ Lowest <= p /\ p <= Highest
  BY PoolAssumption, PricesAre
<1>2. /\ t \in Int /\ MinTick <= t /\ t < MaxTick
      /\ \/ 2 * t <= p /\ p <= 2 * t + 1
         \/ p = 2 * t + 2 /\ t + 1 \in Ticks
  BY TickOfPrice
<1>3. c = IF n < MinTick THEN MinTick ELSE n
  <2>1. c = IF n < MinTick THEN MinTick ELSE IF n > MaxTick THEN MaxTick ELSE n
    BY ClampIs
  <2> HIDE DEF c
  <2>2. QED BY <1>1, <1>2, <2>1
<1>4. target = IF 2 * c >= Lowest THEN 2 * c ELSE Lowest
  <2>1. target = Max({2 * c, Lowest})
    BY DEF Target, Limit
  <2>2. 2 * c \in Int /\ Lowest \in Int
    <3> HIDE DEF c
    <3>1. QED BY <1>1, <1>3
  <2> HIDE DEF c, target
  <2>3. QED BY <2>1, <2>2, MaxTwo
<1>5. after = IF q = 2 * c THEN c - 1 ELSE IF q # p THEN q \div 2 ELSE t
  BY DEF TickAfter
<1> SUFFICES /\ target \in Int /\ target <= p
             /\ target <= q /\ q <= p =>
                   /\ q \in Lowest..Highest /\ after \in TicksAt(q)
                   /\ q = 2 * c => c = n /\ n \in Ticks
                   /\ q # 2 * c => n <= after /\ after <= t /\ 2 * n < q
                   /\ q = target /\ q # Lowest => q = 2 * c
                   /\ q = 2 * c \/ q = Lowest => q = target
  OBVIOUS
<1> HIDE DEF c, target, after
<1>6. target \in Int /\ target <= p
  BY <1>1, <1>2, <1>3, <1>4
<1>7. ASSUME target <= q, q <= p
      PROVE  /\ q \in Lowest..Highest /\ after \in TicksAt(q)
             /\ q = 2 * c => c = n /\ n \in Ticks
             /\ q # 2 * c => n <= after /\ after <= t /\ 2 * n < q
             /\ q = target /\ q # Lowest => q = 2 * c
             /\ q = 2 * c \/ q = Lowest => q = target
  <2>1. q \in Lowest..Highest
    BY <1>1, <1>3, <1>4, <1>7
  <2>2. q = target /\ q # Lowest => q = 2 * c
    BY <1>4
  <2>3. ASSUME q = 2 * c PROVE c = n /\ MinTick < n /\ n <= MaxTick
    BY <1>1, <1>2, <1>3, <2>1, <2>3
  <2>4. ASSUME q = 2 * c PROVE n \in Ticks /\ after = n - 1
    <3>1. n \in MinTick..MaxTick
      BY <1>1, <2>3, <2>4
    <3>2. QED BY <1>5, <2>3, <2>4, <3>1 DEF Ticks
  <2>5. ASSUME q # 2 * c
        PROVE  /\ after \in Int /\ n <= after /\ after <= t
               /\ q # p => 2 * after <= q /\ q <= 2 * after + 1
               /\ q = p => after = t
    <3>1. CASE q = p
      BY <1>2, <1>5, <2>5, <3>1
    <3>2. CASE q # p
      BY <1>1, <1>2, <1>3, <1>4, <1>5, <1>7, <2>5, <3>2
    <3>3. QED BY <3>1, <3>2
  <2>6. after \in TicksAt(q)
    <3>1. CASE q = 2 * c
      BY <1>1, <2>1, <2>3, <2>4, <3>1, TickOfPrice
    <3>2. CASE q # 2 * c /\ q = p
      BY <2>5, <3>2
    <3>3. CASE q # 2 * c /\ q # p
      BY <1>1, <1>2, <2>1, <2>5, <3>3, TickOfPrice
    <3>4. QED BY <3>1, <3>2, <3>3
  <2>7. q # 2 * c => 2 * n < q
    BY <1>1, <1>2, <1>3, <1>4, <1>7
  <2>8. q = 2 * c \/ q = Lowest => q = target
    BY <1>1, <1>2, <1>3, <1>4, <1>6, <1>7, <2>1
  <2>9. QED BY <2>1, <2>2, <2>3, <2>4, <2>5, <2>6, <2>7, <2>8
<1>8. QED BY <1>6, <1>7

\* Up: the same, and a tick is crossed when the price arrives at it.
LEMMA StepUp ==
    ASSUME NEW p \in Lowest..Highest, NEW t \in TicksAt(p), NEW n \in Int,
           n % tick_spacing = 0, t < n, NEW q \in Int
    PROVE  /\ Target(FALSE, n) \in Int /\ p <= Target(FALSE, n)
           /\ p <= q /\ q <= Target(FALSE, n) =>
                 /\ q \in Lowest..Highest /\ TickAfter(FALSE, n, q, p, t) \in TicksAt(q)
                 /\ q = 2 * Clamp(n) => Clamp(n) = n /\ n \in Ticks
                 /\ q # 2 * Clamp(n) => /\ t <= TickAfter(FALSE, n, q, p, t)
                                        /\ TickAfter(FALSE, n, q, p, t) < n
                                        /\ q < 2 * n
                 /\ q = Target(FALSE, n) /\ q # Highest => q = 2 * Clamp(n)
                 /\ q = 2 * Clamp(n) \/ q = Highest => q = Target(FALSE, n)
<1> DEFINE c == Clamp(n)
           target == Target(FALSE, n)
           after == TickAfter(FALSE, n, q, p, t)
<1>1. /\ MinTick \in Int /\ MaxTick \in Int /\ Lowest = 2 * MinTick + 1 /\ Highest = 2 * MaxTick - 1
      /\ p \in Int /\ Lowest <= p /\ p <= Highest
  BY PoolAssumption, PricesAre
<1>2. /\ t \in Int /\ MinTick <= t /\ t < MaxTick
      /\ \/ 2 * t <= p /\ p <= 2 * t + 1
         \/ p = 2 * t + 2 /\ t + 1 \in Ticks
  BY TickOfPrice
<1>3. c = IF n > MaxTick THEN MaxTick ELSE n
  <2>1. c = IF n < MinTick THEN MinTick ELSE IF n > MaxTick THEN MaxTick ELSE n
    BY ClampIs
  <2> HIDE DEF c
  <2>2. QED BY <1>1, <1>2, <2>1
<1>4. target = IF 2 * c <= Highest THEN 2 * c ELSE Highest
  <2>1. target = Min({2 * c, Highest})
    BY DEF Target, Limit
  <2>2. 2 * c \in Int /\ Highest \in Int
    <3> HIDE DEF c
    <3>1. QED BY <1>1, <1>3
  <2> HIDE DEF c, target
  <2>3. QED BY <2>1, <2>2, MinTwo
<1>5. after = IF q = 2 * c THEN c ELSE IF q # p THEN q \div 2 ELSE t
  BY DEF TickAfter
<1> SUFFICES /\ target \in Int /\ p <= target
             /\ p <= q /\ q <= target =>
                   /\ q \in Lowest..Highest /\ after \in TicksAt(q)
                   /\ q = 2 * c => c = n /\ n \in Ticks
                   /\ q # 2 * c => t <= after /\ after < n /\ q < 2 * n
                   /\ q = target /\ q # Highest => q = 2 * c
                   /\ q = 2 * c \/ q = Highest => q = target
  OBVIOUS
<1> HIDE DEF c, target, after
<1>6. target \in Int /\ p <= target
  BY <1>1, <1>2, <1>3, <1>4
<1>7. ASSUME p <= q, q <= target
      PROVE  /\ q \in Lowest..Highest /\ after \in TicksAt(q)
             /\ q = 2 * c => c = n /\ n \in Ticks
             /\ q # 2 * c => t <= after /\ after < n /\ q < 2 * n
             /\ q = target /\ q # Highest => q = 2 * c
             /\ q = 2 * c \/ q = Highest => q = target
  <2>1. q \in Lowest..Highest
    BY <1>1, <1>3, <1>4, <1>7
  <2>2. q = target /\ q # Highest => q = 2 * c
    BY <1>4
  <2>3. ASSUME q = 2 * c PROVE c = n /\ MinTick <= n /\ n < MaxTick
    BY <1>1, <1>2, <1>3, <2>1, <2>3
  <2>4. ASSUME q = 2 * c PROVE n \in Ticks /\ after = n
    <3>1. n \in MinTick..MaxTick
      BY <1>1, <2>3, <2>4
    <3>2. QED BY <1>5, <2>3, <2>4, <3>1 DEF Ticks
  <2>5. ASSUME q # 2 * c
        PROVE  /\ after \in Int /\ t <= after /\ after < n
               /\ q # p => 2 * after <= q /\ q <= 2 * after + 1
               /\ q = p => after = t
    <3>1. CASE q = p
      BY <1>2, <1>5, <2>5, <3>1
    <3>2. CASE q # p
      BY <1>1, <1>2, <1>3, <1>4, <1>5, <1>7, <2>5, <3>2
    <3>3. QED BY <3>1, <3>2
  <2>6. after \in TicksAt(q)
    <3>1. CASE q = 2 * c
      BY <1>1, <2>1, <2>3, <2>4, <3>1, TickOfPrice
    <3>2. CASE q # 2 * c /\ q = p
      BY <2>5, <3>2
    <3>3. CASE q # 2 * c /\ q # p
      BY <1>1, <1>2, <2>1, <2>5, <3>3, TickOfPrice
    <3>4. QED BY <3>1, <3>2, <3>3
  <2>7. q # 2 * c => q < 2 * n
    BY <1>1, <1>2, <1>3, <1>4, <1>7
  <2>8. q = 2 * c \/ q = Highest => q = target
    BY <1>1, <1>2, <1>3, <1>4, <1>6, <1>7, <2>1
  <2>9. QED BY <2>1, <2>2, <2>3, <2>4, <2>5, <2>6, <2>7, <2>8
<1>8. QED BY <1>6, <1>7

-----------------------------------------------------------------------------
(* The swap loop.                                                           *)

SwapStates ==
    [status : {"running", "underflow"}, zero_for_one : BOOLEAN,
     amount_in : 1..MaxAmount, sqrt_price : Lowest..Highest,
     tick : MinTick..MaxTick, liquidity : Nat,
     remaining : 0..MaxAmount, calculated : 0..MaxAmount]

\* The loop's price and tick agree, and it pays no more than it has used.
SwapOk ==
    /\ swap \in SwapStates
    /\ swap.tick \in TicksAt(swap.sqrt_price)
    /\ swap.calculated + swap.remaining <= swap.amount_in

NextFound == NextTick(swap.zero_for_one, swap.tick)
Step == SwapMathStep(swap.sqrt_price, Target(swap.zero_for_one, NextFound.tick),
                     swap.liquidity, swap.remaining)
Reached == Step.price = 2 * Clamp(NextFound.tick)
Net == IF Reached /\ NextFound.initialized THEN Crossed(Clamp(NextFound.tick), swap.zero_for_one) ELSE 0
After == TickAfter(swap.zero_for_one, NextFound.tick, Step.price, swap.sqrt_price, swap.tick)

\* SwapStep by these names.
LEMMA SwapStepIs ==
    ASSUME SwapStep
    PROVE  /\ swap # NoSwap /\ LoopRuns /\ UNCHANGED <<positions, pool>>
           /\ swap' = IF swap.liquidity + Net < 0
                      THEN [swap EXCEPT !.status = "underflow"]
                      ELSE [status |-> "running",
                            zero_for_one |-> swap.zero_for_one,
                            amount_in |-> swap.amount_in,
                            sqrt_price |-> Step.price,
                            tick |-> After,
                            liquidity |-> swap.liquidity + Net,
                            remaining |-> swap.remaining - Step.used,
                            calculated |-> swap.calculated + Step.out]
BY Zenon DEF SwapStep, NextFound, Step, Reached, Net, After, Target, TickAfter

\* The fields of the loop.
LEMMA SwapFields ==
    ASSUME SwapOk
    PROVE  /\ swap.zero_for_one \in BOOLEAN
           /\ swap.sqrt_price \in Lowest..Highest /\ swap.sqrt_price \in Int
           /\ swap.tick \in TicksAt(swap.sqrt_price) /\ swap.tick \in Int
           /\ swap.liquidity \in Nat
           /\ swap.remaining \in Nat /\ swap.remaining <= MaxAmount
           /\ swap.calculated \in Nat
           /\ swap.amount_in \in 1..MaxAmount
           /\ swap.calculated + swap.remaining <= swap.amount_in
<1>1. MinTick \in Int /\ MaxTick \in Int /\ MaxAmount \in Nat /\ Lowest \in Int /\ Highest \in Int
  BY PoolAssumption, PricesAre
<1>2. swap.zero_for_one \in BOOLEAN
  BY Zenon DEF SwapOk, SwapStates
<1>3. /\ swap.sqrt_price \in Lowest..Highest /\ swap.tick \in MinTick..MaxTick
      /\ swap.liquidity \in Nat /\ swap.remaining \in 0..MaxAmount
      /\ swap.calculated \in 0..MaxAmount /\ swap.amount_in \in 1..MaxAmount
  BY DEF SwapOk, SwapStates
<1>4. QED BY <1>1, <1>2, <1>3 DEF SwapOk

\* What an iteration does to price, tick and amount, over a table whose bits are
\* set for the ticks S.
LEMMA StepIs ==
    ASSUME NEW S, Bitmap(S), SwapOk, LoopRuns
    PROVE  /\ Step.price \in Lowest..Highest /\ After \in TicksAt(Step.price)
           /\ Step.used \in Nat /\ Step.used <= swap.remaining
           /\ Step.out \in Nat /\ Step.out <= Step.used
           /\ NextFound.tick \in Int
           /\ NextFound.initialized <=> NextFound.tick \in S
           /\ Reached => Clamp(NextFound.tick) = NextFound.tick /\ NextFound.tick \in Ticks
           /\ ~Reached => Step.price = Limit(swap.zero_for_one) \/ Step.used = swap.remaining
           /\ Reached \/ Step.price = Limit(swap.zero_for_one) =>
                 Step.price = Target(swap.zero_for_one, NextFound.tick)
           /\ Target(swap.zero_for_one, NextFound.tick) \in Int
           /\ swap.zero_for_one =>
                 /\ Target(swap.zero_for_one, NextFound.tick) <= swap.sqrt_price
                 /\ Step.price <= swap.sqrt_price
                 /\ NextFound.tick <= swap.tick
                 /\ \A u \in S : ~(NextFound.tick < u /\ u <= swap.tick)
                 /\ IF Reached THEN After = NextFound.tick - 1
                    ELSE /\ NextFound.tick <= After /\ After <= swap.tick
                         /\ 2 * NextFound.tick < Step.price
           /\ ~swap.zero_for_one =>
                 /\ swap.sqrt_price <= Target(swap.zero_for_one, NextFound.tick)
                 /\ swap.sqrt_price <= Step.price
                 /\ swap.tick < NextFound.tick
                 /\ \A u \in S : ~(swap.tick < u /\ u < NextFound.tick)
                 /\ IF Reached THEN After = NextFound.tick
                    ELSE /\ swap.tick <= After /\ After < NextFound.tick
                         /\ Step.price < 2 * NextFound.tick
<1> DEFINE p == swap.sqrt_price
           t == swap.tick
           n == NextFound.tick
           q == Step.price
           down == swap.zero_for_one
<1>1. /\ down \in BOOLEAN /\ p \in Lowest..Highest /\ p \in Int
      /\ t \in TicksAt(p) /\ t \in Int
      /\ swap.liquidity \in Nat /\ swap.remaining \in Nat
  BY SwapFields
<1>2. CASE down
  <2>0. down = TRUE
    BY <1>1, <1>2
  <2>1. /\ n \in Int /\ n % tick_spacing = 0 /\ n <= t
        /\ NextFound.initialized <=> n \in S
        /\ \A u \in S : ~(n < u /\ u <= t)
    <3>1. NextFound = NextTick(TRUE, t)
      BY <2>0 DEF NextFound
    <3> HIDE DEF t
    <3>2. QED BY <1>1, <3>1, NextDown
  <2> DEFINE target == Target(TRUE, n)
  <2>2. Step = SwapMathStep(p, target, swap.liquidity, swap.remaining)
    BY <2>0 DEF Step
  <2>3. target \in Int /\ target <= p
    <3> HIDE DEF p, t, n
    <3>1. QED BY <1>1, <2>1, StepDown
  <2>4. /\ q \in Int /\ target <= q /\ q <= p
        /\ Step.used \in Nat /\ Step.used <= swap.remaining
        /\ Step.out \in Nat /\ Step.out <= Step.used
        /\ q = target \/ Step.used = swap.remaining
    <3> HIDE DEF target, p
    <3>1. QED BY <1>1, <2>2, <2>3, SwapMathIs
  <2>5. After = TickAfter(TRUE, n, q, p, t) /\ (Reached <=> q = 2 * Clamp(n))
    BY <2>0 DEF After, Reached
  <2>6. /\ q \in Lowest..Highest /\ After \in TicksAt(q)
        /\ Reached => Clamp(n) = n /\ n \in Ticks
        /\ ~Reached => n <= After /\ After <= t /\ 2 * n < q
        /\ q = target /\ q # Lowest => Reached
        /\ Reached \/ q = Lowest => q = target
    <3> HIDE DEF p, t, n, q
    <3>1. QED BY <1>1, <2>1, <2>4, <2>5, StepDown
  <2>7. Reached => After = n - 1
    BY <2>5, <2>6 DEF TickAfter
  <2>8. ~Reached => q = Limit(down) \/ Step.used = swap.remaining
    BY <2>0, <2>4, <2>6 DEF Limit
  <2>9. Reached \/ q = Limit(down) => q = Target(down, n)
    BY <2>0, <2>6 DEF Limit
  <2>10. Target(down, n) = target
    BY <2>0
  <2>11. QED BY <1>2, <2>1, <2>3, <2>4, <2>6, <2>7, <2>8, <2>9, <2>10
<1>3. CASE ~down
  <2>0. down = FALSE
    BY <1>1, <1>3
  <2>1. /\ n \in Int /\ n % tick_spacing = 0 /\ t < n
        /\ NextFound.initialized <=> n \in S
        /\ \A u \in S : ~(t < u /\ u < n)
    <3>1. NextFound = NextTick(FALSE, t)
      BY <2>0 DEF NextFound
    <3> HIDE DEF t
    <3>2. QED BY <1>1, <3>1, NextUp
  <2> DEFINE target == Target(FALSE, n)
  <2>2. Step = SwapMathStep(p, target, swap.liquidity, swap.remaining)
    BY <2>0 DEF Step
  <2>3. target \in Int /\ p <= target
    <3> HIDE DEF p, t, n
    <3>1. QED BY <1>1, <2>1, StepUp
  <2>4. /\ q \in Int /\ p <= q /\ q <= target
        /\ Step.used \in Nat /\ Step.used <= swap.remaining
        /\ Step.out \in Nat /\ Step.out <= Step.used
        /\ q = target \/ Step.used = swap.remaining
    <3> HIDE DEF target, p
    <3>1. /\ Step.price \in Int
          /\ target > p => p <= Step.price /\ Step.price <= target
          /\ target <= p => target <= Step.price /\ Step.price <= p
          /\ Step.used \in Nat /\ Step.used <= swap.remaining
          /\ Step.out \in Nat /\ Step.out <= Step.used
          /\ Step.price = target \/ Step.used = swap.remaining
      BY <1>1, <2>2, <2>3, SwapMathIs
    <3>2. p <= q /\ q <= target
      BY <1>1, <2>3, <3>1
    <3>3. QED BY <3>1, <3>2
  <2>5. After = TickAfter(FALSE, n, q, p, t) /\ (Reached <=> q = 2 * Clamp(n))
    BY <2>0 DEF After, Reached
  <2>6. /\ q \in Lowest..Highest /\ After \in TicksAt(q)
        /\ Reached => Clamp(n) = n /\ n \in Ticks
        /\ ~Reached => t <= After /\ After < n /\ q < 2 * n
        /\ q = target /\ q # Highest => Reached
        /\ Reached \/ q = Highest => q = target
    <3> HIDE DEF p, t, n, q
    <3>1. QED BY <1>1, <2>1, <2>4, <2>5, StepUp
  <2>7. Reached => After = n
    BY <2>5, <2>6 DEF TickAfter
  <2>8. ~Reached => q = Limit(down) \/ Step.used = swap.remaining
    BY <2>0, <2>4, <2>6 DEF Limit
  <2>9. Reached \/ q = Limit(down) => q = Target(down, n)
    BY <2>0, <2>6 DEF Limit
  <2>10. Target(down, n) = target
    BY <2>0
  <2>11. QED BY <1>3, <2>1, <2>3, <2>4, <2>6, <2>7, <2>8, <2>9, <2>10
<1>4. QED BY <1>1, <1>2, <1>3

\* Between the prices a and b the ticks S are those of the contract.
Known(S, a, b) ==
    \A u \in Ticks : a <= 2 * u /\ 2 * u <= b =>
        IF GrossAt(u) = 0 THEN u \notin S
        ELSE u \in S /\ EntryOrDefault(u).liquidity_net = NetAt(u)

\* Where the table mirrors the contract all ticks are known.
LEMMA MirrorKnown ==
    ASSUME Held, TicksMirror, NEW a, NEW b
    PROVE  Known(Used, a, b)
<1>1. ASSUME NEW u \in Ticks
      PROVE  IF GrossAt(u) = 0 THEN u \notin Used
             ELSE u \in Used /\ EntryOrDefault(u).liquidity_net = NetAt(u)
  BY EntryMirrors, LiquidityTypes DEF Used
<1>2. QED BY <1>1 DEF Known

\* Over known ticks an iteration goes from the liquidity active where it starts
\* to that active where it ends.
LEMMA StepActive ==
    ASSUME Held, NEW S, Bitmap(S), SwapOk, LoopRuns, swap.liquidity = Active(swap.tick),
           Known(S, IF swap.zero_for_one THEN Step.price ELSE swap.sqrt_price,
                    IF swap.zero_for_one THEN swap.sqrt_price ELSE Step.price)
    PROVE  swap.liquidity + Net = Active(After)
<1> DEFINE n == NextFound.tick
           t == swap.tick
           p == swap.sqrt_price
           q == Step.price
           a == After
           down == swap.zero_for_one
<1>1. /\ down \in BOOLEAN /\ p \in Int
      /\ t \in Int /\ 2 * t <= p /\ p <= 2 * t + 2
  <2>1. down \in BOOLEAN /\ p \in Lowest..Highest /\ p \in Int /\ t \in TicksAt(p)
    BY SwapFields
  <2> HIDE DEF p, t
  <2>2. QED BY <2>1, TickOfPrice
<1>2. /\ n \in Int /\ (NextFound.initialized <=> n \in S)
      /\ q \in Lowest..Highest /\ a \in TicksAt(q)
      /\ Reached => Clamp(n) = n /\ n \in Ticks
      /\ down => /\ q <= p /\ n <= t /\ \A u \in S : ~(n < u /\ u <= t)
                 /\ IF Reached THEN a = n - 1 ELSE n <= a /\ a <= t
      /\ ~down => /\ p <= q /\ t < n /\ \A u \in S : ~(t < u /\ u < n)
                  /\ IF Reached THEN a = n ELSE t <= a /\ a < n
  BY StepIs
<1>3. q \in Int /\ a \in Int /\ 2 * a <= q /\ q <= 2 * a + 2 /\ (Reached => q = 2 * n)
  <2>1. Reached => q = 2 * n
    BY <1>2 DEF Reached
  <2> HIDE DEF q, a, n
  <2>2. q \in Int
    BY <1>2, PricesAre
  <2>3. QED BY <1>2, <2>1, <2>2, TickOfPrice
<1>4. \A u : NetAt(u) \in Int /\ Active(u) \in Nat /\ GrossAt(u) \in Nat
  BY LiquidityTypes
<1>5. \A u \in Ticks : u \in Int
  BY TicksAre
<1>6. /\ down => Known(S, q, p)
      /\ ~down => Known(S, p, q)
  OBVIOUS
<1>7. ASSUME Reached
      PROVE  Net = IF down THEN -NetAt(n) ELSE NetAt(n)
  <2>1. /\ n \in Ticks
        /\ IF GrossAt(n) = 0 THEN n \notin S
           ELSE n \in S /\ EntryOrDefault(n).liquidity_net = NetAt(n)
    <3> HIDE DEF n, t, p, q, a, down
    <3>1. QED BY <1>1, <1>2, <1>3, <1>6, <1>7 DEF Known
  <2>2. CASE n \in S
    <3>1. EntryOrDefault(n).liquidity_net = NetAt(n)
      BY <2>1, <2>2
    <3>2. Net = Crossed(n, down)
      BY <1>2, <1>7, <2>2 DEF Net
    <3>3. QED BY <3>1, <3>2 DEF Crossed
  <2>3. CASE n \notin S
    <3>1. Net = 0
      BY <1>2, <2>3 DEF Net
    <3>2. NetAt(n) = 0
      BY <2>1, <2>3, NothingThere
    <3>3. -NetAt(n) = 0
      <4>1. NetAt(n) + NetAt(n) = 0
        BY <3>2
      <4>2. \A m \in Int : m + m = 0 => -m = 0
        OBVIOUS
      <4>3. QED BY <1>4, <4>1, <4>2
    <3>4. QED BY <3>1, <3>2, <3>3, Zenon
  <2>4. QED BY <2>2, <2>3
<1>8. ~Reached => Net = 0
  BY DEF Net
<1>9. Active(n) = Active(n - 1) + NetAt(n)
  BY <1>2, ActiveCrosses
<1>10. swap.liquidity = Active(t)
  OBVIOUS
<1> HIDE DEF n, t, p, q, a, down
<1>11. CASE down /\ Reached
  <2>1. Flat(n, t)
    <3>1. ASSUME NEW u \in Ticks, n < u, u <= t PROVE GrossAt(u) = 0
      <4>1. q <= 2 * u /\ 2 * u <= p /\ u \notin S
        BY <1>1, <1>2, <1>3, <1>5, <1>11, <3>1
      <4>2. QED BY <1>6, <1>11, <4>1 DEF Known
    <3>2. QED BY <3>1 DEF Flat
  <2>2. Active(n) = Active(t)
    BY <1>1, <1>2, <1>11, <2>1, ActiveFlat
  <2>3. a = n - 1 /\ Net = -NetAt(n)
    BY <1>2, <1>7, <1>11
  <2>4. Active(a) = Active(n - 1)
    BY <2>3
  <2>5. QED BY <1>4, <1>9, <1>10, <2>2, <2>3, <2>4 DEF a
<1>12. CASE down /\ ~Reached
  <2>1. Flat(a, t)
    <3>1. ASSUME NEW u \in Ticks, a < u, u <= t PROVE GrossAt(u) = 0
      <4>1. q <= 2 * u /\ 2 * u <= p /\ u \notin S
        BY <1>1, <1>2, <1>3, <1>5, <1>12, <3>1
      <4>2. QED BY <1>6, <1>12, <4>1 DEF Known
    <3>2. QED BY <3>1 DEF Flat
  <2>2. Active(a) = Active(t)
    BY <1>1, <1>2, <1>3, <1>12, <2>1, ActiveFlat
  <2>3. QED BY <1>4, <1>8, <1>10, <1>12, <2>2 DEF a
<1>13. CASE ~down /\ Reached
  <2>1. Flat(t, n - 1)
    <3>1. ASSUME NEW u \in Ticks, t < u, u <= n - 1 PROVE GrossAt(u) = 0
      <4>1. p <= 2 * u /\ 2 * u <= q /\ u \notin S
        BY <1>1, <1>2, <1>3, <1>5, <1>13, <3>1
      <4>2. QED BY <1>6, <1>13, <4>1 DEF Known
    <3>2. QED BY <3>1 DEF Flat
  <2>2. n - 1 \in Int /\ t <= n - 1
    BY <1>1, <1>2, <1>13
  <2>3. Active(t) = Active(n - 1)
    BY <1>1, <2>1, <2>2, ActiveFlat
  <2>4. a = n /\ Net = NetAt(n)
    BY <1>2, <1>7, <1>13
  <2>5. Active(a) = Active(n)
    BY <2>4
  <2>6. QED BY <1>4, <1>9, <1>10, <2>3, <2>4, <2>5 DEF a
<1>14. CASE ~down /\ ~Reached
  <2>1. Flat(t, a)
    <3>1. ASSUME NEW u \in Ticks, t < u, u <= a PROVE GrossAt(u) = 0
      <4>1. p <= 2 * u /\ 2 * u <= q /\ u \notin S
        BY <1>1, <1>2, <1>3, <1>5, <1>14, <3>1
      <4>2. QED BY <1>6, <1>14, <4>1 DEF Known
    <3>2. QED BY <3>1 DEF Flat
  <2>2. Active(t) = Active(a)
    BY <1>1, <1>2, <1>3, <1>14, <2>1, ActiveFlat
  <2>3. QED BY <1>4, <1>8, <1>10, <1>14, <2>2 DEF a
<1>15. QED BY <1>1, <1>11, <1>12, <1>13, <1>14

-----------------------------------------------------------------------------
(* The inductive invariant.                                                 *)

Price == sqrt_price \in Lowest..Highest

\* The table of ticks, as much of it as the pool has read.
Table == IF kind = "basic" THEN BasicTable ELSE TicksMirror

\* Over the contract's table the loop carries the liquidity active at its tick.
Loop ==
    swap # NoSwap =>
        /\ SwapOk
        /\ kind # "basic" /\ swap.status = "running" => swap.liquidity = Active(swap.tick)

PoolInv == Held /\ Price /\ LiquidityIsActive /\ Table /\ Loop

-----------------------------------------------------------------------------
(* Mint and Burn.                                                           *)

\* A Mint or Burn grows a position.
LEMMA GrownBy ==
    ASSUME Held, NEW r \in Ranges, NEW delta \in Int, positions[r] + delta \in 0..MaxLiquidity,
           positions' = [positions EXCEPT ![r] = @ + delta]
    PROVE  Grown(r, delta)
<1>1. positions' \in [Ranges -> 0..MaxLiquidity]
  BY DEF Held
<1>2. Held'
  BY <1>1 DEF Held, Ranges, Ticks
<1>3. QED BY <1>2 DEF Grown

\* It keeps the liquidity that of the tick, with saturation or without.
LEMMA ActiveKept ==
    ASSUME NEW r, NEW delta, Grown(r, delta), LiquidityIsActive, UNCHANGED <<sqrt_price, tick>>,
           NEW l, l = (IF tick >= r[1] /\ tick < r[2] THEN liquidity + delta ELSE liquidity),
           liquidity' = l \/ liquidity' = Saturating(l)
    PROVE  LiquidityIsActive'
<1>1. /\ Active(tick)' = Active(tick) + (IF r[1] <= tick /\ tick < r[2] THEN delta ELSE 0)
      /\ Active(tick) \in Nat /\ Active(tick)' \in Nat
  <2>1. Held
    BY DEF Grown
  <2>2. \A t : Active(t)' = Active(t) + (IF r[1] <= t /\ t < r[2] THEN delta ELSE 0)
    BY LiquidityGrown
  <2>3. \A t : Active(t)' \in Nat
    BY GrownTypes
  <2>4. tick' = tick
    OBVIOUS
  <2>5. Active(tick) \in Nat
    BY <2>1, LiquidityTypes
  <2>6. QED BY <2>2, <2>3, <2>4, <2>5
<1>2. liquidity = Active(tick) /\ tick \in TicksAt(sqrt_price)
  BY DEF LiquidityIsActive
<1>3. liquidity' = Active(tick)'
  <2>1. r[1] \in Int /\ r[2] \in Int /\ delta \in Int
    BY RangesAre DEF Grown
  <2>2. QED BY <1>1, <1>2, <2>1 DEF Saturating
<1>4. tick' \in TicksAt(sqrt_price)'
  BY <1>2 DEF TicksAt, Ticks
<1>5. QED BY <1>3, <1>4 DEF LiquidityIsActive

\* A swap in progress is as good as before when nothing of it changes.
LEMMA NoLoop == ASSUME swap = NoSwap, UNCHANGED swap PROVE Loop'
BY DEF Loop, NoSwap

\* Each action keeps the invariant: Mint of UniswapV3Pool,
LEMMA MintKeeps ==
    ASSUME PoolInv, kind = "uniswap", kind' = kind, NEW r \in Ranges, NEW amount \in Nat,
           Mint(r, amount)
    PROVE  PoolInv'
<1>1. positions[r] + amount \in 0..MaxLiquidity
  <2>1. positions[r] \in 0..MaxLiquidity /\ MaxLiquidity \in Nat
    BY PoolAssumption DEF PoolInv, Held
  <2>2. QED BY <2>1 DEF Mint
<1>2. Grown(r, amount)
  <2>1. positions' = [positions EXCEPT ![r] = @ + amount] /\ Held /\ amount \in Int
    BY DEF Mint, PoolInv
  <2>2. QED BY <1>1, <2>1, GrownBy
<1>3. /\ UpdatePosition(r[1], r[2], amount) /\ UNCHANGED <<sqrt_price, tick>>
      /\ liquidity' = IF tick >= r[1] /\ tick < r[2] THEN liquidity + amount ELSE liquidity
      /\ swap = NoSwap /\ UNCHANGED swap
  BY DEF Mint, ModifyPosition
<1>4. Held'
  BY <1>2 DEF Grown
<1>5. Price'
  BY <1>3 DEF PoolInv, Price, Lowest, Highest
<1>6. LiquidityIsActive'
  BY <1>2, <1>3, ActiveKept DEF PoolInv
<1>7. TicksMirror'
  BY <1>2, <1>3, MirrorKept DEF PoolInv, Table
<1>8. Loop'
  BY <1>3, NoLoop
<1>9. QED BY <1>4, <1>5, <1>6, <1>7, <1>8 DEF PoolInv, Table

\* Burn of UniswapV3Pool,
LEMMA BurnKeeps ==
    ASSUME PoolInv, kind = "uniswap", kind' = kind, NEW r \in Ranges, NEW amount \in Nat,
           Burn(r, amount)
    PROVE  PoolInv'
<1>1. positions[r] + (-amount) \in 0..MaxLiquidity
  <2>1. positions[r] \in 0..MaxLiquidity /\ MaxLiquidity \in Nat
    BY PoolAssumption DEF PoolInv, Held
  <2>2. amount <= positions[r]
    BY DEF Burn
  <2>3. QED BY <2>1, <2>2
<1>2. Grown(r, -amount)
  <2>1. Held /\ -amount \in Int
    BY DEF PoolInv
  <2>2. positions' = [positions EXCEPT ![r] = @ + (-amount)]
    <3>1. positions' = [positions EXCEPT ![r] = @ - amount]
      BY DEF Burn
    <3>2. positions[r] \in Int /\ positions[r] - amount = positions[r] + (-amount)
      BY PoolAssumption DEF PoolInv, Held
    <3>3. QED BY <3>1, <3>2
  <2>3. QED BY <1>1, <2>1, <2>2, GrownBy
<1>3. /\ UpdatePosition(r[1], r[2], -amount) /\ UNCHANGED <<sqrt_price, tick>>
      /\ liquidity' = IF tick >= r[1] /\ tick < r[2] THEN liquidity + (-amount) ELSE liquidity
      /\ swap = NoSwap /\ UNCHANGED swap
  BY DEF Burn, ModifyPosition
<1>4. Held'
  BY <1>2 DEF Grown
<1>5. Price'
  BY <1>3 DEF PoolInv, Price, Lowest, Highest
<1>6. LiquidityIsActive'
  BY <1>2, <1>3, ActiveKept DEF PoolInv
<1>7. TicksMirror'
  BY <1>2, <1>3, MirrorKept DEF PoolInv, Table
<1>8. Loop'
  BY <1>3, NoLoop
<1>9. QED BY <1>4, <1>5, <1>6, <1>7, <1>8 DEF PoolInv, Table

\* and both of AgniPool.
LEMMA AppliedKeeps ==
    ASSUME PoolInv, kind # "uniswap", NEW r \in Ranges, NEW delta \in Int, Applied(r, delta)
    PROVE  PoolInv'
<1>2. Grown(r, delta)
  <2>1. /\ positions' = [positions EXCEPT ![r] = @ + delta] /\ Held
        /\ positions[r] + delta \in 0..MaxLiquidity
    BY DEF Applied, PoolInv
  <2>2. QED BY <2>1, GrownBy
<1>3. /\ AgniUpdatePosition(r[1], r[2], delta) /\ UNCHANGED <<sqrt_price, tick>>
      /\ liquidity' = IF tick >= r[1] /\ tick < r[2] THEN Saturating(liquidity + delta) ELSE liquidity
      /\ swap = NoSwap /\ UNCHANGED <<swap, kind>>
  BY DEF Applied, AgniModifyPosition
<1>4. Held'
  BY <1>2 DEF Grown
<1>5. Price'
  BY <1>3 DEF PoolInv, Price, Lowest, Highest
<1>6. LiquidityIsActive'
  <2> DEFINE l == IF tick >= r[1] /\ tick < r[2] THEN liquidity + delta ELSE liquidity
  <2>1. liquidity' = l \/ liquidity' = Saturating(l)
    BY <1>3
  <2>2. LiquidityIsActive /\ UNCHANGED <<sqrt_price, tick>>
    BY <1>3 DEF PoolInv
  <2>3. QED BY <1>2, <2>1, <2>2, ActiveKept
<1>7. Table'
  <2>1. CASE kind = "basic"
    <3>1. BasicTable
      BY <2>1 DEF PoolInv, Table
    <3>2. BasicTable'
      BY <1>2, <1>3, <3>1, BasicKept
    <3>3. QED BY <1>3, <2>1, <3>2 DEF Table
  <2>2. CASE kind # "basic"
    <3>1. TicksMirror
      BY <2>2 DEF PoolInv, Table
    <3>2. UpdatePosition(r[1], r[2], delta)
      BY <1>2, <1>3, <3>1, AgniUpdates
    <3>3. TicksMirror'
      BY <1>2, <3>1, <3>2, MirrorKept
    <3>4. QED BY <1>3, <2>2, <3>3 DEF Table
  <2>3. QED BY <2>1, <2>2
<1>8. Loop'
  BY <1>3, NoLoop
<1>9. QED BY <1>4, <1>5, <1>6, <1>7, <1>8 DEF PoolInv

-----------------------------------------------------------------------------
(* Swap logs and the swap loop.                                             *)

\* Nothing that the table is compared with changes.
LEMMA TableKept ==
    ASSUME Table, Held, UNCHANGED <<positions, ticks, tick_bitmap, kind>>
    PROVE  Table' /\ Held' /\ \A t : Active(t)' = Active(t)
<1>1. \A t : GrossAt(t)' = GrossAt(t) /\ NetAt(t)' = NetAt(t) /\ Active(t)' = Active(t)
  BY DEF GrossAt, NetAt, Active
<1>2. Held'
  BY DEF Held
<1>3. CASE kind = "basic"
  BY <1>1, <1>2, <1>3 DEF Table, BasicTable, Live
<1>4. CASE kind # "basic"
  <2>1. Used' = Used /\ \A t : MirrorEntry(t)' = MirrorEntry(t)
    BY <1>1 DEF Used, MirrorEntry
  <2>2. TicksMirror <=> ticks = [t \in Used |-> MirrorEntry(t)] /\ tick_bitmap = BitsOf(Used)
    BY Zenon DEF TicksMirror, Used, MirrorEntry
  <2>3. TicksMirror' <=> ticks' = [t \in Used' |-> MirrorEntry(t)'] /\ tick_bitmap' = BitsOf(Used')
    BY Zenon DEF TicksMirror, Used, MirrorEntry
  <2>4. TicksMirror'
    BY <1>4, <2>1, <2>2, <2>3 DEF Table
  <2>5. QED BY <1>1, <1>2, <1>4, <2>4 DEF Table
<1>5. QED BY <1>1, <1>2, <1>3, <1>4

\* A step that moves the pool to a price and a tick at it, with the liquidity
\* active there, or leaves it where it is.
LEMMA MovedKeeps ==
    ASSUME PoolInv, UNCHANGED <<positions, ticks, tick_bitmap, kind>>, Loop',
           \/ UNCHANGED <<sqrt_price, tick, liquidity>>
           \/ /\ sqrt_price' \in Lowest..Highest /\ tick' \in TicksAt(sqrt_price')
              /\ liquidity' = Active(tick')
    PROVE  PoolInv'
<1>1. Table' /\ Held' /\ \A t : Active(t)' = Active(t)
  BY TableKept DEF PoolInv
<1>2. Price' /\ tick' \in TicksAt(sqrt_price')
  BY DEF PoolInv, Price, LiquidityIsActive, Lowest, Highest
<1>3. liquidity' = Active(tick')
  BY DEF PoolInv, LiquidityIsActive
<1>4. Active(tick)' = Active(tick')
  BY DEF Active
<1>5. LiquidityIsActive'
  <2>1. liquidity' = Active(tick)'
    BY <1>3, <1>4
  <2>2. TicksAt(sqrt_price)' = TicksAt(sqrt_price')
    BY DEF TicksAt
  <2>3. QED BY <1>2, <2>1, <2>2 DEF LiquidityIsActive
<1>6. QED BY <1>1, <1>2, <1>5 DEF PoolInv

\* A Swap log moves the pool.
LEMMA SwapLogKeeps ==
    ASSUME PoolInv, kind' = kind, NEW p \in Lowest..Highest, NEW t \in TicksAt(p), SwapLog(p, t)
    PROVE  PoolInv'
<1>1. swap = NoSwap /\ UNCHANGED <<positions, ticks, tick_bitmap, swap>>
      /\ sqrt_price' = p /\ tick' = t /\ liquidity' = Active(t)
  BY DEF SwapLog
<1>2. Loop'
  BY <1>1, NoLoop
<1>3. QED BY <1>1, <1>2, MovedKeeps

\* A simulation starts from the pool.
LEMMA BeginSwapKeeps ==
    ASSUME PoolInv, kind' = kind, NEW z \in BOOLEAN, NEW amount_in \in 1..MaxAmount,
           BeginSwap(z, amount_in)
    PROVE  PoolInv'
<1>1. /\ UNCHANGED <<positions, ticks, tick_bitmap>> /\ UNCHANGED <<sqrt_price, tick, liquidity>>
      /\ swap' = [status |-> "running", zero_for_one |-> z,
                  amount_in |-> amount_in, sqrt_price |-> sqrt_price, tick |-> tick,
                  liquidity |-> liquidity, remaining |-> amount_in, calculated |-> 0]
  BY DEF BeginSwap, pool
<1>2. /\ sqrt_price \in Lowest..Highest /\ tick \in TicksAt(sqrt_price)
      /\ liquidity = Active(tick) /\ liquidity \in Nat /\ MaxAmount \in Nat
      /\ tick \in MinTick..MaxTick
  <2>1. /\ sqrt_price \in Lowest..Highest /\ tick \in TicksAt(sqrt_price)
        /\ liquidity = Active(tick) /\ Held
    BY DEF PoolInv, Price, LiquidityIsActive
  <2>2. MinTick \in Int /\ MaxTick \in Int /\ MaxAmount \in Nat
    BY PoolAssumption
  <2>3. tick \in MinTick..MaxTick
    BY <2>1, <2>2, TickOfPrice
  <2>4. QED BY <2>1, <2>2, <2>3, LiquidityTypes
<1>3. SwapOk' /\ swap'.liquidity = Active(swap'.tick)
  <2>1. swap' \in SwapStates
    BY <1>1, <1>2 DEF SwapStates
  <2>2. /\ swap'.tick = tick /\ swap'.sqrt_price = sqrt_price /\ swap'.liquidity = liquidity
        /\ swap'.calculated + swap'.remaining <= swap'.amount_in
    BY <1>1, <1>2
  <2>3. QED BY <1>2, <2>1, <2>2 DEF SwapOk, SwapStates, TicksAt, Lowest, Highest
<1>4. Loop'
  <2>1. Active(swap'.tick) = Active(swap.tick)'
    BY <1>1 DEF Active
  <2>2. QED BY <1>3, <2>1 DEF Loop
<1>5. QED BY <1>1, <1>4, MovedKeeps

\* The change of liquidity is that of an entry, if there is one.
LEMMA NetType ==
    ASSUME Held, Table, SwapOk, LoopRuns
    PROVE  Net \in Int
<1> DEFINE n == NextFound.tick
           S == IF kind = "basic" THEN Live ELSE Used
<1>1. Bitmap(S)
  BY DEF Table, TicksMirror, BasicTable, Live, Used, Bitmap
<1>2. Reached => Clamp(n) = n /\ n \in Ticks
  <2> HIDE DEF S
  <2>1. QED BY <1>1, StepIs
<1>3. ASSUME n \in Ticks PROVE EntryOrDefault(n).liquidity_net \in Int
  <2>1. CASE kind = "basic"
    BY <1>3, <2>1, BasicEntry DEF Table
  <2>2. CASE kind # "basic"
    BY <1>3, <2>2, EntryMirrors, LiquidityTypes DEF Table
  <2>3. QED BY <2>1, <2>2
<1>4. CASE Reached
  <2>1. Clamp(n) = n /\ EntryOrDefault(n).liquidity_net \in Int
    BY <1>2, <1>3, <1>4
  <2>2. Crossed(n, swap.zero_for_one) \in Int
    BY <2>1 DEF Crossed
  <2>3. QED BY <2>1, <2>2 DEF Net
<1>5. CASE ~Reached
  BY <1>5 DEF Net
<1>6. QED BY <1>4, <1>5

\* An iteration of the loop.
LEMMA SwapStepKeeps ==
    ASSUME PoolInv, kind' = kind, SwapStep
    PROVE  PoolInv'
<1> DEFINE S == IF kind = "basic" THEN Live ELSE Used
           next == [status |-> "running", zero_for_one |-> swap.zero_for_one,
                    amount_in |-> swap.amount_in, sqrt_price |-> Step.price,
                    tick |-> After, liquidity |-> swap.liquidity + Net,
                    remaining |-> swap.remaining - Step.used,
                    calculated |-> swap.calculated + Step.out]
<1>1. /\ swap # NoSwap /\ LoopRuns /\ UNCHANGED <<positions, ticks, tick_bitmap>>
      /\ UNCHANGED <<sqrt_price, tick, liquidity>>
      /\ swap' = IF swap.liquidity + Net < 0 THEN [swap EXCEPT !.status = "underflow"] ELSE next
  BY SwapStepIs DEF pool
<1>2. Held /\ Table /\ SwapOk /\ swap.status = "running"
      /\ (kind # "basic" => swap.liquidity = Active(swap.tick))
  BY <1>1 DEF PoolInv, Loop, LoopRuns
<1>3. Bitmap(S)
  BY <1>2 DEF Table, TicksMirror, BasicTable, Live, Used, Bitmap
<1>4. /\ Step.price \in Lowest..Highest /\ After \in TicksAt(Step.price)
      /\ Step.used \in Nat /\ Step.used <= swap.remaining
      /\ Step.out \in Nat /\ Step.out <= Step.used
  <2> HIDE DEF S
  <2>1. QED BY <1>1, <1>2, <1>3, StepIs
<1>5. Net \in Int
  BY <1>1, <1>2, NetType
<1>6. CASE swap.liquidity + Net < 0
  <2>1. swap' = [swap EXCEPT !.status = "underflow"]
    BY <1>1, <1>6
  <2>2. swap' \in SwapStates
    BY <1>2, <2>1 DEF SwapOk, SwapStates
  <2>3. /\ swap'.status = "underflow" /\ swap'.tick = swap.tick
        /\ swap'.sqrt_price = swap.sqrt_price /\ swap'.calculated = swap.calculated
        /\ swap'.remaining = swap.remaining /\ swap'.amount_in = swap.amount_in
    BY <1>2, <2>1 DEF SwapOk, SwapStates
  <2>4. SwapOk'
    BY <1>2, <2>2, <2>3 DEF SwapOk, SwapStates, TicksAt, Lowest, Highest
  <2>5. Loop'
    BY <2>3, <2>4 DEF Loop
  <2>6. QED BY <1>1, <2>5, MovedKeeps
<1>7. CASE ~(swap.liquidity + Net < 0)
  <2>1. swap' = next
    BY <1>1, <1>7
  <2>2. /\ swap'.tick = After /\ swap'.sqrt_price = Step.price
        /\ swap'.liquidity = swap.liquidity + Net /\ swap'.amount_in = swap.amount_in
        /\ swap'.remaining = swap.remaining - Step.used
        /\ swap'.calculated = swap.calculated + Step.out
    BY <2>1
  <2>3. /\ swap.zero_for_one \in BOOLEAN /\ swap.liquidity \in Nat
        /\ swap.remaining \in Nat /\ swap.remaining <= MaxAmount /\ swap.calculated \in Nat
        /\ swap.amount_in \in 1..MaxAmount /\ MaxAmount \in Nat
        /\ swap.calculated + swap.remaining <= swap.amount_in
    BY <1>2, SwapFields, PoolAssumption
  <2>4. After \in MinTick..MaxTick
    BY <1>4, TickOfPrice, PoolAssumption
  <2>5. /\ swap.liquidity + Net \in Nat
        /\ swap.remaining - Step.used \in 0..MaxAmount
        /\ swap.calculated + Step.out \in 0..MaxAmount
        /\ (swap.calculated + Step.out) + (swap.remaining - Step.used) <= swap.amount_in
    BY <1>4, <1>5, <1>7, <2>3
  <2>6. swap' \in SwapStates
    BY <1>4, <2>1, <2>3, <2>4, <2>5 DEF SwapStates
  <2>7. SwapOk'
    BY <1>4, <2>2, <2>5, <2>6 DEF SwapOk, SwapStates, TicksAt, Lowest, Highest
  <2>8. ASSUME kind # "basic" PROVE swap'.liquidity = Active(swap'.tick)
    <3>1. Bitmap(Used) /\ Known(Used, IF swap.zero_for_one THEN Step.price ELSE swap.sqrt_price,
                                      IF swap.zero_for_one THEN swap.sqrt_price ELSE Step.price)
      BY <1>2, <1>3, <2>8, MirrorKnown DEF Table
    <3>2. QED BY <1>1, <1>2, <2>2, <2>8, <3>1, StepActive
  <2>9. Active(swap'.tick) = Active(swap.tick)'
    BY <1>1 DEF Active
  <2>10. Loop'
    BY <2>7, <2>8, <2>9 DEF Loop
  <2>11. QED BY <1>1, <2>10, MovedKeeps
<1>8. QED BY <1>6, <1>7

\* The end of a simulation that keeps nothing.
LEMMA ReturnKeeps ==
    ASSUME PoolInv, kind' = kind, swap' = NoSwap, UNCHANGED <<positions, pool>>
    PROVE  PoolInv'
<1>1. Loop'
  BY DEF Loop, NoSwap
<1>2. QED BY <1>1, MovedKeeps DEF pool

\* simulate_swap_mut of UniswapV3Pool moves the pool to where the loop ended.
LEMMA KeepSwapKeeps ==
    ASSUME PoolInv, kind = "uniswap", kind' = kind, KeepSwap
    PROVE  PoolInv'
<1>1. /\ swap # NoSwap /\ swap.status = "running" /\ swap' = NoSwap
      /\ sqrt_price' = swap.sqrt_price /\ tick' = swap.tick /\ liquidity' = swap.liquidity
      /\ UNCHANGED <<positions, ticks, tick_bitmap>>
  BY DEF KeepSwap, SwapDone
<1>2. SwapOk /\ swap.liquidity = Active(swap.tick)
  BY <1>1 DEF PoolInv, Loop
<1>3. swap.sqrt_price \in Lowest..Highest /\ swap.tick \in TicksAt(swap.sqrt_price)
  BY <1>2, SwapFields
<1>4. Loop'
  BY <1>1 DEF Loop, NoSwap
<1>5. liquidity' = Active(tick')
  BY <1>1, <1>2
<1>6. QED BY <1>1, <1>3, <1>4, <1>5, MovedKeeps

-----------------------------------------------------------------------------
(* The theorems.                                                            *)

\* Where nothing is held nothing starts, ends or is active.
LEMMA SumZeros ==
    ASSUME positions = [r \in Ranges |-> 0]
    PROVE  Held /\ \A t : GrossAt(t) = 0 /\ Active(t) = 0
<1>1. Held
  BY PoolAssumption DEF Held
<1>2. \A S \in SUBSET Ranges : SumOf(positions, S) = 0
  BY <1>1, RangesFinite, HeldNat, SumZero, SumIs
<1>3. ASSUME NEW t PROVE GrossAt(t) = 0 /\ Active(t) = 0
  <2>1. /\ {r \in Ranges : t \in {r[1], r[2]}} \in SUBSET Ranges
        /\ {r \in Ranges : r[1] <= t /\ t < r[2]} \in SUBSET Ranges
    OBVIOUS
  <2>2. QED BY <1>2, <2>1 DEF GrossAt, Active
<1>4. QED BY <1>1, <1>3

\* The pools as they are read satisfy the invariant.
LEMMA InitPool == ASSUME PoolsInit PROVE PoolInv
<1>1. /\ sqrt_price \in Lowest..Highest /\ tick \in TicksAt(sqrt_price)
      /\ ticks = <<>> /\ tick_bitmap = {} /\ swap = NoSwap
  BY DEF PoolsInit, Init, AgniInit
<1>2. Price /\ Loop
  BY <1>1 DEF Price, Loop
<1>3. DOMAIN ticks = {}
  BY <1>1
<1>4. CASE kind = "basic"
  <2>1. positions \in Genesis /\ liquidity = Active(tick)
    BY <1>4 DEF PoolsInit, AgniInit
  <2>2. Held
    BY <2>1, AgniAssumption DEF Held
  <2>3. BasicTable
    <3>1. Live = {}
      BY <1>3 DEF Live
    <3>2. BitsOf(Live) = {}
      BY <3>1 DEF BitsOf
    <3>3. QED BY <1>1, <1>3, <3>2 DEF BasicTable
  <2>4. QED BY <1>1, <1>2, <1>4, <2>1, <2>2, <2>3 DEF PoolInv, LiquidityIsActive, Table
<1>5. CASE kind # "basic"
  <2>1. positions = [r \in Ranges |-> 0] /\ (liquidity = 0 \/ liquidity = Active(tick))
    BY <1>5 DEF PoolsInit, Init, AgniInit
  <2>2. Held /\ \A t : GrossAt(t) = 0 /\ Active(t) = 0
    BY <2>1, SumZeros
  <2>3. TicksMirror
    <3>1. Used = {} /\ BitsOf(Used) = {}
      BY <2>2 DEF Used, BitsOf
    <3>2. ticks = [t \in Used |-> MirrorEntry(t)]
      BY <1>1, <3>1
    <3>3. QED BY <1>1, <3>1, <3>2 DEF TicksMirror, Used, MirrorEntry
  <2>4. liquidity = Active(tick)
    BY <2>1, <2>2
  <2>5. QED BY <1>1, <1>2, <1>5, <2>2, <2>3, <2>4 DEF PoolInv, LiquidityIsActive, Table
<1>6. QED BY <1>4, <1>5

\* Every step of every pool keeps it.
LEMMA NextPool == ASSUME PoolInv, [PoolsNext]_agniVars PROVE PoolInv'
<1>0. MaxLiquidity \in Nat
  BY PoolAssumption
<1>1. CASE kind = "uniswap" /\ Next /\ UNCHANGED <<kind, logs>>
  <2>1. ASSUME NEW r \in Ranges, NEW amount \in 1..MaxLiquidity, Mint(r, amount) PROVE PoolInv'
    BY <1>0, <1>1, <2>1, MintKeeps
  <2>2. ASSUME NEW r \in Ranges, NEW amount \in 0..MaxLiquidity, Burn(r, amount) PROVE PoolInv'
    BY <1>0, <1>1, <2>2, BurnKeeps
  <2>3. ASSUME NEW p \in Lowest..Highest, NEW t \in TicksAt(p), SwapLog(p, t) PROVE PoolInv'
    BY <1>1, <2>3, SwapLogKeeps
  <2>4. ASSUME NEW z \in BOOLEAN, NEW a \in 1..MaxAmount, BeginSwap(z, a) PROVE PoolInv'
    BY <1>1, <2>4, BeginSwapKeeps
  <2>5. CASE SwapStep
    BY <1>1, <2>5, SwapStepKeeps
  <2>6. CASE ReturnQuote
    BY <1>1, <2>6, ReturnKeeps DEF ReturnQuote
  <2>7. CASE KeepSwap
    BY <1>1, <2>7, KeepSwapKeeps
  <2>8. QED BY <1>1, <2>1, <2>2, <2>3, <2>4, <2>5, <2>6, <2>7 DEF Next
<1>2. CASE kind # "uniswap" /\ AgniNext
  <2>1. ASSUME NEW r \in Ranges, NEW amount \in 1..MaxLiquidity, AgniMint(r, amount) PROVE PoolInv'
    BY <1>0, <1>2, <2>1, AppliedKeeps DEF AgniMint
  <2>2. ASSUME NEW r \in Ranges, NEW amount \in 0..MaxLiquidity, AgniBurn(r, amount) PROVE PoolInv'
    <3>1. -amount \in Int
      BY <1>0
    <3>2. QED BY <1>2, <2>2, <3>1, AppliedKeeps DEF AgniBurn
  <2>3. ASSUME NEW p \in Lowest..Highest, NEW t \in TicksAt(p), AgniSwapLog(p, t) PROVE PoolInv'
    BY <2>3, SwapLogKeeps DEF AgniSwapLog
  <2>4. ASSUME NEW z \in BOOLEAN, NEW a \in 1..MaxAmount, AgniBeginSwap(z, a) PROVE PoolInv'
    BY <2>4, BeginSwapKeeps DEF AgniBeginSwap
  <2>5. CASE AgniSwapStep
    BY <2>5, SwapStepKeeps DEF AgniSwapStep
  <2>6. CASE AgniReturnQuote
    BY <2>6, ReturnKeeps DEF AgniReturnQuote, ReturnQuote
  <2>7. CASE AgniKeepSwap
    BY <2>7, ReturnKeeps DEF AgniKeepSwap
  <2>8. QED BY <1>2, <2>1, <2>2, <2>3, <2>4, <2>5, <2>6, <2>7 DEF AgniNext
<1>3. CASE UNCHANGED agniVars
  <2>1. UNCHANGED <<positions, ticks, tick_bitmap, kind, sqrt_price, tick, liquidity, swap>>
    BY <1>3 DEF agniVars, vars, pool
  <2>2. Loop'
    <3>1. Active(swap.tick)' = Active(swap.tick)
      BY <2>1 DEF Active
    <3>2. SwapOk' <=> SwapOk
      BY <2>1 DEF SwapOk, SwapStates, TicksAt, Lowest, Highest
    <3>3. QED BY <2>1, <3>1, <3>2 DEF PoolInv, Loop
  <2>3. QED BY <2>1, <2>2, MovedKeeps
<1>4. QED BY <1>1, <1>2, <1>3 DEF PoolsNext

\* So it always holds.
LEMMA PoolInvariant == PoolsSpec => []PoolInv
<1>1. PoolsInit => PoolInv
  BY InitPool
<1>2. PoolInv /\ [PoolsNext]_agniVars => PoolInv'
  BY NextPool
<1>3. QED BY <1>1, <1>2, PTL DEF PoolsSpec

\* The table of a pool whose ticks were read is the contract's after any run of
\* Mint and Burn logs, and that of a basic copy never holds more than it has
\* (update_tick and flip_tick of both pools).
THEOREM TicksTrackedAlways == PoolsSpec => []TicksTracked
<1>1. PoolInv => TicksTracked
  BY DEF PoolInv, Table, BasicTable, Live, TicksTracked
<1>2. QED BY <1>1, PoolInvariant, PTL

\* A pool's liquidity is what the contract has active at its tick, whatever logs
\* and kept simulations moved it (modify_position, simulate_swap_mut).
THEOREM LiquidityAlwaysActive == PoolsSpec => []LiquidityIsActive
<1>1. PoolInv => LiquidityIsActive
  BY DEF PoolInv
<1>2. QED BY <1>1, PoolInvariant, PTL

\* An iteration after which the loop goes on arrived at its next tick.
LEMMA StepAdvances ==
    ASSUME PoolInv, SwapStep, LoopRuns'
    PROVE  IF swap.zero_for_one THEN swap'.tick < swap.tick ELSE swap'.tick > swap.tick
<1> DEFINE S == IF kind = "basic" THEN Live ELSE Used
<1>1. /\ swap # NoSwap /\ LoopRuns
      /\ swap' = IF swap.liquidity + Net < 0
                 THEN [swap EXCEPT !.status = "underflow"]
                 ELSE [status |-> "running", zero_for_one |-> swap.zero_for_one,
                       amount_in |-> swap.amount_in, sqrt_price |-> Step.price,
                       tick |-> After, liquidity |-> swap.liquidity + Net,
                       remaining |-> swap.remaining - Step.used,
                       calculated |-> swap.calculated + Step.out]
  BY SwapStepIs
<1>2. SwapOk /\ Table
  BY <1>1 DEF PoolInv, Loop
<1>3. Bitmap(S)
  BY <1>2 DEF Table, TicksMirror, BasicTable, Live, Used, Bitmap
<1>4. swap'.status = "running" /\ swap'.remaining # 0 /\ swap'.sqrt_price # Limit(swap'.zero_for_one)
  BY DEF LoopRuns, Limit, Lowest, Highest
<1>5. ~(swap.liquidity + Net < 0)
  <2>1. ASSUME swap' = [swap EXCEPT !.status = "underflow"] PROVE FALSE
    <3>1. swap'.status = "underflow"
      BY <1>2, <2>1 DEF SwapOk, SwapStates
    <3>2. QED BY <1>4, <3>1
  <2>2. QED BY <1>1, <2>1
<1>6. /\ swap'.tick = After /\ swap'.sqrt_price = Step.price
      /\ swap'.zero_for_one = swap.zero_for_one /\ swap'.remaining = swap.remaining - Step.used
  BY <1>1, <1>5
<1>7. swap.zero_for_one \in BOOLEAN /\ swap.tick \in Int /\ swap.remaining \in Nat
  BY <1>2, SwapFields
<1>8. /\ NextFound.tick \in Int
      /\ Step.used \in Nat
      /\ ~Reached => Step.price = Limit(swap.zero_for_one) \/ Step.used = swap.remaining
      /\ swap.zero_for_one => NextFound.tick <= swap.tick /\ (Reached => After = NextFound.tick - 1)
      /\ ~swap.zero_for_one => swap.tick < NextFound.tick /\ (Reached => After = NextFound.tick)
  <2> HIDE DEF S
  <2>1. QED BY <1>1, <1>2, <1>3, StepIs
<1>9. Reached
  BY <1>4, <1>6, <1>7, <1>8
<1>10. QED BY <1>6, <1>7, <1>8, <1>9

\* The swap loop cannot run for ever: every iteration that is not its last moves
\* the tick strictly ahead (simulate_swap).
THEOREM SwapAlwaysAdvances == PoolsSpec => SwapAdvances
<1> DEFINE Advances == swap # NoSwap /\ swap' # NoSwap /\ LoopRuns' =>
                           IF swap.zero_for_one THEN swap'.tick < swap.tick
                                                ELSE swap'.tick > swap.tick
<1>1. ASSUME PoolInv, [PoolsNext]_agniVars PROVE [Advances]_swap
  <2> SUFFICES ASSUME swap # NoSwap, swap' # NoSwap, LoopRuns', swap' # swap
               PROVE  IF swap.zero_for_one THEN swap'.tick < swap.tick ELSE swap'.tick > swap.tick
    OBVIOUS
  <2>1. SwapStep
    BY <1>1 DEF PoolsNext, Next, AgniNext, Mint, Burn, SwapLog, BeginSwap, ReturnQuote, KeepSwap,
                AgniMint, AgniBurn, Applied, AgniSwapLog, AgniBeginSwap, AgniSwapStep,
                AgniReturnQuote, AgniKeepSwap, agniVars, vars
  <2>2. QED BY <1>1, <2>1, StepAdvances
<1>2. QED BY <1>1, PoolInvariant, PTL DEF PoolsSpec, SwapAdvances

-----------------------------------------------------------------------------
(* The walk that quotes are compared with.                                  *)

N == Highest - Lowest
WalkValues == [price : Lowest..Highest, remaining : Nat, out : Nat]

\* The price j units ahead, and the unit of price that is ahead of a price.
AheadOf(down, p, j) == IF down THEN p - j ELSE p + j
UnitAhead(down, p) == IF down THEN p - 1 ELSE p

Forward(down, v) ==
    LET cost == ActiveBetween(UnitAhead(down, v.price))
    IN  IF v.remaining = 0 \/ v.price = Limit(down) THEN v
        ELSE IF cost <= v.remaining
        THEN [price |-> AheadOf(down, v.price, 1), remaining |-> v.remaining - cost, out |-> v.out + cost]
        ELSE [v EXCEPT !.remaining = 0]

Walks(w, down, p, amount) ==
    /\ w \in [0..N -> WalkValues]
    /\ w[0] = [price |-> p, remaining |-> amount, out |-> 0]
    /\ \A n \in 1..N : w[n] = Forward(down, w[n - 1])

\* A walk has at most so many units to go.
LEMMA NType == N \in Nat
BY PricesAre DEF N

\* A unit ahead stays within the limits.
LEMMA ForwardType ==
    ASSUME Held, NEW down \in BOOLEAN, NEW v \in WalkValues
    PROVE  Forward(down, v) \in WalkValues
<1> DEFINE cost == ActiveBetween(UnitAhead(down, v.price))
<1>1. cost \in Nat
  BY LiquidityTypes DEF ActiveBetween
<1>2. /\ Lowest \in Int /\ Highest \in Int
      /\ v.price \in Lowest..Highest /\ v.remaining \in Nat /\ v.out \in Nat
  BY PricesAre DEF WalkValues
<1>3. Forward(down, v) = IF v.remaining = 0 \/ v.price = Limit(down) THEN v
                         ELSE IF cost <= v.remaining
                         THEN [price |-> AheadOf(down, v.price, 1),
                               remaining |-> v.remaining - cost, out |-> v.out + cost]
                         ELSE [v EXCEPT !.remaining = 0]
  BY Zenon DEF Forward
<1> HIDE DEF cost
<1>4. v.price # Limit(down) => AheadOf(down, v.price, 1) \in Lowest..Highest
  BY <1>2 DEF Limit, AheadOf
<1>5. QED BY <1>1, <1>2, <1>3, <1>4 DEF WalkValues

\* Walk, whose function is computed unit by unit.
LEMMA WalkIs ==
    ASSUME Held, NEW down \in BOOLEAN, NEW p \in Lowest..Highest, NEW amount \in Nat
    PROVE  \E w : Walks(w, down, p, amount) /\ Walk(down, p, amount) = w[N]
<1> DEFINE first == [price |-> p, remaining |-> amount, out |-> 0]
           Is(f) == f = [n \in 0..N |-> IF n = 0 THEN first ELSE Forward(down, f[n - 1])]
           Go == [x \in WalkValues \X (1..N) |-> Forward(down, x[1])]
           g == CHOOSE f : Is(f)
<1>1. Go \in [WalkValues \X (1..N) -> WalkValues]
  BY ForwardType
<1>2. N \in Nat /\ first \in WalkValues
  BY NType DEF WalkValues
<1>3. PICK f : Computes(f, WalkValues, first, N, Go)
  <2> HIDE DEF Go, Is, first
  <2>1. QED BY <1>1, <1>2, FoldExists
<1>4. /\ f \in [0..N -> WalkValues]
      /\ f[0] = first
      /\ \A n \in 1..N : f[n] = Forward(down, f[n - 1])
  <2>1. f \in [0..N -> WalkValues] /\ f[0] = first /\ \A n \in 1..N : f[n] = Go[<<f[n - 1], n>>]
    <3> HIDE DEF Go, first
    <3>1. QED BY <1>3 DEF Computes
  <2>2. \A n \in 1..N : f[n - 1] \in WalkValues
    <3> HIDE DEF Go, first
    <3>1. QED BY <1>2, <2>1
  <2> HIDE DEF first
  <2>3. QED BY <2>1, <2>2
<1>5. Is(f)
  <2>1. \A n \in 0..N : n = 0 \/ n \in 1..N
    BY <1>2
  <2> HIDE DEF first
  <2>2. QED BY <1>4, <2>1
<1>6. Is(g)
  BY <1>5, Zenon
<1>7. Walk(down, p, amount) = g[N]
  BY Zenon DEF Walk, Forward, AheadOf, UnitAhead, Limit, N
<1>8. Walks(g, down, p, amount)
  <2>1. DOMAIN g = 0..N
    BY <1>6
  <2>2. g[0] = first /\ \A n \in 1..N : g[n] = Forward(down, g[n - 1])
    <3> HIDE DEF first, g
    <3>1. 0 \in 0..N /\ \A n \in 1..N : n \in 0..N /\ n # 0
      BY <1>2
    <3>2. g[0] = first
      BY <1>6, <3>1
    <3>3. ASSUME NEW n \in 1..N PROVE g[n] = Forward(down, g[n - 1])
      BY <1>6, <3>1, Zenon
    <3>4. QED BY <3>2, <3>3
  <2>3. Computes(g, WalkValues, first, N, Go)
    <3>1. ASSUME NEW n \in 1..N, g[n - 1] \in WalkValues PROVE g[n] = Go[<<g[n - 1], n>>]
      <4> HIDE DEF g, first
      <4>1. QED BY <2>2, <3>1
    <3>2. g = [n \in 0..N |-> g[n]]
      <4> HIDE DEF first
      <4>1. QED BY <1>6
    <3> HIDE DEF g, first, Go, Is
    <3>3. QED BY <1>1, <1>2, <2>2, <3>1, <3>2, FoldValues
  <2> HIDE DEF g, first
  <2>4. g \in [0..N -> WalkValues]
    BY <2>3 DEF Computes
  <2>5. QED BY <2>2, <2>4 DEF Walks, first
<1>9. QED BY <1>7, <1>8

\* A walk goes one way, and where it cannot go on it stays.
LEMMA WalkEnds ==
    ASSUME NEW w, NEW down \in BOOLEAN, NEW p, NEW amount, Walks(w, down, p, amount),
           NEW k \in 0..N
    PROVE  /\ w[N] \in WalkValues /\ w[k] \in WalkValues
           /\ IF down THEN w[N].price <= w[k].price ELSE w[k].price <= w[N].price
           /\ w[k].remaining = 0 \/ w[k].price = Limit(down) => w[N] = w[k]
<1>1. N \in Nat /\ k \in Int /\ Lowest \in Int /\ Highest \in Int /\ \A n \in 0..N : w[n] \in WalkValues
  BY NType, PricesAre DEF Walks
<1>2. \A n \in 0..N : w[n].price \in Lowest..Highest
  BY <1>1 DEF WalkValues
<1>3. ASSUME NEW n \in 0..N - 1
      PROVE  /\ IF down THEN w[n + 1].price <= w[n].price ELSE w[n].price <= w[n + 1].price
             /\ w[n].remaining = 0 \/ w[n].price = Limit(down) => w[n + 1] = w[n]
  <2>1. n + 1 \in 1..N /\ (n + 1) - 1 = n /\ n \in 0..N /\ n + 1 \in 0..N
    BY <1>1
  <2>2. w[n + 1] = Forward(down, w[n])
    BY <2>1 DEF Walks
  <2> DEFINE v == w[n]
             cost == ActiveBetween(UnitAhead(down, v.price))
  <2>3. Forward(down, v) = IF v.remaining = 0 \/ v.price = Limit(down) THEN v
                           ELSE IF cost <= v.remaining
                           THEN [price |-> AheadOf(down, v.price, 1),
                                 remaining |-> v.remaining - cost, out |-> v.out + cost]
                           ELSE [v EXCEPT !.remaining = 0]
    BY Zenon DEF Forward
  <2>4. v \in WalkValues /\ v.price \in Int
    BY <1>1, <1>2, <2>1
  <2>5. \/ w[n + 1] = v
        \/ w[n + 1].price = AheadOf(down, v.price, 1)
        \/ w[n + 1].price = v.price
    <3> HIDE DEF cost, v
    <3>1. [v EXCEPT !.remaining = 0].price = v.price
      BY <2>4 DEF WalkValues
    <3>2. QED BY <2>2, <2>3, <3>1 DEF v
  <2>6. v.remaining = 0 \/ v.price = Limit(down) => w[n + 1] = v
    <3> HIDE DEF cost
    <3>1. QED BY <2>2, <2>3
  <2>7. IF down THEN w[n + 1].price <= v.price ELSE v.price <= w[n + 1].price
    <3> HIDE DEF v
    <3>1. QED BY <2>4, <2>5 DEF AheadOf
  <2>8. QED BY <2>6, <2>7
<1> DEFINE S == {n \in 0..N : n >= k =>
                    /\ IF down THEN w[n].price <= w[k].price ELSE w[k].price <= w[n].price
                    /\ w[k].remaining = 0 \/ w[k].price = Limit(down) => w[n] = w[k]}
<1>4. k \in S
  BY <1>1, <1>2
<1>5. 0 \in S
  <2>1. CASE k = 0
    BY <1>4, <2>1
  <2>2. CASE k # 0
    <3>1. 0 \in 0..N /\ ~(0 >= k)
      BY <1>1, <2>2
    <3>2. QED BY <3>1
  <2>3. QED BY <2>1, <2>2
<1>6. ASSUME NEW n \in 0..N - 1, n \in S PROVE n + 1 \in S
  <2>1. n \in Int /\ n + 1 \in 0..N /\ n \in 0..N
    BY <1>1
  <2>2. CASE n >= k
    <3>1. /\ IF down THEN w[n].price <= w[k].price ELSE w[k].price <= w[n].price
          /\ w[k].remaining = 0 \/ w[k].price = Limit(down) => w[n] = w[k]
      BY <1>6, <2>2
    <3>2. w[n].price \in Int /\ w[k].price \in Int /\ w[n + 1].price \in Int
      BY <1>1, <1>2, <2>1
    <3>3. IF down THEN w[n + 1].price <= w[k].price ELSE w[k].price <= w[n + 1].price
      BY <1>3, <3>1, <3>2
    <3>4. w[k].remaining = 0 \/ w[k].price = Limit(down) => w[n + 1] = w[k]
      BY <1>3, <3>1
    <3>5. QED BY <2>1, <3>3, <3>4
  <2>3. CASE ~(n >= k) /\ n + 1 = k
    BY <1>4, <2>3
  <2>4. CASE ~(n >= k) /\ n + 1 # k
    <3>1. ~(n + 1 >= k)
      BY <1>1, <2>1, <2>4
    <3>2. QED BY <2>1, <3>1
  <2>5. QED BY <2>2, <2>3, <2>4
<1>7. N \in S
  <2> HIDE DEF S
  <2>1. \A n \in 0..N : n \in S
    BY <1>1, <1>5, <1>6, UpTo
  <2>2. QED BY <1>1, <2>1
<1>8. N >= k
  BY <1>1
<1>9. QED BY <1>1, <1>7, <1>8

\* Against liquidity l all along, a walk takes m units as one step does.
Level(w, down, k, m, l) ==
    \A j \in 0..m - 1 :
        w[k + j].price = AheadOf(down, w[k].price, j) =>
            ActiveBetween(UnitAhead(down, AheadOf(down, w[k].price, j))) = l

\* Such a walk is as far after m units.
LEMMA WalkAlong ==
    ASSUME NEW w, NEW down \in BOOLEAN, NEW p, NEW amount, Walks(w, down, p, amount),
           NEW k \in 0..N, NEW m \in Nat, NEW l \in Nat, k + m <= N,
           w[k].remaining > 0, m * l <= w[k].remaining,
           AheadOf(down, w[k].price, m) \in Lowest..Highest,
           Level(w, down, k, m, l)
    PROVE  w[k + m] = [price |-> AheadOf(down, w[k].price, m),
                       remaining |-> w[k].remaining - m * l,
                       out |-> w[k].out + m * l]
<1> DEFINE v == w[k]
           at(j) == [price |-> AheadOf(down, v.price, j),
                     remaining |-> v.remaining - j * l,
                     out |-> v.out + j * l]
           S == {j \in 0..m : w[k + j] = at(j)}
<1>1. /\ N \in Nat /\ Lowest \in Int /\ Highest \in Int /\ k \in Int
      /\ v \in WalkValues /\ v.price \in Lowest..Highest /\ v.price \in Int
      /\ v.remaining \in Nat /\ v.out \in Nat
  BY NType, PricesAre DEF Walks, WalkValues
<1>2. 0 \in S
  <2>1. at(0) = v
    <3>1. AheadOf(down, v.price, 0) = v.price
      BY <1>1 DEF AheadOf
    <3>2. v.remaining - 0 * l = v.remaining /\ v.out + 0 * l = v.out
      BY <1>1
    <3> HIDE DEF v
    <3>3. v = [price |-> v.price, remaining |-> v.remaining, out |-> v.out]
      BY <1>1 DEF WalkValues
    <3>4. QED BY <3>1, <3>2, <3>3
  <2>2. k + 0 = k /\ 0 \in 0..m
    BY <1>1
  <2>3. QED BY <2>1, <2>2
<1>3. ASSUME NEW j \in 0..m - 1, j \in S PROVE j + 1 \in S
  <2>1. /\ j \in Nat /\ j < m /\ j + 1 \in 0..m
        /\ k + (j + 1) \in 1..N /\ (k + (j + 1)) - 1 = k + j
    BY <1>1
  <2>2. w[k + j] = at(j)
    BY <1>3
  <2>3. /\ w[k + j].price = AheadOf(down, v.price, j)
        /\ w[k + j].remaining = v.remaining - j * l
        /\ w[k + j].out = v.out + j * l
    BY <2>2
  <2>4. w[k + (j + 1)] = Forward(down, w[k + j])
    BY <2>1 DEF Walks
  <2>5. ActiveBetween(UnitAhead(down, w[k + j].price)) = l
    BY <2>1, <2>3 DEF Level
  <2>6. /\ j * l \in Nat /\ (j + 1) * l = j * l + l /\ (j + 1) * l <= v.remaining
        /\ v.remaining - j * l # 0
    <3>1. j * l \in Nat /\ (j + 1) * l = j * l + l
      <4>1. j \in Nat /\ l \in Nat
        BY <2>1
      <4> HIDE DEF v, at, S
      <4>2. QED BY <4>1, SMTT(30)
    <3>2. (j + 1) * l <= m * l
      <4>1. PICK d \in Nat : m = (j + 1) + d
        <5>1. m - (j + 1) \in Nat /\ m = (j + 1) + (m - (j + 1))
          BY <2>1
        <5>2. QED BY <5>1
      <4>2. m * l = (j + 1) * l + d * l /\ d * l \in Nat /\ (j + 1) * l \in Nat
        BY <2>1, <4>1
      <4>3. QED BY <4>2
    <3>3. m * l \in Nat
      OBVIOUS
    <3>4. (j + 1) * l <= v.remaining
      BY <1>1, <3>1, <3>2, <3>3
    <3>5. l = 0 => j * l = 0
      BY <2>1
    <3>6. v.remaining - j * l # 0
      <4> DEFINE a == j * l
      <4>1. a \in Nat /\ a + l <= v.remaining /\ (l = 0 => a = 0) /\ v.remaining > 0
        BY <3>1, <3>4, <3>5
      <4> HIDE DEF a, v
      <4>2. v.remaining - a # 0
        BY <1>1, <4>1
      <4>3. QED BY <4>2 DEF a
    <3>7. QED BY <3>1, <3>4, <3>6
  <2>7. /\ AheadOf(down, v.price, j) # Limit(down)
        /\ AheadOf(down, AheadOf(down, v.price, j), 1) = AheadOf(down, v.price, j + 1)
    <3> HIDE DEF v
    <3>1. QED BY <1>1, <2>1 DEF AheadOf, Limit, v
  <2> DEFINE x == w[k + j]
             cost == ActiveBetween(UnitAhead(down, x.price))
  <2>8. Forward(down, x) = IF x.remaining = 0 \/ x.price = Limit(down) THEN x
                           ELSE IF cost <= x.remaining
                           THEN [price |-> AheadOf(down, x.price, 1),
                                 remaining |-> x.remaining - cost, out |-> x.out + cost]
                           ELSE [x EXCEPT !.remaining = 0]
    BY Zenon DEF Forward
  <2>9. cost = l /\ x.remaining # 0 /\ x.price # Limit(down) /\ cost <= x.remaining
    <3> HIDE DEF v
    <3>1. QED BY <1>1, <2>3, <2>5, <2>6, <2>7
  <2>10. Forward(down, x) = [price |-> AheadOf(down, x.price, 1),
                             remaining |-> x.remaining - l, out |-> x.out + l]
    <3> HIDE DEF x, cost
    <3>1. QED BY <2>8, <2>9
  <2>11. /\ AheadOf(down, x.price, 1) = AheadOf(down, v.price, j + 1)
         /\ x.remaining - l = v.remaining - (j + 1) * l
         /\ x.out + l = v.out + (j + 1) * l
    <3>1. AheadOf(down, x.price, 1) = AheadOf(down, v.price, j + 1)
      BY <2>3, <2>7
    <3>2. x.remaining = v.remaining - j * l /\ x.out = v.out + j * l
      BY <2>3
    <3> HIDE DEF x, v
    <3>3. QED BY <1>1, <2>6, <3>1, <3>2
  <2>12. w[k + (j + 1)] = at(j + 1)
    BY <2>4, <2>10, <2>11
  <2>13. QED BY <2>1, <2>12
<1>4. m \in S
  <2> HIDE DEF S
  <2>1. \A j \in 0..m : j \in S
    BY <1>2, <1>3, UpTo
  <2>2. QED BY <2>1
<1>5. QED BY <1>4

\* Where the next unit costs more than is left the walk uses that up.
LEMMA WalkStops ==
    ASSUME NEW w, NEW down \in BOOLEAN, NEW p, NEW amount, Walks(w, down, p, amount),
           NEW k \in 0..N - 1, w[k].remaining > 0, w[k].price # Limit(down),
           w[k].remaining < ActiveBetween(UnitAhead(down, w[k].price)), Held
    PROVE  w[k + 1] = [price |-> w[k].price, remaining |-> 0, out |-> w[k].out]
<1> DEFINE v == w[k]
           cost == ActiveBetween(UnitAhead(down, v.price))
<1>1. k + 1 \in 1..N /\ (k + 1) - 1 = k /\ k \in 0..N
  BY NType
<1>2. v \in WalkValues /\ v.remaining \in Nat
  BY <1>1 DEF Walks, WalkValues
<1>3. w[k + 1] = Forward(down, v)
  BY <1>1 DEF Walks
<1>4. Forward(down, v) = IF v.remaining = 0 \/ v.price = Limit(down) THEN v
                         ELSE IF cost <= v.remaining
                         THEN [price |-> AheadOf(down, v.price, 1),
                               remaining |-> v.remaining - cost, out |-> v.out + cost]
                         ELSE [v EXCEPT !.remaining = 0]
  BY Zenon DEF Forward
<1>5. cost \in Nat /\ v.remaining # 0 /\ v.price # Limit(down) /\ ~(cost <= v.remaining)
  <2>1. cost \in Nat
    BY LiquidityTypes DEF ActiveBetween
  <2>2. v.remaining < cost /\ v.remaining > 0 /\ v.price # Limit(down)
    OBVIOUS
  <2> HIDE DEF v, cost
  <2>3. QED BY <1>2, <2>1, <2>2
<1> HIDE DEF cost, v
<1>6. w[k + 1] = [v EXCEPT !.remaining = 0]
  BY <1>3, <1>4, <1>5
<1>7. [v EXCEPT !.remaining = 0] = [price |-> v.price, remaining |-> 0, out |-> v.out]
  BY <1>2 DEF WalkValues
<1>8. QED BY <1>6, <1>7 DEF v

-----------------------------------------------------------------------------
(* What the copy knows of the ticks.                                        *)

\* TicksKnown says that the ticks with a set bit are those of the contract.
LEMMA KnownIs ==
    ASSUME NEW S, Bitmap(S), S \subseteq DOMAIN ticks, NEW a \in Int, NEW b \in Int, a <= b
    PROVE  TicksKnown(a, b) \/ TicksKnown(b, a) => Known(S, a, b)
<1>1. Min({a, b}) = a /\ Max({a, b}) = b /\ Min({b, a}) = a /\ Max({b, a}) = b
  BY MinTwo, MaxTwo
<1>2. SUFFICES ASSUME TicksKnown(a, b) \/ TicksKnown(b, a), NEW u \in Ticks, a <= 2 * u, 2 * u <= b
               PROVE  IF GrossAt(u) = 0 THEN u \notin S
                      ELSE u \in S /\ EntryOrDefault(u).liquidity_net = NetAt(u)
  BY DEF Known
<1>3. u \div tick_spacing \in tick_bitmap <=> u \in S
  BY BitSet DEF Bitmap
<1>4. 2 * u \in a..b
  BY <1>2, TicksAre
<1>5. IF GrossAt(u) = 0
      THEN u \div tick_spacing \notin tick_bitmap
      ELSE u \div tick_spacing \in tick_bitmap /\ ticks[u].liquidity_net = NetAt(u)
  BY <1>1, <1>2, <1>4, Zenon DEF TicksKnown
<1>6. u \in S => EntryOrDefault(u) = ticks[u]
  BY DEF EntryOrDefault
<1>7. QED BY <1>3, <1>5, <1>6

\* Where no bit is set and the ticks are known, every unit has the liquidity of
\* the tick that the loop is at.
LEMMA LevelDown ==
    ASSUME Held, NEW S, NEW p \in Lowest..Highest, NEW t \in TicksAt(p), NEW n \in Int, NEW x \in Int,
           x < p, 2 * n <= x, Known(S, x + 1, p), \A u \in S : ~(n < u /\ u <= t)
    PROVE  Active(x \div 2) = Active(t)
<1>1. t \in Int /\ 2 * t <= p /\ p <= 2 * t + 2 /\ p \in Int
  BY TickOfPrice, PricesAre
<1> DEFINE a == x \div 2
<1>2. a \in Int /\ 2 * a <= x /\ x <= 2 * a + 1
  OBVIOUS
<1> HIDE DEF a
<1>3. a <= t
  BY <1>1, <1>2
<1>4. ASSUME NEW u \in Ticks, a < u, u <= t PROVE GrossAt(u) = 0
  <2>1. u \in Int /\ x + 1 <= 2 * u /\ 2 * u <= p /\ n < u
    BY <1>1, <1>2, <1>4, TicksAre
  <2>2. QED BY <1>4, <2>1 DEF Known
<1>5. Flat(a, t)
  BY <1>4 DEF Flat
<1>6. QED BY <1>1, <1>2, <1>3, <1>5, ActiveFlat DEF a

\* The same upwards.
LEMMA LevelUp ==
    ASSUME Held, NEW S, NEW p \in Lowest..Highest, NEW t \in TicksAt(p), NEW n \in Int, NEW x \in Int,
           p <= x, x < 2 * n, Known(S, p, x), \A u \in S : ~(t < u /\ u < n)
    PROVE  Active(x \div 2) = Active(t)
<1>1. t \in Int /\ 2 * t <= p /\ p <= 2 * t + 2 /\ p \in Int
  BY TickOfPrice, PricesAre
<1> DEFINE a == x \div 2
<1>2. a \in Int /\ 2 * a <= x /\ x <= 2 * a + 1
  OBVIOUS
<1> HIDE DEF a
<1>3. t <= a
  BY <1>1, <1>2
<1>4. ASSUME NEW u \in Ticks, t < u, u <= a PROVE GrossAt(u) = 0
  <2>1. u \in Int /\ p <= 2 * u /\ 2 * u <= x /\ u < n
    BY <1>1, <1>2, <1>4, TicksAre
  <2>2. QED BY <1>4, <2>1 DEF Known
<1>5. Flat(t, a)
  BY <1>4 DEF Flat
<1>6. QED BY <1>1, <1>2, <1>3, <1>5, ActiveFlat DEF a

-----------------------------------------------------------------------------
(* Quotes.                                                                  *)

\* The ticks whose bits are set.
Marked == IF kind = "basic" THEN Live ELSE Used

\* The loop is where the walk w is after some units.
Follows(w) ==
    /\ swap.status = "running" /\ swap.liquidity = Active(swap.tick)
    /\ \E k \in 0..N :
          /\ w[k] = [price |-> swap.sqrt_price, remaining |-> swap.remaining, out |-> swap.calculated]
          /\ swap.remaining # 0 => swap.sqrt_price = AheadOf(swap.zero_for_one, sqrt_price, k)

WalkOfSwap(w) ==
    /\ Walks(w, swap.zero_for_one, sqrt_price, swap.amount_in)
    /\ TicksKnown(sqrt_price, w[N].price)

\* What is known between two prices is known between others within them.
LEMMA KnownPart ==
    ASSUME NEW S, NEW a \in Int, NEW b \in Int, Known(S, a, b),
           NEW c \in Int, NEW d \in Int, a <= c, d <= b
    PROVE  Known(S, c, d)
<1>1. \A u \in Ticks : u \in Int
  BY TicksAre
<1>2. \A u \in Ticks : c <= 2 * u /\ 2 * u <= d => a <= 2 * u /\ 2 * u <= b
  BY <1>1
<1>3. QED BY <1>2 DEF Known

\* They are the ones the bitmap stands for.
LEMMA MarkedIs ==
    ASSUME Table
    PROVE  Bitmap(Marked) /\ Marked \subseteq DOMAIN ticks
<1>1. CASE kind = "basic"
  BY <1>1 DEF Table, BasicTable, Live, Marked, Bitmap
<1>2. CASE kind # "basic"
  BY <1>2 DEF Table, TicksMirror, Used, Marked, Bitmap
<1>3. QED BY <1>1, <1>2

\* An iteration of a loop that follows a walk goes on following it: it passes over
\* no tick, crosses none twice and uses up the same amount.
LEMMA StepFollows ==
    ASSUME Held, Table, Price, SwapOk, LoopRuns, NEW w, WalkOfSwap(w), Follows(w)
    PROVE  /\ swap.liquidity + Net = Active(After)
           /\ \E k \in 0..N :
                 /\ w[k] = [price |-> Step.price, remaining |-> swap.remaining - Step.used,
                            out |-> swap.calculated + Step.out]
                 /\ swap.remaining - Step.used # 0 =>
                       Step.price = AheadOf(swap.zero_for_one, sqrt_price, k)
<1> DEFINE S == Marked
           down == swap.zero_for_one
           s == sqrt_price
           p == swap.sqrt_price
           t == swap.tick
           l == swap.liquidity
           rem == swap.remaining
           q == Step.price
           n == NextFound.tick
           e == w[N].price
           target == Target(down, n)
<1>1. /\ down \in BOOLEAN /\ p \in Lowest..Highest /\ p \in Int /\ t \in TicksAt(p) /\ t \in Int
      /\ l \in Nat /\ rem \in Nat /\ rem > 0 /\ l = Active(t)
      /\ s \in Lowest..Highest /\ s \in Int
      /\ N \in Nat /\ Lowest \in Int /\ Highest \in Int /\ N = Highest - Lowest
  <2>1. /\ down \in BOOLEAN /\ p \in Lowest..Highest /\ p \in Int /\ t \in TicksAt(p) /\ t \in Int
        /\ l \in Nat /\ rem \in Nat
    BY SwapFields
  <2>2. rem # 0 /\ l = Active(t) /\ s \in Lowest..Highest
    BY DEF LoopRuns, Follows, Price
  <2>3. N \in Nat /\ Lowest \in Int /\ Highest \in Int /\ N = Highest - Lowest
    BY NType, PricesAre DEF N
  <2> HIDE DEF down, p, t, l, rem, s
  <2>4. QED BY <2>1, <2>2, <2>3
<1>2. Bitmap(S) /\ S \subseteq DOMAIN ticks
  BY MarkedIs
<1>3. /\ Walks(w, down, s, swap.amount_in) /\ TicksKnown(s, e)
  BY DEF WalkOfSwap
<1>4. PICK k \in 0..N :
         /\ w[k] = [price |-> p, remaining |-> rem, out |-> swap.calculated]
         /\ p = AheadOf(down, s, k)
  BY <1>1 DEF Follows
<1>5. w[k].price = p /\ w[k].remaining = rem /\ w[k].out = swap.calculated
  BY <1>4
<1>6. /\ n \in Int
      /\ q \in Lowest..Highest /\ q \in Int
      /\ Reached \/ q = Limit(down) => q = target
      /\ down => /\ q <= p /\ n <= t /\ (\A u \in S : ~(n < u /\ u <= t))
                 /\ (~Reached => 2 * n < q)
      /\ ~down => /\ p <= q /\ t < n /\ (\A u \in S : ~(t < u /\ u < n))
                  /\ (~Reached => q < 2 * n)
      /\ Reached => q = 2 * n
  <2>1. Reached => Clamp(n) = n
    <3> HIDE DEF S
    <3>1. QED BY <1>2, StepIs
  <2>2. Reached => q = 2 * n
    BY <2>1 DEF Reached
  <2>3. /\ n \in Int
        /\ q \in Lowest..Highest
        /\ Reached \/ q = Limit(down) => q = target
        /\ down => /\ q <= p /\ n <= t /\ (\A u \in S : ~(n < u /\ u <= t))
                   /\ (~Reached => 2 * n < q)
        /\ ~down => /\ p <= q /\ t < n /\ (\A u \in S : ~(t < u /\ u < n))
                    /\ (~Reached => q < 2 * n)
    <3> HIDE DEF S
    <3>1. QED BY <1>2, StepIs
  <2>4. q \in Int
    <3> HIDE DEF q
    <3>1. QED BY <1>1, <2>3
  <2>5. QED BY <2>2, <2>3, <2>4
<1>7. PICK m \in Nat : /\ q = AheadOf(down, p, m)
                       /\ Step.out = m * l /\ m * l <= rem
                       /\ IF q = target THEN Step.used = m * l
                          ELSE Step.used = rem /\ rem < m * l + l
  <2>1. Step = SwapMathStep(p, target, l, rem)
    BY DEF Step
  <2>2. target \in Int /\ (down => target <= p) /\ (~down => p <= target)
    <3> HIDE DEF S
    <3>1. QED BY <1>2, StepIs
  <2> HIDE DEF p, target, l, rem, q, down
  <2>3. PICK m \in Nat : Units(p, target, l, rem, Step, m)
    BY <1>1, <2>1, <2>2, SwapMathUnits
  <2>4. q = AheadOf(down, p, m)
    <3>1. q = IF target > p THEN p + m ELSE p - m
      BY <2>3 DEF Units, q
    <3>2. QED BY <1>1, <1>6, <2>2, <3>1 DEF AheadOf
  <2>5. QED BY <2>3, <2>4 DEF Units, q
<1> HIDE DEF S, down, s, p, t, l, rem, q, n, e, target
<1>8. q = AheadOf(down, s, k + m) /\ k + m \in 0..N
  BY <1>1, <1>4, <1>6, <1>7 DEF AheadOf
<1>9. \A i \in 0..N : /\ w[i].price \in Int
                      /\ IF down THEN e <= w[i].price ELSE w[i].price <= e
  <2> TAKE i \in 0..N
  <2>1. /\ w[i] \in WalkValues
        /\ IF down THEN w[N].price <= w[i].price ELSE w[i].price <= w[N].price
    BY <1>1, <1>3, WalkEnds
  <2>2. w[i].price \in Int
    BY <1>1, <2>1 DEF WalkValues
  <2>3. QED BY <2>1, <2>2 DEF e
<1>10. e \in Int /\ (down => Known(S, e, s)) /\ (~down => Known(S, s, e))
  <2>1. w[0].price = s /\ 0 \in 0..N /\ N \in 0..N
    BY <1>1, <1>3 DEF Walks
  <2>2. e \in Int /\ IF down THEN e <= s ELSE s <= e
    BY <1>9, <2>1 DEF e
  <2>3. QED BY <1>1, <1>2, <1>3, <2>2, KnownIs
\* The units between p and q have the liquidity that the loop reckons with.
<1>11. ASSUME NEW j \in 0..m, w[k + j].price = AheadOf(down, p, j), j = m => q # target
       PROVE  ActiveBetween(UnitAhead(down, AheadOf(down, p, j))) = l
  <2> DEFINE a == AheadOf(down, p, j)
  <2>1. a \in Int /\ k + j \in 0..N
    BY <1>1, <1>8 DEF AheadOf
  <2>2. IF down THEN e <= a ELSE a <= e
    <3> HIDE DEF a
    <3>1. w[k + j].price = a
      BY <1>11 DEF a
    <3>2. QED BY <1>9, <2>1, <3>1
  <2>3. ~Reached \/ j < m
    BY <1>6, <1>11
  <2>4. CASE down
    <3>1. a = p - j /\ q = p - m /\ UnitAhead(down, a) = a - 1
      BY <1>1, <1>7, <2>4 DEF AheadOf, UnitAhead
    <3> HIDE DEF a
    <3>2. a <= p /\ a - 1 < p /\ 2 * n <= a - 1 /\ a - 1 \in Int /\ (a - 1) + 1 = a
      BY <1>1, <1>6, <2>1, <2>3, <2>4, <3>1
    <3>3. p <= s
      BY <1>1, <1>4, <2>4 DEF AheadOf
    <3>4. Known(S, a, p)
      BY <1>1, <1>10, <2>1, <2>2, <2>4, <3>3, KnownPart
    <3>5. \A u \in S : ~(n < u /\ u <= t)
      BY <1>6, <2>4
    <3>6. Active((a - 1) \div 2) = Active(t)
      BY <1>1, <1>6, <3>2, <3>4, <3>5, LevelDown
    <3>7. QED BY <1>1, <3>1, <3>6 DEF ActiveBetween, a
  <2>5. CASE ~down
    <3>1. a = p + j /\ q = p + m /\ UnitAhead(down, a) = a
      BY <1>1, <1>7, <2>5 DEF AheadOf, UnitAhead
    <3> HIDE DEF a
    <3>2. p <= a /\ a < 2 * n
      BY <1>1, <1>6, <2>1, <2>3, <2>5, <3>1
    <3>3. s <= p
      BY <1>1, <1>4, <2>5 DEF AheadOf
    <3>4. Known(S, p, a)
      BY <1>1, <1>10, <2>1, <2>2, <2>5, <3>3, KnownPart
    <3>5. \A u \in S : ~(t < u /\ u < n)
      BY <1>6, <2>5
    <3>6. Active(a \div 2) = Active(t)
      BY <1>1, <1>6, <2>1, <3>2, <3>4, <3>5, LevelUp
    <3>7. QED BY <1>1, <3>1, <3>6 DEF ActiveBetween, a
  <2>6. QED BY <1>1, <2>4, <2>5
<1>12. w[k + m] = [price |-> q, remaining |-> rem - m * l, out |-> swap.calculated + m * l]
  <2>1. Level(w, down, k, m, l)
    <3>1. \A j \in 0..m - 1 : j \in 0..m /\ j # m
      OBVIOUS
    <3>2. QED BY <1>5, <1>11, <3>1 DEF Level
  <2>2. k + m <= N
    BY <1>1, <1>8
  <2>3. AheadOf(down, w[k].price, m) \in Lowest..Highest
    BY <1>5, <1>6, <1>7
  <2>4. w[k + m] = [price |-> AheadOf(down, w[k].price, m),
                    remaining |-> w[k].remaining - m * l,
                    out |-> w[k].out + m * l]
    BY <1>1, <1>3, <1>5, <1>7, <2>1, <2>2, <2>3, WalkAlong
  <2>5. QED BY <1>5, <1>7, <2>4
<1>13. Known(S, IF down THEN q ELSE p, IF down THEN p ELSE q)
  <2>1. w[k + m].price = q
    BY <1>12
  <2>2. IF down THEN e <= q ELSE q <= e
    BY <1>8, <1>9, <2>1
  <2>3. IF down THEN p <= s ELSE s <= p
    BY <1>1, <1>4 DEF AheadOf
  <2>4. CASE down
    BY <1>1, <1>6, <1>10, <2>2, <2>3, <2>4, KnownPart
  <2>5. CASE ~down
    BY <1>1, <1>6, <1>10, <2>2, <2>3, <2>5, KnownPart
  <2>6. QED BY <2>4, <2>5
<1>14. swap.liquidity + Net = Active(After)
  <2>1. Known(S, IF swap.zero_for_one THEN Step.price ELSE swap.sqrt_price,
                 IF swap.zero_for_one THEN swap.sqrt_price ELSE Step.price)
    BY <1>13 DEF down, p, q
  <2>2. swap.liquidity = Active(swap.tick)
    BY <1>1 DEF l, t
  <2>3. QED BY <1>2, <2>1, <2>2, StepActive
<1> DEFINE left == rem - m * l
<1>15. CASE q = target
  <2>1. Step.used = m * l /\ Step.out = m * l
    BY <1>7, <1>15
  <2>2. w[k + m] = [price |-> Step.price, remaining |-> swap.remaining - Step.used,
                    out |-> swap.calculated + Step.out]
    BY <1>12, <2>1 DEF q, rem
  <2>3. Step.price = AheadOf(swap.zero_for_one, sqrt_price, k + m)
    BY <1>8 DEF q, down, s
  <2>4. QED BY <1>8, <1>14, <2>2, <2>3
<1>16. CASE q # target
  <2>1. Step.used = rem /\ Step.out = m * l /\ swap.remaining - Step.used = 0 /\ rem < m * l + l
    BY <1>1, <1>7, <1>16 DEF rem
  <2>2. m * l \in Nat /\ left \in Nat /\ left < l
    <3>1. m * l \in Nat
      BY <1>1
    <3>2. QED BY <1>1, <1>7, <2>1, <3>1
  <2>3. ASSUME NEW i \in 0..N, w[i] = [price |-> q, remaining |-> 0, out |-> swap.calculated + m * l]
        PROVE  \E x \in 0..N :
                  /\ w[x] = [price |-> Step.price, remaining |-> swap.remaining - Step.used,
                             out |-> swap.calculated + Step.out]
                  /\ swap.remaining - Step.used # 0 =>
                        Step.price = AheadOf(swap.zero_for_one, sqrt_price, x)
    <3>1. w[i] = [price |-> Step.price, remaining |-> swap.remaining - Step.used,
                  out |-> swap.calculated + Step.out]
      BY <2>1, <2>3 DEF q
    <3>2. QED BY <2>1, <3>1
  <2>4. CASE left = 0
    BY <1>8, <1>12, <1>14, <2>3, <2>4
  <2>5. CASE left # 0
    <3>1. w[k + m].price = q /\ w[k + m].remaining = left /\ w[k + m].out = swap.calculated + m * l
      BY <1>12
    <3>2. q # Limit(down)
      BY <1>6, <1>16
    <3>3. k + m \in 0..N - 1
      BY <1>1, <1>6, <1>8, <3>2 DEF AheadOf, Limit
    <3>4. ActiveBetween(UnitAhead(down, q)) = l
      BY <1>7, <1>11, <1>16, <3>1
    <3> HIDE DEF left
    <3>5. w[(k + m) + 1] = [price |-> w[k + m].price, remaining |-> 0, out |-> w[k + m].out]
      BY <1>1, <1>3, <2>2, <2>5, <3>1, <3>2, <3>3, <3>4, WalkStops
    <3>6. (k + m) + 1 \in 0..N
      BY <1>1, <3>3
    <3>7. QED BY <1>14, <2>3, <3>1, <3>5, <3>6
  <2>6. QED BY <2>4, <2>5
<1>17. QED BY <1>15, <1>16

QuoteInv == swap # NoSwap => \A w : WalkOfSwap(w) => Follows(w)

\* Nothing that an iteration changes is part of the walk.
LEMMA WalkSame ==
    ASSUME UNCHANGED <<positions, sqrt_price, ticks, tick_bitmap>>,
           swap'.zero_for_one = swap.zero_for_one, swap'.amount_in = swap.amount_in,
           NEW w
    PROVE  WalkOfSwap(w)' => WalkOfSwap(w)
<1>1. \A t : GrossAt(t)' = GrossAt(t) /\ NetAt(t)' = NetAt(t) /\ Active(t)' = Active(t)
  BY DEF GrossAt, NetAt, Active
<1> DEFINE down == swap.zero_for_one
           p == sqrt_price
           amount == swap.amount_in
<1>2. ASSUME NEW v PROVE Forward(down, v)' = Forward(down, v)
  <2>1. ActiveBetween(UnitAhead(down, v.price))' = ActiveBetween(UnitAhead(down, v.price))
    BY <1>1 DEF ActiveBetween, UnitAhead
  <2>2. QED BY <2>1 DEF Forward, AheadOf, Limit, Lowest, Highest
<1>3. Walks(w, down, p, amount)' => Walks(w, down, p, amount)
  <2>1. /\ Walks(w, down, p, amount) <=>
              /\ w \in [0..N -> WalkValues]
              /\ w[0] = [price |-> p, remaining |-> amount, out |-> 0]
              /\ \A n \in 1..N : w[n] = Forward(down, w[n - 1])
        /\ Walks(w, down, p, amount)' <=>
              /\ w \in [0..N -> WalkValues]
              /\ w[0] = [price |-> p', remaining |-> amount', out |-> 0]
              /\ \A n \in 1..N : w[n] = Forward(down, w[n - 1])'
    BY DEF Walks, N, WalkValues, Lowest, Highest
  <2>2. QED BY <1>2, <2>1
<1>4. TicksKnown(p, w[N].price)' => TicksKnown(p, w[N].price)
  BY <1>1 DEF TicksKnown, N, Lowest, Highest
<1>5. QED BY <1>3, <1>4 DEF WalkOfSwap, N, Lowest, Highest

\* A simulation starts where the walk starts.
LEMMA BeginFollows ==
    ASSUME PoolInv, NEW z, NEW amount_in, BeginSwap(z, amount_in)
    PROVE  QuoteInv'
<1>1. /\ UNCHANGED <<positions, sqrt_price>>
      /\ swap' = [status |-> "running", zero_for_one |-> z,
                  amount_in |-> amount_in, sqrt_price |-> sqrt_price, tick |-> tick,
                  liquidity |-> liquidity, remaining |-> amount_in, calculated |-> 0]
  BY DEF BeginSwap, pool
<1>2. /\ swap'.status = "running" /\ swap'.sqrt_price = sqrt_price /\ swap'.tick = tick
      /\ swap'.liquidity = liquidity /\ swap'.remaining = amount_in /\ swap'.calculated = 0
      /\ swap'.amount_in = amount_in /\ swap'.zero_for_one = z
  BY <1>1
<1>3. liquidity = Active(tick) /\ sqrt_price \in Int
  BY PricesAre DEF PoolInv, LiquidityIsActive, Price
<1>4. Active(swap.tick)' = Active(tick)
  BY <1>1, <1>2 DEF Active
<1>5. ASSUME NEW w, WalkOfSwap(w)' PROVE Follows(w)'
  <2>1. w[0] = [price |-> swap'.sqrt_price, remaining |-> swap'.remaining, out |-> swap'.calculated]
    BY <1>1, <1>2, <1>5 DEF WalkOfSwap, Walks
  <2>2. swap'.sqrt_price = AheadOf(swap'.zero_for_one, sqrt_price', 0)
    BY <1>1, <1>2, <1>3 DEF AheadOf
  <2>3. 0 \in 0..N
    BY NType
  <2>4. swap'.status = "running" /\ swap'.liquidity = Active(swap.tick)'
    BY <1>2, <1>3, <1>4
  <2>5. QED BY <2>1, <2>2, <2>3, <2>4 DEF Follows, AheadOf, N, Lowest, Highest
<1>6. QED BY <1>5 DEF QuoteInv

\* An iteration follows it.
LEMMA SwapStepFollows ==
    ASSUME PoolInv, QuoteInv, SwapStep
    PROVE  QuoteInv'
<1> DEFINE next == [status |-> "running", zero_for_one |-> swap.zero_for_one,
                    amount_in |-> swap.amount_in, sqrt_price |-> Step.price,
                    tick |-> After, liquidity |-> swap.liquidity + Net,
                    remaining |-> swap.remaining - Step.used,
                    calculated |-> swap.calculated + Step.out]
<1>1. /\ swap # NoSwap /\ LoopRuns /\ UNCHANGED <<positions, sqrt_price, ticks, tick_bitmap>>
      /\ swap' = IF swap.liquidity + Net < 0 THEN [swap EXCEPT !.status = "underflow"] ELSE next
  BY SwapStepIs DEF pool
<1>2. SwapOk /\ Held /\ Table /\ Price
  BY <1>1 DEF PoolInv, Loop
<1>3. swap'.zero_for_one = swap.zero_for_one /\ swap'.amount_in = swap.amount_in
  <2>1. CASE swap' = [swap EXCEPT !.status = "underflow"]
    BY <1>2, <2>1 DEF SwapOk, SwapStates
  <2>2. CASE swap' = next
    BY <2>2
  <2>3. QED BY <1>1, <2>1, <2>2
<1>4. ASSUME NEW w, WalkOfSwap(w)' PROVE Follows(w)'
  <2>1. WalkOfSwap(w) /\ Follows(w)
    BY <1>1, <1>3, <1>4, WalkSame DEF QuoteInv
  <2>2. /\ swap.liquidity + Net = Active(After)
        /\ \E k \in 0..N :
              /\ w[k] = [price |-> Step.price, remaining |-> swap.remaining - Step.used,
                         out |-> swap.calculated + Step.out]
              /\ swap.remaining - Step.used # 0 =>
                    Step.price = AheadOf(swap.zero_for_one, sqrt_price, k)
    BY <1>1, <1>2, <2>1, StepFollows
  <2>3. swap' = next
    <3>1. Active(After) \in Nat
      BY <1>2, LiquidityTypes
    <3> HIDE DEF next
    <3>2. ~(swap.liquidity + Net < 0)
      BY <2>2, <3>1
    <3>3. QED BY <1>1, <3>2
  <2>4. /\ swap'.status = "running" /\ swap'.sqrt_price = Step.price /\ swap'.tick = After
        /\ swap'.liquidity = swap.liquidity + Net
        /\ swap'.remaining = swap.remaining - Step.used
        /\ swap'.calculated = swap.calculated + Step.out
    BY <2>3
  <2>5. swap'.liquidity = Active(swap.tick)'
    BY <1>1, <2>2, <2>4 DEF Active
  <2>6. PICK k \in 0..N :
           /\ w[k] = [price |-> swap'.sqrt_price, remaining |-> swap'.remaining,
                      out |-> swap'.calculated]
           /\ swap'.remaining # 0 => swap'.sqrt_price = AheadOf(swap'.zero_for_one, sqrt_price', k)
    BY <1>1, <1>3, <2>2, <2>4
  <2>7. QED BY <2>4, <2>5, <2>6 DEF Follows, AheadOf, N, Lowest, Highest
<1>5. QED BY <1>4 DEF QuoteInv

\* So the loop of every simulation follows its walk.
LEMMA NextQuote == ASSUME PoolInv, QuoteInv, [PoolsNext]_agniVars PROVE QuoteInv'
<1>1. \/ swap' = NoSwap
      \/ SwapStep
      \/ \E z \in BOOLEAN, amount_in \in 1..MaxAmount : BeginSwap(z, amount_in)
      \/ UNCHANGED agniVars
  BY DEF PoolsNext, Next, AgniNext, Mint, Burn, SwapLog, ReturnQuote, KeepSwap,
         AgniMint, AgniBurn, Applied, AgniSwapLog, AgniBeginSwap, AgniSwapStep,
         AgniReturnQuote, AgniKeepSwap
<1>2. CASE swap' = NoSwap
  BY <1>2 DEF QuoteInv, NoSwap
<1>3. CASE SwapStep
  BY <1>3, SwapStepFollows
<1>4. CASE \E z \in BOOLEAN, amount_in \in 1..MaxAmount : BeginSwap(z, amount_in)
  BY <1>4, BeginFollows
<1>5. CASE UNCHANGED agniVars
  <2>1. UNCHANGED <<positions, sqrt_price, ticks, tick_bitmap, swap>>
    BY <1>5 DEF agniVars, vars, pool
  <2>2. \A w : WalkOfSwap(w)' => WalkOfSwap(w)
    BY <2>1, WalkSame
  <2>3. \A w : Follows(w) => Follows(w)'
    BY <2>1 DEF Follows, Active, N, Lowest, Highest, AheadOf
  <2>4. QED BY <2>1, <2>2, <2>3 DEF QuoteInv
<1>6. QED BY <1>1, <1>2, <1>3, <1>4, <1>5

\* And always does.
LEMMA QuoteInvariant == PoolsSpec => []QuoteInv
<1>1. PoolsInit => QuoteInv
  BY DEF PoolsInit, Init, AgniInit, QuoteInv
<1>2. PoolInv /\ QuoteInv /\ [PoolsNext]_agniVars => QuoteInv'
  BY NextQuote
<1>3. QED BY <1>1, <1>2, PoolInvariant, PTL DEF PoolsSpec

\* The quote of a finished simulation and the price it ends at are those of walking
\* the contract's positions one unit at a time, where the copy knows the ticks on
\* that way (simulate_swap over next_initialized_tick_within_one_word and
\* compute_swap_step).
THEOREM QuotesAlwaysExact == PoolsSpec => []QuoteExact
<1>1. ASSUME PoolInv, QuoteInv PROVE QuoteExact
  <2> DEFINE walk == Walk(swap.zero_for_one, sqrt_price, swap.amount_in)
  <2> SUFFICES ASSUME SwapDone, TicksKnown(sqrt_price, walk.price)
               PROVE  /\ swap.calculated = walk.out
                      /\ swap.sqrt_price = walk.price
                      /\ swap.remaining = walk.remaining
    BY Zenon DEF QuoteExact
  <2>1. swap # NoSwap /\ ~LoopRuns /\ SwapOk /\ Held /\ sqrt_price \in Lowest..Highest
    BY <1>1 DEF SwapDone, PoolInv, Loop, Price
  <2>2. swap.zero_for_one \in BOOLEAN /\ swap.amount_in \in Nat
    <3>1. swap.zero_for_one \in BOOLEAN /\ swap.amount_in \in 1..MaxAmount /\ MaxAmount \in Nat
      BY <2>1, SwapFields, PoolAssumption
    <3>2. QED BY <3>1
  <2>3. PICK w : Walks(w, swap.zero_for_one, sqrt_price, swap.amount_in) /\ walk = w[N]
    BY <2>1, <2>2, WalkIs
  <2>4. Follows(w)
    <3>1. WalkOfSwap(w)
      BY <2>3 DEF WalkOfSwap
    <3>2. QED BY <1>1, <2>1, <3>1 DEF QuoteInv
  <2> HIDE DEF walk
  <2>5. PICK k \in 0..N :
           w[k] = [price |-> swap.sqrt_price, remaining |-> swap.remaining, out |-> swap.calculated]
    BY <2>4 DEF Follows
  <2>6. w[k].remaining = 0 \/ w[k].price = Limit(swap.zero_for_one)
    BY <2>1, <2>4, <2>5 DEF Follows, LoopRuns
  <2>7. w[N] = w[k]
    BY <2>2, <2>3, <2>6, WalkEnds
  <2>8. QED BY <2>3, <2>5, <2>7
<1>2. QED BY <1>1, PoolInvariant, QuoteInvariant, PTL
-----------------------------------------------------------------------------
(* The Moe pair: totals.                                                    *)

\* What the contract holds of a side, bin by bin.
OfSide(bins, side) == [id \in DOMAIN bins |-> bins[id][side]]

\* A total is a sum of CommonFacts.
LEMMA TotalIs == \A bins, side : Total(bins, side) = SumOver(OfSide(bins, side), DOMAIN bins)
<1>1. \A f : SumFunction(f) = SumOver(f, DOMAIN f)
  BY Zenon DEF SumFunction, SumFunctionOnSet, FoldFunctionOnSet, MapThenFoldSet, SumOver, SumsOn, Pick
<1>2. \A bins, side : DOMAIN OfSide(bins, side) = DOMAIN bins
  BY DEF OfSide
<1>3. \A bins, side : Total(bins, side) = SumFunction(OfSide(bins, side))
  BY DEF Total, OfSide
<1>4. QED BY <1>1, <1>2, <1>3

\* What a bin holds is a number.
LEMMA OfSideType ==
    ASSUME NEW bins \in [Ids -> Bin], NEW side \in {"x", "y"}
    PROVE  OfSide(bins, side) \in [Ids -> Nat] /\ DOMAIN bins = Ids
BY MoeAssumption DEF OfSide, Bin

\* No bin holds more than the total.
LEMMA TotalHolds ==
    ASSUME NEW bins \in [Ids -> Bin], NEW side \in {"x", "y"}
    PROVE  /\ Total(bins, side) \in Nat
           /\ \A id \in Ids : bins[id][side] \in Nat /\ bins[id][side] <= Total(bins, side)
<1> DEFINE f == OfSide(bins, side)
<1>1. f \in [Ids -> Nat] /\ DOMAIN bins = Ids /\ IsFiniteSet(Ids)
  BY OfSideType, MoeAssumption
<1>2. Total(bins, side) = SumOver(f, Ids)
  BY <1>1, TotalIs
<1>3. \A S \in SUBSET Ids : SumOver(f, S) \in Nat
  <2> HIDE DEF f
  <2>1. QED BY <1>1, SumType
<1>4. \A id \in Ids : SumOver(f, Ids) = f[id] + SumOver(f, Ids \ {id})
  <2> TAKE id \in Ids
  <2> HIDE DEF f
  <2>1. Ids \in SUBSET Ids
    OBVIOUS
  <2>2. QED BY <1>1, <2>1, SumRemove
<1>5. \A id \in Ids : f[id] = bins[id][side] /\ f[id] \in Nat
  BY <1>1 DEF OfSide
<1>6. \A id \in Ids : Ids \ {id} \in SUBSET Ids /\ Ids \in SUBSET Ids
  OBVIOUS
<1> HIDE DEF f
<1>7. ASSUME NEW id \in Ids PROVE f[id] <= SumOver(f, Ids)
  <2>1. SumOver(f, Ids \ {id}) \in Nat
    BY <1>3, <1>6
  <2>2. QED BY <2>1, <1>4, <1>5
<1>8. SumOver(f, Ids) \in Nat
  BY <1>3
<1>9. QED BY <1>2, <1>5, <1>7, <1>8

\* A bin that changes changes the total by as much.
LEMMA TotalChanges ==
    ASSUME NEW bins \in [Ids -> Bin], NEW after \in [Ids -> Bin], NEW side \in {"x", "y"},
           NEW id \in Ids, \A i \in Ids : i # id => after[i] = bins[i]
    PROVE  Total(after, side) = Total(bins, side) + (after[id][side] - bins[id][side])
<1> DEFINE f == OfSide(bins, side)
           g == OfSide(after, side)
<1>1. /\ f \in [Ids -> Nat] /\ DOMAIN bins = Ids /\ IsFiniteSet(Ids)
      /\ g \in [Ids -> Nat] /\ DOMAIN after = Ids
  BY OfSideType, MoeAssumption
<1>2. \A i \in Ids : f[i] = bins[i][side] /\ g[i] = after[i][side]
  BY <1>1 DEF OfSide
<1>3. Total(bins, side) = SumOver(f, Ids) /\ Total(after, side) = SumOver(g, Ids)
  BY <1>1, TotalIs
<1>4. \A i \in Ids : i # id => g[i] = f[i]
  BY <1>2
<1> HIDE DEF f, g
<1>5. \A S \in SUBSET Ids : SumOver(g, S) = SumOver(f, S) + (IF id \in S THEN g[id] - f[id] ELSE 0)
  BY <1>1, <1>4, SumUpdate
<1>6. SumOver(g, Ids) = SumOver(f, Ids) + (IF id \in Ids THEN g[id] - f[id] ELSE 0)
  BY <1>5
<1>7. QED BY <1>2, <1>3, <1>6

\* What is cut at zero.
LEMMA SaturatedIs == ASSUME NEW n \in Int PROVE Saturated(n) = IF n >= 0 THEN n ELSE 0
BY MaxTwo DEF Saturated

-----------------------------------------------------------------------------
(* Readings, and bins that are put in or taken out.                         *)

ChainOK == chain \in [active_id : Ids, fee : Fees, bins : [Ids -> Bin]]

\* A reading of slot0 shows what the contract says.
LEMMA ReadSlot0 ==
    ASSUME ChainOK, NEW p, CopyTypeOK(p), NEW q, q = WithSlot0(p, chain)
    PROVE  /\ CopyTypeOK(q) /\ q.bins = p.bins
           /\ q.active_id = chain.active_id /\ q.fee = chain.fee
           /\ q.reserve_x = Total(chain.bins, "x") /\ q.reserve_y = Total(chain.bins, "y")
<1>1. chain.bins \in [Ids -> Bin] /\ chain.active_id \in Ids /\ chain.fee \in Fees
  BY DEF ChainOK
<1>2. Total(chain.bins, "x") \in Nat /\ Total(chain.bins, "y") \in Nat
  BY <1>1, TotalHolds
<1>3. /\ q.bins = p.bins
      /\ q.active_id = chain.active_id /\ q.fee = chain.fee
      /\ q.reserve_x = Total(chain.bins, "x") /\ q.reserve_y = Total(chain.bins, "y")
      /\ q = [active_id |-> chain.active_id, fee |-> chain.fee, bins |-> p.bins,
              reserve_x |-> Total(chain.bins, "x"), reserve_y |-> Total(chain.bins, "y")]
  BY DEF WithSlot0, CopyTypeOK
<1>4. /\ p.bins \in [DOMAIN p.bins -> [x : Nat, y : Nat]] /\ DOMAIN p.bins \subseteq Ids
      /\ HeldBins(p.bins) = DOMAIN p.bins
  BY DEF CopyTypeOK
<1>5. CopyTypeOK(q)
  BY <1>1, <1>2, <1>3, <1>4, Zenon DEF CopyTypeOK
<1>6. QED BY <1>3, <1>5

\* A reading of bins: those within reach that are not empty are the contract's, the
\* others are what they were.
LEMMA ReadBins ==
    ASSUME ChainOK, NEW p, CopyTypeOK(p), NEW q, q = WithBins(p, chain.bins)
    PROVE  LET read == Window(p.active_id) \cap HeldBins(chain.bins)
           IN  /\ CopyTypeOK(q) /\ q.active_id = p.active_id /\ q.fee = p.fee
               /\ q.reserve_x = p.reserve_x /\ q.reserve_y = p.reserve_y
               /\ DOMAIN q.bins = read \cup DOMAIN p.bins
               /\ \A id \in DOMAIN q.bins :
                     q.bins[id] = IF id \in read THEN chain.bins[id] ELSE p.bins[id]
<1> DEFINE read == Window(p.active_id) \cap HeldBins(chain.bins)
<1>1. chain.bins \in [Ids -> Bin] /\ read \subseteq Ids
  BY DEF ChainOK, HeldBins
<1>2. \A id \in read : chain.bins[id] \in [x : Nat, y : Nat] /\ chain.bins[id] # Empty
  <2>1. \A id \in Ids : chain.bins[id] \in [x : Nat, y : Nat]
    <3>1. MaxReserve \in Nat
      BY MoeAssumption
    <3>2. Bin \subseteq [x : Nat, y : Nat]
      BY <3>1 DEF Bin
    <3>3. QED BY <1>1, <3>2
  <2>2. QED BY <2>1, <1>1 DEF HeldBins
<1>3. /\ p.bins \in [DOMAIN p.bins -> [x : Nat, y : Nat]] /\ DOMAIN p.bins \subseteq Ids
      /\ \A id \in DOMAIN p.bins : p.bins[id] # Empty
  BY DEF CopyTypeOK, HeldBins
<1> DEFINE bins == [id \in read \cup DOMAIN p.bins |-> IF id \in read THEN chain.bins[id] ELSE p.bins[id]]
<1>4. q = [p EXCEPT !.bins = bins]
  BY DEF WithBins
<1>5. q = [active_id |-> p.active_id, fee |-> p.fee, bins |-> bins,
           reserve_x |-> p.reserve_x, reserve_y |-> p.reserve_y]
  <2> HIDE DEF bins
  <2>1. QED BY <1>4 DEF CopyTypeOK
<1>6. /\ bins \in [DOMAIN bins -> [x : Nat, y : Nat]] /\ DOMAIN bins \subseteq Ids
      /\ HeldBins(bins) = DOMAIN bins /\ DOMAIN bins = read \cup DOMAIN p.bins
      /\ \A id \in DOMAIN bins : bins[id] = IF id \in read THEN chain.bins[id] ELSE p.bins[id]
  <2> HIDE DEF read
  <2>1. DOMAIN bins = read \cup DOMAIN p.bins
    OBVIOUS
  <2>2. \A id \in DOMAIN bins : bins[id] = IF id \in read THEN chain.bins[id] ELSE p.bins[id]
    OBVIOUS
  <2>3. \A id \in DOMAIN bins : bins[id] \in [x : Nat, y : Nat] /\ bins[id] # Empty
    BY <1>2, <1>3, <2>1, <2>2
  <2>4. QED BY <2>1, <2>2, <2>3, <1>1, <1>3 DEF HeldBins
<1> HIDE DEF bins, read
<1>7. CopyTypeOK(q)
  <2>1. p.active_id \in Ids /\ p.fee \in Fees /\ p.reserve_x \in Nat /\ p.reserve_y \in Nat
    BY DEF CopyTypeOK
  <2>2. QED BY <2>1, <1>5, <1>6 DEF CopyTypeOK
<1>8. QED BY <1>5, <1>6, <1>7 DEF read

\* The fields of a copy.
LEMMA CopyFields ==
    ASSUME NEW a \in Ids, NEW f \in Fees, NEW r \in Nat, NEW s \in Nat, NEW b,
           b \in [DOMAIN b -> [x : Nat, y : Nat]], DOMAIN b \subseteq Ids, HeldBins(b) = DOMAIN b,
           NEW q, q = [active_id |-> a, fee |-> f, bins |-> b, reserve_x |-> r, reserve_y |-> s]
    PROVE  /\ CopyTypeOK(q)
           /\ q.active_id = a /\ q.fee = f /\ q.bins = b /\ q.reserve_x = r /\ q.reserve_y = s
<1>1. /\ q.active_id = a /\ q.fee = f /\ q.bins = b /\ q.reserve_x = r /\ q.reserve_y = s
  OBVIOUS
<1>2. q \in [active_id : Ids, fee : Fees, bins : [DOMAIN b -> [x : Nat, y : Nat]],
              reserve_x : Nat, reserve_y : Nat]
  OBVIOUS
<1>3. QED BY <1>1, <1>2, Zenon DEF CopyTypeOK

\* A copy with other bins and totals.
Rewritten(p, b, r, s) == [p EXCEPT !.bins = b, !.reserve_x = r, !.reserve_y = s]

IsPut(q, p, id, bin, r, s) ==
    /\ CopyTypeOK(q) /\ q.active_id = p.active_id /\ q.fee = p.fee
    /\ q.reserve_x = r /\ q.reserve_y = s
    /\ DOMAIN q.bins = DOMAIN p.bins \cup {id}
    /\ \A i \in DOMAIN q.bins : q.bins[i] = IF i = id THEN bin ELSE p.bins[i]

IsTaken(q, p, id, r, s) ==
    /\ CopyTypeOK(q) /\ q.active_id = p.active_id /\ q.fee = p.fee
    /\ q.reserve_x = r /\ q.reserve_y = s
    /\ DOMAIN q.bins = DOMAIN p.bins \ {id}
    /\ \A i \in DOMAIN q.bins : q.bins[i] = p.bins[i]

\* A bin is put in, or replaced.
LEMMA BinPut ==
    ASSUME NEW p, CopyTypeOK(p), NEW id \in Ids, NEW bin \in [x : Nat, y : Nat], bin # Empty,
           NEW r \in Nat, NEW s \in Nat, NEW q,
           q = Rewritten(p, WithBin(p.bins, id, bin), r, s)
    PROVE  IsPut(q, p, id, bin, r, s)
<1> DEFINE bins == WithBin(p.bins, id, bin)
<1>1. /\ p.bins \in [DOMAIN p.bins -> [x : Nat, y : Nat]] /\ DOMAIN p.bins \subseteq Ids
      /\ \A i \in DOMAIN p.bins : p.bins[i] # Empty
  BY DEF CopyTypeOK, HeldBins
<1>2. DOMAIN bins = DOMAIN p.bins \cup {id} /\ bins = [i \in DOMAIN bins |-> bins[i]]
  BY DEF WithBin
<1>3. \A i \in DOMAIN bins : bins[i] = IF i = id THEN bin ELSE p.bins[i]
  BY DEF WithBin
<1> HIDE DEF bins
<1>4. \A i \in DOMAIN bins : bins[i] \in [x : Nat, y : Nat] /\ bins[i] # Empty
  BY <1>1, <1>2, <1>3
<1>5. q = [active_id |-> p.active_id, fee |-> p.fee, bins |-> bins, reserve_x |-> r, reserve_y |-> s]
  BY DEF CopyTypeOK, bins, Rewritten
<1>6. p.active_id \in Ids /\ p.fee \in Fees
  BY DEF CopyTypeOK
<1>7. bins \in [DOMAIN bins -> [x : Nat, y : Nat]] /\ HeldBins(bins) = DOMAIN bins /\ DOMAIN bins \subseteq Ids
  BY <1>1, <1>2, <1>4 DEF HeldBins
<1>8. /\ CopyTypeOK(q)
      /\ q.active_id = p.active_id /\ q.fee = p.fee /\ q.bins = bins
      /\ q.reserve_x = r /\ q.reserve_y = s
  BY <1>5, <1>6, <1>7, CopyFields
<1>9. QED BY <1>2, <1>3, <1>8, Zenon DEF IsPut

\* Or it is taken out.
LEMMA BinTaken ==
    ASSUME NEW p, CopyTypeOK(p), NEW id \in Ids, NEW r \in Nat, NEW s \in Nat, NEW q,
           q = Rewritten(p, Restrict(p.bins, DOMAIN p.bins \ {id}), r, s)
    PROVE  IsTaken(q, p, id, r, s)
<1> DEFINE bins == Restrict(p.bins, DOMAIN p.bins \ {id})
<1>1. /\ p.bins \in [DOMAIN p.bins -> [x : Nat, y : Nat]] /\ DOMAIN p.bins \subseteq Ids
      /\ \A i \in DOMAIN p.bins : p.bins[i] # Empty
  BY DEF CopyTypeOK, HeldBins
<1>2. DOMAIN bins = DOMAIN p.bins \ {id} /\ bins = [i \in DOMAIN bins |-> bins[i]]
  BY DEF Restrict
<1>3. \A i \in DOMAIN bins : bins[i] = p.bins[i]
  BY DEF Restrict
<1> HIDE DEF bins
<1>4. \A i \in DOMAIN bins : bins[i] \in [x : Nat, y : Nat] /\ bins[i] # Empty
  BY <1>1, <1>2, <1>3
<1>5. q = [active_id |-> p.active_id, fee |-> p.fee, bins |-> bins, reserve_x |-> r, reserve_y |-> s]
  BY DEF CopyTypeOK, bins, Rewritten
<1>6. p.active_id \in Ids /\ p.fee \in Fees
  BY DEF CopyTypeOK
<1>7. bins \in [DOMAIN bins -> [x : Nat, y : Nat]] /\ HeldBins(bins) = DOMAIN bins /\ DOMAIN bins \subseteq Ids
  BY <1>1, <1>2, <1>4 DEF HeldBins
<1>8. /\ CopyTypeOK(q)
      /\ q.active_id = p.active_id /\ q.fee = p.fee /\ q.bins = bins
      /\ q.reserve_x = r /\ q.reserve_y = s
  BY <1>5, <1>6, <1>7, CopyFields
<1>9. QED BY <1>2, <1>3, <1>8, Zenon DEF IsTaken

-----------------------------------------------------------------------------
(* Every step keeps types and CopyExact.                                    *)

MoeInv == MoeTypeOK /\ CopyExact

\* What the copy has of the bins that no swap changed, and of the totals.
Exact(p, c, old, totals) ==
    /\ p.active_id = c.active_id
    /\ \A id \in Ids \ old :
          IF id \in DOMAIN p.bins THEN p.bins[id] = c.bins[id] ELSE c.bins[id] = Empty
    /\ totals => /\ p.reserve_x = Total(c.bins, "x")
                 /\ p.reserve_y = Total(c.bins, "y")
                 /\ p.fee = c.fee

\* CopyExact is Exact of the copy and the contract.
LEMMA ExactIs == CopyExact <=> Exact(pair, chain, stale, ~old_totals)
BY Zenon DEF CopyExact, Exact

\* A swap: what it goes through is stale, totals and fee are old.
LEMMA SwapKeepsCopy == ASSUME MoeInv, Swap PROVE MoeInv'
<1>1. MoeTypeOK /\ Exact(pair, chain, stale, ~old_totals)
  BY ExactIs DEF MoeInv
<1>2. PICK swap_for_y \in BOOLEAN, m \in Ids, amount \in 1..MaxQuoted, fee \in Fees :
        LET side == Out(swap_for_y)
            Drained(id) == LET r == chain.bins[id][side]
                           IN Traded(chain.bins[id], swap_for_y,
                                     [in |-> Drain(id, swap_for_y, r, chain.fee), out |-> r])
            last == GetAmounts(m, swap_for_y, chain.bins[m][side], chain.fee, amount)
        IN /\ IF swap_for_y THEN m <= chain.active_id ELSE m >= chain.active_id
           /\ last.out > 0
           /\ chain' = [active_id |-> m, fee |-> fee,
                        bins |-> [id \in Ids |->
                           IF id = m THEN Traded(chain.bins[m], swap_for_y, last)
                           ELSE IF id \in Before(m, swap_for_y) THEN Drained(id)
                           ELSE chain.bins[id]]]
           /\ pair' = SyncSwap(pair, m)
           /\ stale' = stale \cup Before(m, swap_for_y) \cup {m}
  BY Zenon DEF Swap
<1>3. /\ chain'.active_id = m /\ chain'.fee = fee
      /\ \A id \in Ids : id # m /\ id \notin Before(m, swap_for_y) => chain'.bins[id] = chain.bins[id]
      /\ chain' = [active_id |-> m, fee |-> fee, bins |-> chain'.bins]
  <2> DEFINE side == Out(swap_for_y)
             Drained(id) == LET r == chain.bins[id][side]
                            IN Traded(chain.bins[id], swap_for_y,
                                      [in |-> Drain(id, swap_for_y, r, chain.fee), out |-> r])
             last == GetAmounts(m, swap_for_y, chain.bins[m][side], chain.fee, amount)
             bins == [id \in Ids |->
                           IF id = m THEN Traded(chain.bins[m], swap_for_y, last)
                           ELSE IF id \in Before(m, swap_for_y) THEN Drained(id)
                           ELSE chain.bins[id]]
  <2>1. chain' = [active_id |-> m, fee |-> fee, bins |-> bins]
    BY <1>2, Zenon
  <2>2. \A id \in Ids : id # m /\ id \notin Before(m, swap_for_y) => bins[id] = chain.bins[id]
    BY Zenon
  <2> HIDE DEF bins
  <2>3. QED BY <2>1, <2>2
<1>4. /\ chain'.bins \in [Ids -> Bin] /\ old_totals' = TRUE /\ changed' = TRUE
      /\ pair_logs < MaxPairLogs /\ pair_logs' = pair_logs + 1
  BY Zenon DEF Swap, Bounded, Logged
<1>5. pair' = [active_id |-> m, fee |-> pair.fee, bins |-> pair.bins,
               reserve_x |-> pair.reserve_x, reserve_y |-> pair.reserve_y]
  BY <1>1, <1>2 DEF MoeTypeOK, CopyTypeOK, SyncSwap
<1>6. /\ pair'.active_id = m /\ pair'.bins = pair.bins /\ stale' = stale \cup Before(m, swap_for_y) \cup {m}
  BY <1>2, <1>5
<1>7. CopyTypeOK(pair)'
  <2>1. /\ pair.fee \in Fees /\ pair.bins \in [DOMAIN pair.bins -> [x : Nat, y : Nat]]
        /\ pair.reserve_x \in Nat /\ pair.reserve_y \in Nat
        /\ DOMAIN pair.bins \subseteq Ids /\ HeldBins(pair.bins) = DOMAIN pair.bins
    BY <1>1 DEF MoeTypeOK, CopyTypeOK
  <2>2. pair' \in [active_id : Ids, fee : Fees, bins : [DOMAIN pair.bins -> [x : Nat, y : Nat]],
                   reserve_x : Nat, reserve_y : Nat]
    BY <2>1, <1>5
  <2>3. QED BY <2>1, <2>2, <1>6, Zenon DEF CopyTypeOK
<1>8. MoeTypeOK'
  <2>1. chain' \in [active_id : Ids, fee : Fees, bins : [Ids -> Bin]]
    BY <1>3, <1>4
  <2>2. stale' \subseteq Ids
    BY <1>1, <1>6 DEF MoeTypeOK, Before
  <2>3. pair_logs' \in 0..MaxPairLogs
    BY <1>1, <1>4, MoeAssumption DEF MoeTypeOK
  <2>4. QED BY <1>4, <1>7, <2>1, <2>2, <2>3 DEF MoeTypeOK
<1>9. CopyExact'
  <2>1. \A id \in Ids \ stale' : id \in Ids \ stale /\ id # m /\ id \notin Before(m, swap_for_y)
    BY <1>6
  <2>2. \A id \in Ids \ stale' : IF id \in DOMAIN pair'.bins THEN pair'.bins[id] = chain'.bins[id]
                                                           ELSE chain'.bins[id] = Empty
    BY <2>1, <1>1, <1>3, <1>6, Zenon DEF Exact
  <2>3. QED BY <2>2, <1>3, <1>4, <1>6, Zenon DEF CopyExact
<1>10. QED BY <1>8, <1>9 DEF MoeInv

\* A reading: what it reads is the contract's.
LEMMA ResyncKeepsCopy == ASSUME MoeInv, ResyncReads \/ ResyncFails PROVE MoeInv'
<1>1. MoeTypeOK /\ ChainOK /\ Exact(pair, chain, stale, ~old_totals) /\ CopyTypeOK(pair)
  BY ExactIs DEF MoeInv, MoeTypeOK, ChainOK
<1>2. CASE ResyncReads
  <2>1. PICK slot0 \in BOOLEAN :
          /\ pair' = WithBins(IF slot0 THEN WithSlot0(pair, chain) ELSE pair, chain.bins)
          /\ old_totals' = (old_totals /\ ~slot0)
    BY <1>2, Zenon DEF ResyncReads
  <2>2. /\ changed' = FALSE /\ chain' = chain /\ pair_logs' = pair_logs
        /\ stale' = stale \ (Window(pair.active_id) \cap HeldBins(chain.bins))
    BY <1>2, Zenon DEF ResyncReads
  <2> DEFINE p == IF slot0 THEN WithSlot0(pair, chain) ELSE pair
             read == Window(p.active_id) \cap HeldBins(chain.bins)
  <2>3. CopyTypeOK(p) /\ p.bins = pair.bins /\ p.active_id = chain.active_id /\ p.active_id = pair.active_id
    <3>1. CASE slot0
      BY <3>1, <1>1, ReadSlot0, Zenon DEF Exact
    <3>2. CASE ~slot0
      BY <3>2, <1>1, Zenon DEF Exact
    <3>3. QED BY <3>1, <3>2
  <2>4. ~old_totals' => /\ p.reserve_x = Total(chain.bins, "x")
                        /\ p.reserve_y = Total(chain.bins, "y")
                        /\ p.fee = chain.fee
    <3>1. CASE slot0
      BY <3>1, <1>1, ReadSlot0, Zenon
    <3>2. CASE ~slot0
      BY <3>2, <1>1, <2>1, Zenon DEF Exact
    <3>3. QED BY <3>1, <3>2
  <2>5. pair' = WithBins(p, chain.bins)
    BY <2>1
  <2> HIDE DEF p
  <2>6. /\ CopyTypeOK(pair') /\ pair'.active_id = p.active_id /\ pair'.fee = p.fee
        /\ pair'.reserve_x = p.reserve_x /\ pair'.reserve_y = p.reserve_y
        /\ DOMAIN pair'.bins = read \cup DOMAIN p.bins
        /\ \A id \in DOMAIN pair'.bins :
              pair'.bins[id] = IF id \in read THEN chain.bins[id] ELSE p.bins[id]
    BY <1>1, <2>3, <2>5, ReadBins DEF read
  <2>7. stale' = stale \ read
    BY <2>2, <2>3
  <2> HIDE DEF read
  <2>8. MoeTypeOK'
    BY <1>1, <2>1, <2>2, <2>6, <2>7 DEF MoeTypeOK, CopyTypeOK
  <2>9. \A id \in Ids \ stale' : IF id \in DOMAIN pair'.bins THEN pair'.bins[id] = chain'.bins[id]
                                                           ELSE chain'.bins[id] = Empty
    <3> TAKE id \in Ids \ stale'
    <3>1. CASE id \in read
      BY <3>1, <2>2, <2>6
    <3>2. CASE id \notin read
      <4>1. id \in Ids \ stale
        BY <3>2, <2>7
      <4>2. id \in DOMAIN pair'.bins <=> id \in DOMAIN pair.bins
        BY <3>2, <2>3, <2>6
      <4>3. id \in DOMAIN pair'.bins => pair'.bins[id] = pair.bins[id]
        BY <3>2, <2>3, <2>6
      <4>4. QED BY <4>1, <4>2, <4>3, <1>1, <2>2, Zenon DEF Exact
    <3>3. QED BY <3>1, <3>2
  <2>10. CopyExact'
    BY <2>2, <2>3, <2>4, <2>6, <2>9, Zenon DEF CopyExact
  <2>11. QED BY <2>8, <2>10 DEF MoeInv
<1>3. CASE ResyncFails
  <2>1. UNCHANGED <<chain, pair, pair_logs, stale, old_totals>> /\ changed' = FALSE
    BY <1>3, Zenon DEF ResyncFails
  <2>2. MoeTypeOK'
    BY <1>1, <2>1 DEF MoeTypeOK, CopyTypeOK
  <2>3. CopyExact'
    BY <2>1 DEF MoeInv, CopyExact
  <2>4. QED BY <2>2, <2>3 DEF MoeInv
<1>4. QED BY <1>2, <1>3

\* A bin the copy does not have is empty.
LEMMA BinOfType ==
    ASSUME NEW p, CopyTypeOK(p), NEW id
    PROVE  BinOf(p, id) \in [x : Nat, y : Nat]
BY DEF CopyTypeOK, BinOf, Empty

\* A deposit changes a bin and the totals by the same amounts as the contract.
LEMMA DepositKeepsCopy == ASSUME MoeInv, Deposit PROVE MoeInv'
<1>1. MoeTypeOK /\ Exact(pair, chain, stale, ~old_totals) /\ CopyTypeOK(pair)
  BY ExactIs DEF MoeInv, MoeTypeOK
<1>2. PICK id \in Ids, b \in [x : 0..1, y : 0..1] \ {Empty} :
        /\ chain' = [chain EXCEPT !.bins[id].x = @ + b.x, !.bins[id].y = @ + b.y]
        /\ pair' = Deposited(pair, id, b)
  BY Zenon DEF Deposit
<1>3. /\ chain'.bins \in [Ids -> Bin] /\ old_totals' = old_totals /\ stale' = stale /\ changed' = TRUE
      /\ pair_logs < MaxPairLogs /\ pair_logs' = pair_logs + 1
  BY Zenon DEF Deposit, Bounded, Logged
<1>4. b.x \in Nat /\ b.y \in Nat /\ ~(b.x = 0 /\ b.y = 0)
  BY DEF Empty
<1>5. /\ chain \in [active_id : Ids, fee : Fees, bins : [Ids -> Bin]]
      /\ \A i \in Ids : chain.bins[i] \in [x : Nat, y : Nat]
  BY <1>1, MoeAssumption DEF MoeTypeOK, Bin
<1>6. /\ chain' = [active_id |-> chain.active_id, fee |-> chain.fee, bins |-> chain'.bins]
      /\ chain'.active_id = chain.active_id /\ chain'.fee = chain.fee
      /\ \A i \in Ids : i # id => chain'.bins[i] = chain.bins[i]
      /\ chain'.bins[id] = [x |-> chain.bins[id].x + b.x, y |-> chain.bins[id].y + b.y]
  BY <1>2, <1>5
<1> DEFINE bin == [x |-> BinOf(pair, id).x + b.x, y |-> BinOf(pair, id).y + b.y]
<1>7. BinOf(pair, id) \in [x : Nat, y : Nat]
  BY <1>1, BinOfType
<1>8. bin \in [x : Nat, y : Nat] /\ bin # Empty
  <2>1. bin.x = BinOf(pair, id).x + b.x /\ bin.y = BinOf(pair, id).y + b.y
    OBVIOUS
  <2>2. bin.x # 0 \/ bin.y # 0
    BY <2>1, <1>4, <1>7
  <2>3. QED BY <2>2, <1>4, <1>7 DEF Empty
<1>9. pair' = Rewritten(pair, WithBin(pair.bins, id, bin), pair.reserve_x + b.x, pair.reserve_y + b.y)
  BY <1>2, Zenon DEF Deposited, Rewritten
<1>10. pair.reserve_x + b.x \in Nat /\ pair.reserve_y + b.y \in Nat
  BY <1>1, <1>4 DEF CopyTypeOK
<1> HIDE DEF bin
<1>11. /\ CopyTypeOK(pair') /\ pair'.active_id = pair.active_id /\ pair'.fee = pair.fee
       /\ pair'.reserve_x = pair.reserve_x + b.x /\ pair'.reserve_y = pair.reserve_y + b.y
       /\ DOMAIN pair'.bins = DOMAIN pair.bins \cup {id}
       /\ \A i \in DOMAIN pair'.bins : pair'.bins[i] = IF i = id THEN bin ELSE pair.bins[i]
  <2> DEFINE r == pair.reserve_x + b.x
             t == pair.reserve_y + b.y
  <2>1. pair' = Rewritten(pair, WithBin(pair.bins, id, bin), r, t) /\ r \in Nat /\ t \in Nat
    BY <1>9, <1>10
  <2> HIDE DEF r, t
  <2>2. IsPut(pair', pair, id, bin, r, t)
    BY <1>1, <1>8, <2>1, BinPut
  <2>3. QED BY <2>2, Zenon DEF IsPut, r, t
<1>12. MoeTypeOK'
  <2>1. chain' \in [active_id : Ids, fee : Fees, bins : [Ids -> Bin]]
    BY <1>3, <1>5, <1>6
  <2>2. pair_logs' \in 0..MaxPairLogs
    BY <1>1, <1>3, MoeAssumption DEF MoeTypeOK
  <2>3. QED BY <1>1, <1>3, <1>11, <2>1, <2>2 DEF MoeTypeOK, CopyTypeOK
<1>13. \A i \in Ids \ stale : IF i \in DOMAIN pair'.bins THEN pair'.bins[i] = chain'.bins[i]
                                                       ELSE chain'.bins[i] = Empty
  <2> TAKE i \in Ids \ stale
  <2>1. IF i \in DOMAIN pair.bins THEN pair.bins[i] = chain.bins[i] ELSE chain.bins[i] = Empty
    BY <1>1, Zenon DEF Exact
  <2>2. CASE i = id
    <3>1. BinOf(pair, id) = chain.bins[id]
      BY <2>1, <2>2, Zenon DEF BinOf
    <3>2. bin = chain'.bins[id]
      BY <3>1, <1>6, Zenon DEF bin
    <3>3. QED BY <3>2, <2>2, <1>11
  <2>3. CASE i # id
    BY <2>1, <2>3, <1>6, <1>11
  <2>4. QED BY <2>2, <2>3
<1>14. ~old_totals => /\ pair'.reserve_x = Total(chain'.bins, "x")
                      /\ pair'.reserve_y = Total(chain'.bins, "y")
  <2>1. chain.bins \in [Ids -> Bin]
    BY <1>5
  <2>2. /\ Total(chain'.bins, "x") = Total(chain.bins, "x") + (chain'.bins[id].x - chain.bins[id].x)
        /\ Total(chain'.bins, "y") = Total(chain.bins, "y") + (chain'.bins[id].y - chain.bins[id].y)
    BY <2>1, <1>3, <1>6, TotalChanges
  <2>3. chain.bins[id] \in [x : Nat, y : Nat]
    BY <1>5
  <2>4. chain'.bins[id].x - chain.bins[id].x = b.x /\ chain'.bins[id].y - chain.bins[id].y = b.y
    BY <2>3, <1>4, <1>6
  <2>5. QED BY <2>2, <2>4, <1>1, <1>11 DEF Exact
<1>15. CopyExact'
  BY <1>1, <1>3, <1>6, <1>11, <1>13, <1>14 DEF CopyExact, Exact
<1>16. QED BY <1>12, <1>15 DEF MoeInv

\* A difference cut at zero.
LEMMA SubType ==
    ASSUME NEW a \in Nat, NEW b \in Nat
    PROVE  SaturatingSub(a, b) \in Nat /\ (b <= a => SaturatingSub(a, b) = a - b)
<1>1. Saturated(a - b) = IF a - b >= 0 THEN a - b ELSE 0
  BY SaturatedIs
<1>2. QED BY <1>1 DEF SaturatingSub

\* So does a withdrawal, which may empty the bin.
LEMMA WithdrawKeepsCopy == ASSUME MoeInv, Withdraw PROVE MoeInv'
<1>1. MoeTypeOK /\ Exact(pair, chain, stale, ~old_totals) /\ CopyTypeOK(pair)
  BY ExactIs DEF MoeInv, MoeTypeOK
<1>2. PICK id \in Ids, part \in 1..2 :
        LET b == [x |-> chain.bins[id].x \div part, y |-> chain.bins[id].y \div part]
        IN /\ b # Empty
           /\ chain' = [chain EXCEPT !.bins[id].x = @ - b.x, !.bins[id].y = @ - b.y]
           /\ pair' = Withdrawn(pair, id, b)
  BY Zenon DEF Withdraw
<1> DEFINE b == [x |-> chain.bins[id].x \div part, y |-> chain.bins[id].y \div part]
           X == b.x
           Y == b.y
<1>3. /\ old_totals' = old_totals /\ stale' = stale /\ changed' = TRUE
      /\ pair_logs < MaxPairLogs /\ pair_logs' = pair_logs + 1
  BY Zenon DEF Withdraw, Logged
<1>4. /\ chain \in [active_id : Ids, fee : Fees, bins : [Ids -> Bin]]
      /\ \A i \in Ids : chain.bins[i] \in Bin /\ chain.bins[i].x \in 0..MaxReserve /\ chain.bins[i].y \in 0..MaxReserve
  BY <1>1, MoeAssumption DEF MoeTypeOK, Bin
<1>5. X \in 0..chain.bins[id].x /\ Y \in 0..chain.bins[id].y
  <2>1. X = chain.bins[id].x \div part /\ Y = chain.bins[id].y \div part
    OBVIOUS
  <2>2. \A n \in Nat : n \div 1 = n /\ n \div 2 \in 0..n
    OBVIOUS
  <2>3. chain.bins[id].x \in Nat /\ chain.bins[id].y \in Nat
    BY <1>4, MoeAssumption
  <2>4. part = 1 \/ part = 2
    OBVIOUS
  <2>5. QED BY <2>1, <2>2, <2>3, <2>4
<1>6. /\ chain' = [chain EXCEPT !.bins[id].x = @ - X, !.bins[id].y = @ - Y]
      /\ pair' = Withdrawn(pair, id, b)
  BY <1>2, Zenon
<1> HIDE DEF X, Y
<1>7. /\ chain' = [active_id |-> chain.active_id, fee |-> chain.fee, bins |-> chain'.bins]
      /\ chain'.active_id = chain.active_id /\ chain'.fee = chain.fee
      /\ chain'.bins = [i \in Ids |-> chain'.bins[i]]
      /\ \A i \in Ids : i # id => chain'.bins[i] = chain.bins[i]
      /\ chain'.bins[id] = [x |-> chain.bins[id].x - X, y |-> chain.bins[id].y - Y]
  BY <1>4, <1>6 DEF Bin
<1>8. chain'.bins \in [Ids -> Bin]
  <2>1. chain'.bins[id] \in Bin
    BY <1>4, <1>5, <1>7, MoeAssumption DEF Bin
  <2>2. \A i \in Ids : chain'.bins[i] \in Bin
    BY <2>1, <1>4, <1>7
  <2>3. QED BY <2>2, <1>7
<1> DEFINE old == BinOf(pair, id)
           left == [x |-> SaturatingSub(old.x, X), y |-> SaturatingSub(old.y, Y)]
           r == SaturatingSub(pair.reserve_x, X)
           t == SaturatingSub(pair.reserve_y, Y)
<1>9. pair' = Rewritten(pair, IF left = Empty THEN Restrict(pair.bins, DOMAIN pair.bins \ {id})
                                              ELSE WithBin(pair.bins, id, left), r, t)
  BY <1>6, Zenon DEF Withdrawn, Rewritten, X, Y
<1>10. old \in [x : Nat, y : Nat]
  BY <1>1, BinOfType
<1>11. X \in Nat /\ Y \in Nat
  BY <1>4, <1>5
<1>12. left \in [x : Nat, y : Nat] /\ r \in Nat /\ t \in Nat
  <2>1. pair.reserve_x \in Nat /\ pair.reserve_y \in Nat
    BY <1>1 DEF CopyTypeOK
  <2>2. SaturatingSub(old.x, X) \in Nat /\ SaturatingSub(old.y, Y) \in Nat
    BY <1>10, <1>11, SubType
  <2>3. QED BY <2>1, <2>2, <1>11, SubType
<1> HIDE DEF left, r, t, old
<1>14. /\ CopyTypeOK(pair') /\ pair'.active_id = pair.active_id /\ pair'.fee = pair.fee
       /\ pair'.reserve_x = r /\ pair'.reserve_y = t
       /\ IF left = Empty THEN /\ DOMAIN pair'.bins = DOMAIN pair.bins \ {id}
                               /\ \A i \in DOMAIN pair'.bins : pair'.bins[i] = pair.bins[i]
          ELSE /\ DOMAIN pair'.bins = DOMAIN pair.bins \cup {id}
               /\ \A i \in DOMAIN pair'.bins : pair'.bins[i] = IF i = id THEN left ELSE pair.bins[i]
  <2>1. CASE left = Empty
    <3>1. pair' = Rewritten(pair, Restrict(pair.bins, DOMAIN pair.bins \ {id}), r, t)
      BY <2>1, <1>9
    <3>2. IsTaken(pair', pair, id, r, t)
      BY <1>1, <1>12, <2>1, <3>1, BinTaken
    <3>3. QED BY <3>2, <2>1, Zenon DEF IsTaken
  <2>2. CASE left # Empty
    <3>1. pair' = Rewritten(pair, WithBin(pair.bins, id, left), r, t)
      BY <2>2, <1>9
    <3>2. IsPut(pair', pair, id, left, r, t)
      BY <1>1, <1>12, <2>2, <3>1, BinPut
    <3>3. QED BY <3>2, <2>2, Zenon DEF IsPut
  <2>3. QED BY <2>1, <2>2
<1>15. MoeTypeOK'
  <2>1. chain' \in [active_id : Ids, fee : Fees, bins : [Ids -> Bin]]
    BY <1>4, <1>7, <1>8
  <2>2. pair_logs' \in 0..MaxPairLogs
    BY <1>1, <1>3, MoeAssumption DEF MoeTypeOK
  <2>3. QED BY <1>1, <1>3, <1>14, <2>1, <2>2 DEF MoeTypeOK, CopyTypeOK
<1>16. \A i \in Ids \ stale : IF i \in DOMAIN pair'.bins THEN pair'.bins[i] = chain'.bins[i]
                                                       ELSE chain'.bins[i] = Empty
  <2> TAKE i \in Ids \ stale
  <2>1. IF i \in DOMAIN pair.bins THEN pair.bins[i] = chain.bins[i] ELSE chain.bins[i] = Empty
    BY <1>1, Zenon DEF Exact
  <2>2. CASE i = id
    <3>1. old = chain.bins[id]
      BY <2>1, <2>2, Zenon DEF BinOf, old
    <3>2. SaturatingSub(old.x, X) = old.x - X /\ SaturatingSub(old.y, Y) = old.y - Y
      <4>1. old.x \in Nat /\ old.y \in Nat
        BY <1>10
      <4>2. X <= old.x /\ Y <= old.y
        BY <3>1, <1>5
      <4>3. QED BY <4>1, <4>2, <1>11, SubType
    <3>3. left = chain'.bins[id]
      BY <3>1, <3>2, <1>7 DEF left
    <3>4. QED BY <3>3, <2>2, <1>14
  <2>3. CASE i # id
    BY <2>1, <2>3, <1>7, <1>14
  <2>4. QED BY <2>2, <2>3
<1>17. ~old_totals => /\ pair'.reserve_x = Total(chain'.bins, "x")
                      /\ pair'.reserve_y = Total(chain'.bins, "y")
  <2> SUFFICES ASSUME ~old_totals PROVE /\ pair'.reserve_x = Total(chain'.bins, "x")
                                        /\ pair'.reserve_y = Total(chain'.bins, "y")
    OBVIOUS
  <2>1. chain.bins \in [Ids -> Bin]
    BY <1>4
  <2>2. /\ Total(chain'.bins, "x") = Total(chain.bins, "x") + (chain'.bins[id].x - chain.bins[id].x)
        /\ Total(chain'.bins, "y") = Total(chain.bins, "y") + (chain'.bins[id].y - chain.bins[id].y)
    BY <2>1, <1>7, <1>8, TotalChanges
  <2>3. /\ Total(chain.bins, "x") \in Nat /\ chain.bins[id].x <= Total(chain.bins, "x") /\ chain.bins[id].x \in Nat
        /\ Total(chain.bins, "y") \in Nat /\ chain.bins[id].y <= Total(chain.bins, "y") /\ chain.bins[id].y \in Nat
    BY <2>1, TotalHolds
  <2>4. pair.reserve_x = Total(chain.bins, "x") /\ pair.reserve_y = Total(chain.bins, "y")
    BY <1>1 DEF Exact
  <2>5. chain'.bins[id].x - chain.bins[id].x = 0 - X /\ chain'.bins[id].y - chain.bins[id].y = 0 - Y
    BY <2>3, <1>7, <1>11
  <2>6. X <= Total(chain.bins, "x") /\ Y <= Total(chain.bins, "y")
    BY <2>3, <1>5, <1>11
  <2>7. r = pair.reserve_x - X /\ t = pair.reserve_y - Y
    BY <2>3, <2>4, <2>6, <1>11, SubType DEF r, t
  <2>8. QED BY <2>2, <2>3, <2>4, <2>5, <2>7, <1>11, <1>14
<1>18. CopyExact'
  BY <1>1, <1>3, <1>7, <1>14, <1>16, <1>17 DEF CopyExact, Exact
<1>19. QED BY <1>15, <1>18 DEF MoeInv

\* A copy that was just made, with or without its bins.
LEMMA InitCopies == ASSUME MoeInit PROVE MoeInv
<1> DEFINE blank == [active_id |-> 0, bins |-> [id \in {} |-> Empty], fee |-> 0,
                     reserve_x |-> 0, reserve_y |-> 0]
           basic == WithSlot0(blank, chain)
           none == [id \in {} |-> Empty]
           tx == Total(chain.bins, "x")
           ty == Total(chain.bins, "y")
<1>1. /\ chain = GenesisPair /\ changed = FALSE /\ pair_logs = 0 /\ old_totals = FALSE
      /\ \/ /\ pair = WithBins(basic, chain.bins)
            /\ stale = HeldBins(chain.bins) \ Window(chain.active_id)
         \/ /\ pair = basic
            /\ stale = HeldBins(chain.bins)
  BY Zenon DEF MoeInit
<1>2. ChainOK
  BY <1>1, MoeAssumption DEF ChainOK, Bin
<1>3. chain.active_id \in Ids /\ chain.fee \in Fees /\ chain.bins \in [Ids -> Bin]
  BY <1>2 DEF ChainOK
<1>4. tx \in Nat /\ ty \in Nat
  BY <1>3, TotalHolds
<1> HIDE DEF tx, ty
<1>5. basic = [active_id |-> chain.active_id, fee |-> chain.fee, bins |-> none,
               reserve_x |-> tx, reserve_y |-> ty]
  <2>1. blank.bins = none
    OBVIOUS
  <2> HIDE DEF blank, none
  <2>2. QED BY <2>1, Zenon DEF basic, WithSlot0, tx, ty
<1>6. none \in [DOMAIN none -> [x : Nat, y : Nat]] /\ DOMAIN none = {} /\ HeldBins(none) = {}
  BY DEF HeldBins
<1> HIDE DEF none, basic
<1>7. /\ CopyTypeOK(basic)
      /\ basic.active_id = chain.active_id /\ basic.fee = chain.fee /\ basic.bins = none
      /\ basic.reserve_x = tx /\ basic.reserve_y = ty
  <2>1. DOMAIN none \subseteq Ids /\ HeldBins(none) = DOMAIN none
    BY <1>6
  <2> HIDE DEF blank
  <2>2. none \in [DOMAIN none -> [x : Nat, y : Nat]]
    BY <1>6
  <2>3. QED BY <1>3, <1>4, <1>5, <2>1, <2>2, CopyFields
<1>8. CASE pair = basic /\ stale = HeldBins(chain.bins)
  <2>1. stale \subseteq Ids /\ \A id \in Ids \ stale : chain.bins[id] = Empty
    BY <1>3, <1>8 DEF HeldBins
  <2>2. MoeTypeOK
    <3>1. pair_logs \in 0..MaxPairLogs
      BY <1>1, MoeAssumption
    <3> changed \in BOOLEAN /\ old_totals \in BOOLEAN
      BY <1>1, Zenon
    <3>2. CopyTypeOK(pair)
      BY <1>7, <1>8, Zenon
    <3>3. QED BY <1>2, <2>1, <3>1, <3>2, Zenon DEF MoeTypeOK, ChainOK
  <2>3. CopyExact
    BY <1>6, <1>7, <1>8, <2>1, Zenon DEF CopyExact, tx, ty
  <2>4. QED BY <2>2, <2>3 DEF MoeInv
<1>9. CASE pair = WithBins(basic, chain.bins) /\ stale = HeldBins(chain.bins) \ Window(chain.active_id)
  <2> DEFINE read == Window(basic.active_id) \cap HeldBins(chain.bins)
  <2>1. /\ CopyTypeOK(pair) /\ pair.active_id = basic.active_id /\ pair.fee = basic.fee
        /\ pair.reserve_x = basic.reserve_x /\ pair.reserve_y = basic.reserve_y
        /\ DOMAIN pair.bins = read \cup DOMAIN basic.bins
        /\ \A id \in DOMAIN pair.bins :
              pair.bins[id] = IF id \in read THEN chain.bins[id] ELSE basic.bins[id]
    BY <1>2, <1>7, <1>9, ReadBins DEF read
  <2>2. read = HeldBins(chain.bins) \ stale /\ DOMAIN pair.bins = read /\ stale \subseteq Ids
    BY <1>3, <1>6, <1>7, <1>9, <2>1 DEF HeldBins
  <2> HIDE DEF read
  <2>3. \A id \in Ids \ stale : IF id \in DOMAIN pair.bins THEN pair.bins[id] = chain.bins[id]
                                                          ELSE chain.bins[id] = Empty
    BY <1>3, <2>1, <2>2 DEF HeldBins
  <2>4. MoeTypeOK
    <3>1. pair_logs \in 0..MaxPairLogs
      BY <1>1, MoeAssumption
    <3> changed \in BOOLEAN /\ old_totals \in BOOLEAN
      BY <1>1, Zenon
    <3>2. QED BY <1>2, <2>1, <2>2, <3>1, Zenon DEF MoeTypeOK, ChainOK
  <2>5. CopyExact
    BY <1>7, <2>1, <2>3, Zenon DEF CopyExact, tx, ty
  <2>6. QED BY <2>4, <2>5 DEF MoeInv
<1>10. QED BY <1>1, <1>8, <1>9

\* Every step keeps it.
LEMMA NextCopies == ASSUME MoeInv, [MoeNext]_moeVars PROVE MoeInv'
<1>1. CASE Swap
  BY <1>1, SwapKeepsCopy
<1>2. CASE Deposit
  BY <1>2, DepositKeepsCopy
<1>3. CASE Withdraw
  BY <1>3, WithdrawKeepsCopy
<1>4. CASE ResyncReads \/ ResyncFails
  BY <1>4, ResyncKeepsCopy
<1>5. CASE UNCHANGED moeVars
  BY <1>5 DEF moeVars, MoeInv, MoeTypeOK, CopyTypeOK, CopyExact
<1>6. QED BY <1>1, <1>2, <1>3, <1>4, <1>5 DEF MoeNext

\* So it always holds.
LEMMA MoeInvariant == MoeSpec => []MoeInv
<1>1. MoeInit => MoeInv
  BY InitCopies
<1>2. MoeInv /\ [MoeNext]_moeVars => MoeInv'
  BY NextCopies
<1>3. QED BY <1>1, <1>2, PTL DEF MoeSpec

\* Bins, totals and fee of the copy are the contract's but where a swap went since
\* they were read (sync, update_bins, resync_changed_pools).
THEOREM CopyAlwaysExact == MoeSpec => []CopyExact
<1>1. MoeInv => CopyExact
  BY DEF MoeInv
<1>2. QED BY <1>1, MoeInvariant, PTL

-----------------------------------------------------------------------------
(* What a reading reaches.                                                  *)

\* A quotient that is rounded up.
LEMMA CeilDivIs ==
    ASSUME NEW a \in Nat, NEW b \in Nat \ {0}
    PROVE  CeilDiv(a, b) \in Nat /\ a <= b * CeilDiv(a, b) /\ (a > 0 => CeilDiv(a, b) > 0)
<1> DEFINE q == (a + b - 1) \div b
<1>1. q \in Int /\ b * q <= a + b - 1 /\ a + b - 1 < b * q + b
  OBVIOUS
<1>2. q \in Nat
  OBVIOUS
<1>3. q = 0 => b * q = 0
  OBVIOUS
<1> HIDE DEF q
<1>4. b * q \in Int
  BY <1>1
<1>5. a <= b * q
  BY <1>1, <1>4
<1>6. a > 0 => q > 0
  BY <1>2, <1>3, <1>5
<1>7. QED BY <1>2, <1>5, <1>6 DEF q, CeilDiv

\* The batches cover the radius: an id within it is in the batch its distance
\* from the lower end falls into, or at the upper end in the last one.
LEMMA WindowCovers ==
    ASSUME NEW active \in Nat, NEW id \in Nat, id - active \in -BINS_RADIUS..BINS_RADIUS
    PROVE  id \in Window(active)
<1> DEFINE R == BINS_RADIUS
           B == BINS_BATCH_SIZE
           K == CeilDiv(2 * R, B)
           d == id - active + R
           q == d \div B
           k == IF q < K THEN q ELSE K - 1
           c == active + k * B - R + B
<1>1. R \in Nat \ {0} /\ B \in Nat \ {0} /\ d \in 0..2 * R
  BY MoeAssumption
<1>2. K \in Nat /\ 2 * R <= B * K /\ K > 0
  <2>1. 2 * R \in Nat /\ 2 * R > 0
    BY <1>1
  <2>2. QED BY <1>1, <2>1, CeilDivIs
<1>3. q \in Nat /\ B * q <= d /\ d < B * q + B
  <2>1. d \in Nat
    BY <1>1
  <2> HIDE DEF d
  <2>2. QED BY <1>1, <2>1
<1> HIDE DEF K, q, d
<1>4. k \in 0..K - 1 /\ k \in Nat /\ k * B \in Nat
  <2>1. k \in Nat /\ k \in 0..K - 1
    BY <1>2, <1>3
  <2> HIDE DEF k
  <2>2. QED BY <1>1, <2>1
<1>5. k * B <= d /\ d <= k * B + 2 * B
  <2>1. CASE q < K
    <3>1. k * B = B * q /\ B * q \in Nat
      BY <2>1, <1>1, <1>3
    <3> HIDE DEF k
    <3>2. QED BY <3>1, <1>1, <1>3
  <2>2. CASE ~(q < K)
    <3>1. k = K - 1 /\ K <= q
      BY <2>2, <1>2, <1>3
    <3>2. k * B = B * K - B /\ B * K \in Nat
      BY <3>1, <1>1, <1>2
    <3> HIDE DEF k
    <3>3. d <= B * K
      BY <3>2, <1>1, <1>2
    <3>4. B * K <= B * q
      BY <3>1, <1>1, <1>2, <1>3
    <3>5. B * q \in Nat /\ d \in Nat
      BY <1>1, <1>3
    <3>6. QED BY <3>2, <3>3, <3>4, <3>5, <1>1, <1>3
  <2>3. QED BY <2>1, <2>2
<1> HIDE DEF k
<1>6. c \in Int /\ c - B <= id /\ id <= c + B
  BY <1>1, <1>4, <1>5 DEF d
<1> HIDE DEF c
<1>7. Center(active, k) = IF c >= 0 THEN c ELSE 0
  <2>1. Saturated(c) = IF c >= 0 THEN c ELSE 0
    BY <1>6, SaturatedIs
  <2>2. QED BY <2>1, Zenon DEF Center, c
<1>8. id \in Batch(Center(active, k))
  <2> DEFINE e == Center(active, k)
  <2>1. e \in Nat /\ id <= e + B
    BY <1>1, <1>6, <1>7
  <2>2. e - B <= id
    BY <1>1, <1>6, <1>7
  <2> HIDE DEF e
  <2>3. Saturated(e - B) = IF e - B >= 0 THEN e - B ELSE 0
    BY <1>1, <2>1, SaturatedIs
  <2>4. QED BY <1>1, <2>1, <2>2, <2>3 DEF Batch, e
<1>9. QED BY <1>4, <1>8, Zenon DEF Window, K

\* A reading reaches every bin within the radius of the active one, and shows it as
\* the contract holds it.
THEOREM ReadingsReach == MoeSpec => ReadingReaches
<1>1. ASSUME MoeInv, [MoeNext]_moeVars, ResyncReads, NEW id \in HeldBins(chain.bins), Near(id)
      PROVE  id \in DOMAIN pair'.bins /\ pair'.bins[id] = chain.bins[id]
  <2>1. MoeTypeOK /\ ChainOK /\ CopyTypeOK(pair) /\ pair.active_id = chain.active_id
    BY <1>1 DEF MoeInv, MoeTypeOK, ChainOK, CopyExact
  <2>2. PICK slot0 \in BOOLEAN :
          pair' = WithBins(IF slot0 THEN WithSlot0(pair, chain) ELSE pair, chain.bins)
    BY <1>1, Zenon DEF ResyncReads
  <2> DEFINE p == IF slot0 THEN WithSlot0(pair, chain) ELSE pair
  <2>3. CopyTypeOK(p) /\ p.active_id = chain.active_id
    <3>1. CASE slot0
      BY <3>1, <2>1, ReadSlot0, Zenon
    <3>2. CASE ~slot0
      BY <3>2, <2>1, Zenon
    <3>3. QED BY <3>1, <3>2
  <2>4. pair' = WithBins(p, chain.bins)
    BY <2>2
  <2> HIDE DEF p
  <2> DEFINE read == Window(p.active_id) \cap HeldBins(chain.bins)
  <2>5. /\ DOMAIN pair'.bins = read \cup DOMAIN p.bins
        /\ \A i \in DOMAIN pair'.bins : pair'.bins[i] = IF i \in read THEN chain.bins[i] ELSE p.bins[i]
    BY <2>1, <2>3, <2>4, ReadBins DEF read
  <2>6. id \in read
    <3>1. id \in Nat /\ chain.active_id \in Nat
      BY <2>1, MoeAssumption DEF ChainOK, HeldBins
    <3>2. id \in Window(chain.active_id)
      BY <1>1, <3>1, WindowCovers DEF Near
    <3>3. QED BY <1>1, <2>3, <3>2
  <2> HIDE DEF read
  <2>7. QED BY <2>5, <2>6
<1> DEFINE Reaches == ResyncReads => \A id \in HeldBins(chain.bins) :
                         Near(id) => id \in DOMAIN pair'.bins
                                     /\ pair'.bins[id] = chain.bins[id]
<1>2. MoeInv /\ [MoeNext]_moeVars => [Reaches]_moeVars
  BY <1>1, Zenon
<1>3. QED BY <1>2, MoeInvariant, PTL DEF MoeSpec, ReadingReaches

-----------------------------------------------------------------------------
(* What a quote is.                                                         *)

\* A share of an amount, rounded up, is at most the amount.
LEMMA FeeFromIs ==
    ASSUME NEW g \in Nat, NEW fee \in Fees
    PROVE  FeeAmountFrom(g, fee) \in Nat /\ FeeAmountFrom(g, fee) <= g
<1>1. Precision \in Nat /\ fee \in Nat /\ fee < Precision /\ Precision > 0
  BY MoeAssumption
<1> DEFINE a == g * fee
           q == (a + Precision - 1) \div Precision
<1>2. a \in Nat /\ a <= g * Precision /\ g * Precision \in Nat
  <2>1. g * fee \in Nat /\ g * Precision \in Nat
    BY <1>1
  <2>2. PICK e \in Nat : Precision = fee + e
    <3>1. Precision - fee \in Nat /\ Precision = fee + (Precision - fee)
      BY <1>1
    <3>2. QED BY <3>1
  <2>3. g * Precision = g * fee + g * e /\ g * e \in Nat
    BY <1>1, <2>2
  <2>4. QED BY <2>1, <2>3
<1> HIDE DEF a
<1>3. q \in Nat /\ Precision * q <= a + Precision - 1
  BY <1>1, <1>2
<1> HIDE DEF q
<1>4. q <= g
  <2>1. q >= g + 1 => Precision * q >= Precision * g + Precision
    BY <1>1, <1>3
  <2>2. Precision * q \in Nat /\ Precision * g = g * Precision
    BY <1>1, <1>3
  <2>3. q >= g + 1 \/ q <= g
    BY <1>3
  <2>4. QED BY <1>1, <1>2, <1>3, <2>1, <2>2, <2>3
<1>5. QED BY <1>3, <1>4 DEF q, a, FeeAmountFrom, CeilDiv

\* What a side is worth and what an input buys: nothing for nothing only.
LEMMA WorthIs ==
    ASSUME NEW id \in Ids, NEW swap_for_y \in BOOLEAN, NEW r \in Nat
    PROVE  /\ Worth(id, swap_for_y, r) \in Nat /\ (r > 0 => Worth(id, swap_for_y, r) > 0)
           /\ Buys(id, swap_for_y, r) \in Nat /\ (r = 0 => Buys(id, swap_for_y, r) = 0)
<1>1. PICK c \in Nat \ {0} : c = BinPrice[id]
  BY MoeAssumption
<1>2. CeilDiv(r, c) \in Nat /\ (r > 0 => CeilDiv(r, c) > 0)
  BY <1>1, CeilDivIs
<1>3. r * c \in Nat /\ (r > 0 => r * c > 0) /\ (r = 0 => r * c = 0)
  <2>1. r * c \in Nat /\ (r = 0 => r * c = 0)
    BY <1>1
  <2>2. r > 0 => r * c > 0
    <3>1. PICK d \in Nat : c = d + 1
      <4>1. c - 1 \in Nat /\ c = (c - 1) + 1
        BY <1>1
      <4>2. QED BY <4>1
    <3>2. r * c = r * d + r /\ r * d \in Nat
      BY <3>1
    <3>3. QED BY <3>2
  <2>3. QED BY <2>1, <2>2
<1>4. r \div c \in Nat /\ (r = 0 => r \div c = 0)
  BY <1>1
<1>5. /\ Worth(id, swap_for_y, r) = IF swap_for_y THEN CeilDiv(r, c) ELSE r * c
      /\ Buys(id, swap_for_y, r) = IF swap_for_y THEN r * c ELSE r \div c
  BY <1>1, Zenon DEF Worth, Buys
<1>6. CASE swap_for_y
  BY <1>2, <1>3, <1>5, <1>6
<1>7. CASE ~swap_for_y
  BY <1>3, <1>4, <1>5, <1>7
<1>8. QED BY <1>6, <1>7

\* Emptying a side that holds something costs something.
LEMMA DrainIs ==
    ASSUME NEW id \in Ids, NEW swap_for_y \in BOOLEAN, NEW r \in Nat, NEW fee \in Fees
    PROVE  /\ Drain(id, swap_for_y, r, fee) \in Nat
           /\ r > 0 => Drain(id, swap_for_y, r, fee) > 0
<1> DEFINE v == Worth(id, swap_for_y, r)
<1>1. Precision - fee \in Nat \ {0} /\ fee \in Nat
  BY MoeAssumption
<1>2. v \in Nat /\ (r > 0 => v > 0)
  BY WorthIs, Zenon
<1> HIDE DEF v
<1>3. v * fee \in Nat
  BY <1>1, <1>2
<1>4. CeilDiv(v * fee, Precision - fee) \in Nat
  BY <1>1, <1>3, CeilDivIs
<1>5. QED BY <1>2, <1>4 DEF Drain, FeeAmount, v

\* A bin pays at most what it has.
LEMMA PaysAtMost ==
    ASSUME NEW id \in Ids, NEW swap_for_y \in BOOLEAN, NEW r \in Nat, NEW fee \in Fees,
           NEW amount \in Nat
    PROVE  LET s == GetAmounts(id, swap_for_y, r, fee, amount)
           IN  /\ s.out \in 0..r /\ s.in \in Nat
               /\ amount = 0 /\ r > 0 => s.out = 0
<1> DEFINE left == amount - FeeAmountFrom(amount, fee)
           bought == Buys(id, swap_for_y, left)
           D == Drain(id, swap_for_y, r, fee)
           s == GetAmounts(id, swap_for_y, r, fee, amount)
<1>1. left \in Nat /\ (amount = 0 => left = 0)
  BY FeeFromIs
<1> HIDE DEF left
<1>2. bought \in Nat /\ (amount = 0 => bought = 0)
  BY <1>1, WorthIs, Zenon
<1>3. D \in Nat /\ (r > 0 => D > 0)
  BY DrainIs
<1>4. s = IF amount >= D THEN [in |-> D, out |-> r]
                         ELSE [in |-> amount, out |-> Min({r, bought})]
  BY Zenon DEF GetAmounts, left
<1> HIDE DEF bought, D, s
<1>5. Min({r, bought}) = IF r <= bought THEN r ELSE bought
  BY <1>2, MinTwo
<1>6. CASE amount >= D
  <2>1. s = [in |-> D, out |-> r]
    BY <1>4, <1>6
  <2>2. s.in = D /\ s.out = r
    BY <2>1
  <2>3. s.out \in 0..r /\ s.in \in Nat /\ (amount = 0 /\ r > 0 => s.out = 0)
    BY <2>2, <1>3, <1>6
  <2>4. QED BY <2>3 DEF s
<1>7. CASE ~(amount >= D)
  <2>1. s = [in |-> amount, out |-> Min({r, bought})]
    BY <1>4, <1>7
  <2>2. s.in = amount /\ s.out = Min({r, bought})
    BY <2>1
  <2>3. s.out \in 0..r /\ s.in \in Nat /\ (amount = 0 /\ r > 0 => s.out = 0)
    BY <2>2, <1>2, <1>5
  <2>4. QED BY <2>3 DEF s
<1>8. QED BY <1>6, <1>7

\* The loop begins in the active bin and comes to it once.
LEMMA PassedIs ==
    ASSUME NEW p, p.active_id \in Nat, NEW swap_for_y \in BOOLEAN
    PROVE  LET ids == Passed(p, swap_for_y)
           IN  /\ Len(ids) \in Nat \ {0} /\ ids[1] = p.active_id
               /\ \A k \in 2..Len(ids) : ids[k] # p.active_id
<1> DEFINE a == p.active_id
           n == Min({MAX_ITERATIONS, a + 1})
           ids == Passed(p, swap_for_y)
<1>1. MAX_ITERATIONS \in Nat \ {0}
  BY MoeAssumption
<1>2. n \in Nat \ {0}
  <2>1. n = IF MAX_ITERATIONS <= a + 1 THEN MAX_ITERATIONS ELSE a + 1
    BY <1>1, MinTwo
  <2>2. QED BY <1>1, <2>1
<1> HIDE DEF n
<1>3. CASE swap_for_y
  <2>1. ids = [k \in 1..n |-> a - k + 1]
    BY <1>3, Zenon DEF Passed, n
  <2> HIDE DEF ids
  <2>2. Len(ids) = n
    BY <1>2, <2>1
  <2>3. QED BY <1>2, <2>1, <2>2 DEF ids
<1>4. CASE ~swap_for_y
  <2>1. ids = [k \in 1..MAX_ITERATIONS |-> a + k - 1]
    BY <1>4, Zenon DEF Passed
  <2> HIDE DEF ids
  <2>2. Len(ids) = MAX_ITERATIONS
    BY <1>1, <2>1
  <2>3. QED BY <1>1, <2>1, <2>2 DEF ids
<1>5. QED BY <1>3, <1>4

LoopStart(p, swap_for_y, amount) ==
    [left |-> amount, out |-> 0, reserve |-> p[TotalOf[Out(swap_for_y)]],
     failed |-> FALSE, over |-> FALSE]

\* A loop whose bins but the active one hold one token at most does what its first
\* turn does.
LEMMA LoopIsFirstTurn ==
    ASSUME NEW p, p.active_id \in Nat, NEW swap_for_y \in BOOLEAN, NEW amount,
           \A id \in DOMAIN p.bins : id # p.active_id => p.bins[id].x = 0 \/ p.bins[id].y = 0
    PROVE  BinLoop(p, swap_for_y, amount) =
             PassBin(p, swap_for_y, LoopStart(p, swap_for_y, amount), p.active_id)
<1> DEFINE ids == Passed(p, swap_for_y)
           n == Len(ids)
           start == LoopStart(p, swap_for_y, amount)
           first == PassBin(p, swap_for_y, start, p.active_id)
           Turns(w) == w = [k \in 0..n |-> IF k = 0 THEN start
                                           ELSE PassBin(p, swap_for_y, w[k - 1], ids[k])]
           v == [k \in 0..n |-> IF k = 0 THEN start ELSE first]
<1>1. n \in Nat \ {0} /\ ids[1] = p.active_id /\ \A k \in 2..n : ids[k] # p.active_id
  BY PassedIs
<1>2. \A w, id : id # p.active_id => PassBin(p, swap_for_y, w, id) = w
  <2> TAKE w, id
  <2> HAVE id # p.active_id
  <2>1. id \notin DOMAIN p.bins \/ p.bins[id].x = 0 \/ p.bins[id].y = 0
    OBVIOUS
  <2>2. QED BY <2>1, Zenon DEF PassBin
<1>3. BinLoop(p, swap_for_y, amount) = (CHOOSE w : Turns(w))[n]
  BY Zenon DEF BinLoop, LoopStart
<1> HIDE DEF ids, n, start
<1>4. Turns(v)
  <2>1. ASSUME NEW k \in 0..n
        PROVE  v[k] = IF k = 0 THEN start ELSE PassBin(p, swap_for_y, v[k - 1], ids[k])
    <3>1. CASE k = 0
      BY <3>1
    <3>2. CASE k = 1
      <4>1. v[1] = first /\ v[0] = start /\ k - 1 = 0
        BY <1>1, <3>2
      <4> HIDE DEF v
      <4>2. QED BY <4>1, <3>2, <1>1
    <3>3. CASE k \in 2..n
      <4>1. v[k] = first /\ v[k - 1] = first /\ ids[k] # p.active_id /\ k # 0
        BY <1>1, <3>3
      <4> HIDE DEF v, first
      <4>2. QED BY <4>1, <1>2, Zenon
    <3>4. k = 0 \/ k = 1 \/ k \in 2..n
      OBVIOUS
    <3>5. QED BY <3>1, <3>2, <3>3, <3>4
  <2>2. v = [k \in 0..n |-> v[k]]
    OBVIOUS
  <2> HIDE DEF v, first
  <2>3. QED BY <2>1, <2>2
<1>5. ASSUME NEW w, Turns(w) PROVE w[n] = first
  <2> DEFINE S == {k \in 0..n - 1 : w[k + 1] = first}
  <2>1. 0 \in S
    <3>1. w[0] = start /\ w[1] = PassBin(p, swap_for_y, w[0], ids[1])
      <4>1. 0 \in 0..n /\ 1 \in 0..n /\ 1 - 1 = 0
        BY <1>1
      <4>2. QED BY <1>5, <4>1
    <3> HIDE DEF first
    <3>2. 0 \in 0..n - 1 /\ 0 + 1 = 1
      BY <1>1
    <3>3. QED BY <3>1, <3>2, <1>1 DEF first
  <2>2. ASSUME NEW k \in 0..(n - 1) - 1, k \in S PROVE k + 1 \in S
    <3>1. /\ (k + 1) + 1 \in 0..n /\ (k + 1) + 1 # 0 /\ ((k + 1) + 1) - 1 = k + 1 /\ k + 1 \in 0..n - 1
          /\ (k + 1) + 1 \in 2..n
      BY <1>1
    <3>2. w[(k + 1) + 1] = PassBin(p, swap_for_y, w[k + 1], ids[(k + 1) + 1])
      BY <1>5, <3>1
    <3>3. w[(k + 1) + 1] = w[k + 1]
      BY <3>1, <3>2, <1>1, <1>2
    <3>4. QED BY <2>2, <3>1, <3>3
  <2>3. n - 1 \in Nat /\ n - 1 \in 0..n - 1 /\ (n - 1) + 1 = n
    BY <1>1
  <2>4. \A k \in 0..n - 1 : k \in S
    <3> HIDE DEF S
    <3>1. QED BY <2>1, <2>2, <2>3, UpTo
  <2>5. QED BY <2>3, <2>4
<1> HIDE DEF v, first
<1>6. Turns(CHOOSE w : Turns(w))
  BY <1>4
<1>7. QED BY <1>3, <1>5, <1>6 DEF first, start

\* The two sides and their totals.
LEMMA SidesAre ==
    ASSUME NEW swap_for_y \in BOOLEAN
    PROVE  /\ Out(swap_for_y) \in {"x", "y"} /\ In(swap_for_y) \in {"x", "y"}
           /\ TotalOf["x"] = "reserve_x" /\ TotalOf["y"] = "reserve_y"
<1>1. Out(swap_for_y) \in {"x", "y"} /\ In(swap_for_y) \in {"x", "y"}
  BY DEF In, Out
<1>2. TotalOf["x"] = "reserve_x" /\ TotalOf["y"] = "reserve_y"
  BY DEF TotalOf
<1>3. QED BY <1>1, <1>2

\* What the loop has before its first turn, and after a turn in a bin that pays.
FirstOf(amount, held) ==
    [left |-> amount, out |-> 0, reserve |-> held, failed |-> FALSE, over |-> FALSE]
Paid(w, rest, paid, end) ==
    [w EXCEPT !.left = rest, !.out = @ + paid, !.reserve = @ - paid, !.over = end]
AfterPaying(w, held, paid) == w.out = paid /\ w.reserve = held - paid /\ w.failed = FALSE

\* One turn, in a bin that pays.
LEMMA TurnPays ==
    ASSUME NEW amount, NEW held \in Nat, NEW paid \in Nat, NEW rest, NEW end
    PROVE  AfterPaying(Paid(FirstOf(amount, held), rest, paid, end), held, paid)
<1> DEFINE w == Paid(FirstOf(amount, held), rest, paid, end)
<1>1. w.out = 0 + paid /\ w.reserve = held - paid /\ w.failed = FALSE
  BY DEF Paid, FirstOf
<1>2. QED BY <1>1 DEF AfterPaying

\* A quote from a copy that is exact is what the active bin alone pays, or nothing.
LEMMA QuoteIs ==
    ASSUME MoeInv, chain.active_id \notin stale, ~old_totals, OnlyActiveHoldsBoth,
           DOMAIN pair.bins # {}, NEW swap_for_y \in BOOLEAN, NEW amount \in 0..MaxQuoted
    PROVE  LET paid == ActivePays(swap_for_y, amount)
               held == Total(chain.bins, Out(swap_for_y))
           IN  Quote(pair, swap_for_y, amount) =
                 IF \/ 2 * paid > held \/ Unrealistic(amount, paid)
                    \/ Total(chain.bins, In(swap_for_y)) = 0
                   THEN 0 ELSE paid
<1> DEFINE a == chain.active_id
           bin == chain.bins[a]
           side == Out(swap_for_y)
           g == GetAmounts(a, swap_for_y, bin[side], chain.fee, amount)
           held == Total(chain.bins, side)
           got == Total(chain.bins, In(swap_for_y))
           paid == ActivePays(swap_for_y, amount)
           start == LoopStart(pair, swap_for_y, amount)
           first == PassBin(pair, swap_for_y, start, a)
<1>1. /\ a \in Ids /\ chain.fee \in Fees /\ chain.bins \in [Ids -> Bin]
      /\ pair.active_id = a /\ pair.fee = chain.fee
      /\ pair.reserve_x = Total(chain.bins, "x") /\ pair.reserve_y = Total(chain.bins, "y")
      /\ IF a \in DOMAIN pair.bins THEN pair.bins[a] = bin ELSE bin = Empty
  BY DEF MoeInv, MoeTypeOK, CopyExact
<1>2. a \in Nat /\ amount \in Nat
  <2>1. amount \in Nat
    BY MoeAssumption
  <2>2. a \in Nat
    <3> HIDE DEF a
    <3>1. QED BY <1>1, MoeAssumption
  <2>3. QED BY <2>1, <2>2
<1>3. side \in {"x", "y"} /\ In(swap_for_y) \in {"x", "y"}
  BY SidesAre
<1>4. pair[TotalOf[side]] = held
  BY <1>1, <1>3, SidesAre
<1>5. /\ Total(chain.bins, "x") \in Nat /\ bin.x \in Nat /\ bin.x <= Total(chain.bins, "x")
      /\ Total(chain.bins, "y") \in Nat /\ bin.y \in Nat /\ bin.y <= Total(chain.bins, "y")
  BY <1>1, TotalHolds
<1>6. held \in Nat /\ got \in Nat /\ bin[side] \in Nat /\ bin[side] <= held
  BY <1>3, <1>5
<1>7. g.out \in 0..bin[side] /\ (amount = 0 /\ bin[side] > 0 => g.out = 0)
  BY <1>1, <1>2, <1>6, PaysAtMost
<1>8. BinLoop(pair, swap_for_y, amount) = first
  <2>1. \A id \in DOMAIN pair.bins : id # pair.active_id => pair.bins[id].x = 0 \/ pair.bins[id].y = 0
    BY <1>1 DEF OnlyActiveHoldsBoth
  <2>2. QED BY <1>1, <1>2, <2>1, LoopIsFirstTurn
<1>9. Quote(pair, swap_for_y, amount) =
        IF amount = 0 \/ pair.reserve_x = 0 \/ pair.reserve_y = 0 THEN 0
        ELSE IF first.failed THEN -1
        ELSE IF first.out > first.reserve \/ Unrealistic(amount, first.out) THEN 0
        ELSE first.out
  BY <1>8, Zenon DEF Quote, AcrossBins
<1>10. paid = IF bin.x = 0 \/ bin.y = 0 THEN 0 ELSE g.out
  BY Zenon DEF ActivePays
<1>11. CASE bin.x = 0 \/ bin.y = 0 \/ g.out = 0
  <2>1. paid = 0
    BY <1>10, <1>11
  <2>2. first = start
    <3>1. CASE a \notin DOMAIN pair.bins
      BY <3>1, Zenon DEF PassBin
    <3>2. CASE a \in DOMAIN pair.bins
      <4>1. pair.bins[a] = bin /\ pair.fee = chain.fee /\ start.left = amount
        BY <3>2, <1>1 DEF LoopStart
      <4> HIDE DEF start
      <4>2. QED BY <4>1, <1>11, Zenon DEF PassBin
    <3>3. QED BY <3>1, <3>2
  <2>3. start.failed = FALSE /\ start.out = 0 /\ start.reserve = held
    BY <1>4 DEF LoopStart
  <2> HIDE DEF first, start
  <2>4. Quote(pair, swap_for_y, amount) = 0
    BY <1>6, <1>9, <2>2, <2>3
  <2>5. QED BY <2>1, <2>4
<1>12. CASE ~(bin.x = 0 \/ bin.y = 0 \/ g.out = 0)
  <2>1. a \in DOMAIN pair.bins /\ pair.bins[a] = bin
    BY <1>1, <1>12 DEF Empty
  <2>2. g.out \in Nat /\ g.out <= held
    BY <1>6, <1>7
  <2>3. first.out = g.out /\ first.reserve = held - g.out /\ first.failed = FALSE
    <3>1. g = GetAmounts(a, swap_for_y, pair.bins[a][Out(swap_for_y)], pair.fee, amount)
      BY <1>1, <2>1
    <3>2. start = FirstOf(amount, held)
      BY <1>4, Zenon DEF LoopStart, FirstOf
    <3>3. start.left = amount /\ start.reserve = held /\ start.over = FALSE
      BY <3>2 DEF FirstOf
    <3>4. pair.bins[a].x # 0 /\ pair.bins[a].y # 0 /\ g.out # 0 /\ ~(g.out > held)
      BY <1>6, <1>12, <2>1, <2>2
    <3> DEFINE rest == Saturated(start.left - g.in)
               end == g.in >= start.left \/ g.out < pair.bins[a][side]
    <3> HIDE DEF g, held, start, a
    <3>5. first = Paid(start, rest, g.out, end)
      BY <2>1, <3>1, <3>3, <3>4, Zenon DEF PassBin, Paid
    <3> HIDE DEF rest, end, first
    <3>6. AfterPaying(Paid(FirstOf(amount, held), rest, g.out, end), held, g.out)
      BY <1>6, <2>2, TurnPays
    <3>7. AfterPaying(first, held, g.out)
      BY <3>2, <3>5, <3>6, Zenon
    <3>8. QED BY <3>7 DEF AfterPaying
  <2>4. amount # 0
    <3>1. bin[side] # 0
      BY <1>3, <1>12
    <3>2. QED BY <3>1, <1>6, <1>7, <1>12
  <2>5. pair.reserve_x # 0 /\ pair.reserve_y # 0 /\ got # 0
    BY <1>1, <1>3, <1>5, <1>12
  <2>6. paid = g.out
    BY <1>10, <1>12
  <2> HIDE DEF first, paid, g, held, got
  <2>7. Quote(pair, swap_for_y, amount) =
          IF g.out > held - g.out \/ Unrealistic(amount, g.out) THEN 0 ELSE g.out
    BY <1>9, <2>3, <2>4, <2>5, Zenon
  <2>8. g.out > held - g.out <=> 2 * g.out > held
    BY <1>6, <2>2
  <2>9. QED BY <2>5, <2>6, <2>7, <2>8 DEF got, held, paid
<1>13. QED BY <1>11, <1>12

\* A quote never goes beyond the active bin, and is that bin's payment or nothing
\* (simulate_swap_precise, simulate_swap_across_bins).
THEOREM QuotesActiveBin == MoeSpec => []QuoteIsOfActiveBin
<1>1. MoeInv => QuoteIsOfActiveBin
  BY QuoteIs, Zenon DEF QuoteIsOfActiveBin
<1>2. QED BY <1>1, MoeInvariant, PTL
=============================================================================
