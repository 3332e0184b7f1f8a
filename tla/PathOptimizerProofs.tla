------------------------ MODULE PathOptimizerProofs ------------------------
(***************************************************************************)
(* Proofs about PathOptimizer, for every path of pools, every interval and  *)
(* every number of iterations: what the bisection keeps pays, and when the  *)
(* inputs that pay are those up to some k, it ends at k.  And about the     *)
(* SwapExecutor that swaps it, for any pools, moves of others and failures: *)
(* what can be lost, and what the steps bring when nobody disturbs them.    *)
(* And about the PathFinder the paths come from, for every graph of pools:  *)
(* that it finds every cycle, and one pair for every three tokens.          *)
(***************************************************************************)
EXTENDS SwapExecutor, PathFinder, FiniteSetTheorems, SequenceTheorems, CommonFacts, TLAPS

\* The largest input is a number.
LEMMA InitialIs == Initial \in Nat
BY OptimizerAssumption DEF Initial, Amounts

\* The middle lies in the interval, or is its upper end when it is empty.
LEMMA MidBounds ==
    ASSUME TypeOK
    PROVE  /\ mid \in Nat
           /\ mid <= high
           /\ low <= high => low <= mid
           /\ low > high => mid = low - 1
BY InitialIs DEF TypeOK, mid

\* path does not change, so neither does what it pays.
LEMMA SamePath ==
    ASSUME path' = path
    PROVE  /\ \A k \in 0..Initial : PaysUpTo(k)' <=> PaysUpTo(k)
           /\ \A a \in 0..Initial : Pays(a)' <=> Pays(a)
<1>1. \A a : Output(a)' = Output(a)
  BY DEF Output, After
<1>2. \A a : (Pays(a)' <=> Pays(a)) /\ (Fails(a)' <=> Fails(a))
  BY <1>1 DEF Pays, Fails, SimulatesNone
<1>3. QED BY <1>2 DEF PaysUpTo

IInv == TypeOK /\ SearchInv

\* The search starts in its invariant.
LEMMA InitIInv == Init => IInv
<1> SUFFICES ASSUME Init PROVE IInv
  OBVIOUS
<1>1. TypeOK
  BY InitialIs, OptimizerAssumption DEF Init, TypeOK
<1>2. low = 0 /\ high = Initial /\ best_result = None
  BY DEF Init
<1>3. BestPays
  BY <1>2 DEF BestPays
<1>4. Bracket
  BY <1>2, InitialIs DEF Bracket
<1>5. QED BY <1>1, <1>3, <1>4 DEF IInv, SearchInv

\* The upper half: mid pays, and is what low is now ahead of.
LEMMA UpStep ==
    ASSUME IInv, path' = path, SearchUp, Pays(mid)
    PROVE  /\ low' \in 0..Initial + 1 /\ low' <= high' + 1 /\ best_result' \in 0..Initial
           /\ SearchInv'
<1>1. /\ mid \in 0..Initial /\ mid <= high /\ high \in 0..Initial
      /\ low <= high => low <= mid
  BY MidBounds, InitialIs DEF IInv, TypeOK
<1>2. low' = mid + 1 /\ best_result' = mid /\ high' = high
  BY DEF SearchUp
<1>3. BestPays'
  BY <1>1, <1>2, SamePath, InitialIs DEF BestPays
<1>4. ASSUME NEW k \in 0..Initial, PaysUpTo(k)
      PROVE  mid + 1 <= k + 1 /\ (k <= high \/ (k = 1 /\ high = 0))
  BY <1>1, <1>4, InitialIs DEF PaysUpTo, IInv, SearchInv, Bracket
<1>5. Bracket'
  BY <1>2, <1>4, SamePath DEF Bracket, Initial
<1>6. QED BY <1>1, <1>2, <1>3, <1>5, InitialIs DEF SearchInv

\* The lower half.  An empty interval is not left this way: mid is then what
\* is kept, which pays.
LEMMA DownStep ==
    ASSUME IInv, path' = path, SearchDown, ~Pays(mid)
    PROVE  /\ high' \in 0..Initial /\ low' <= high' + 1
           /\ SearchInv'
<1>1. /\ mid \in 0..Initial /\ mid <= high /\ high \in 0..Initial /\ low \in Nat
      /\ low <= high => low <= mid
      /\ low > high => mid = low - 1
  BY MidBounds, InitialIs DEF IInv, TypeOK
<1>2. /\ low' = low /\ best_result' = best_result
      /\ high' = IF mid = 0 THEN 0 ELSE mid - 1
  BY DEF SearchDown
<1>3. low <= high
  BY <1>1 DEF IInv, SearchInv, BestPays
<1>4. low > 0 => best_result \in 0..Initial
  BY <1>1, InitialIs DEF IInv, TypeOK, SearchInv, BestPays, None
<1>5. BestPays'
  BY <1>2, <1>4, SamePath DEF IInv, SearchInv, BestPays
<1>6. ASSUME NEW k \in 0..Initial, PaysUpTo(k)
      PROVE  low <= k + 1 /\ (k <= high' \/ (k = 1 /\ high' = 0))
  <2>1. low <= k + 1 /\ (k <= high \/ (k = 1 /\ high = 0))
    BY <1>6 DEF IInv, SearchInv, Bracket
  <2>2. ~(mid \in 1..k)
    BY <1>1, <1>6 DEF PaysUpTo
  <2>3. mid = 0 => high <= 1
    BY <1>1, <1>3 DEF mid
  <2>4. QED BY <1>1, <1>2, <2>1, <2>2, <2>3, InitialIs
<1>7. Bracket'
  BY <1>2, <1>6, SamePath DEF Bracket, Initial
<1>8. QED BY <1>1, <1>2, <1>3, <1>5, <1>7, InitialIs DEF SearchInv

\* Every iteration of the search keeps its invariant.
LEMMA StepIInv ==
    ASSUME IInv, [Next]_vars
    PROVE  IInv'
<1>1. CASE Iterate
  <2>1. path' = path
    BY <1>1 DEF Iterate
  <2>2. CASE Pays(mid)
    <3>1. SearchUp
      BY <1>1, <2>2 DEF Iterate
    <3>2. QED BY <1>1, <2>1, <2>2, <3>1, UpStep, OptimizerAssumption
          DEF Iterate, SearchUp, IInv, TypeOK, Initial
  <2>3. CASE ~Pays(mid)
    <3>1. SearchDown
      BY <1>1, <2>3 DEF Iterate
    <3>2. QED BY <1>1, <2>1, <2>3, <3>1, DownStep, OptimizerAssumption
          DEF Iterate, SearchDown, IInv, TypeOK, Initial
  <2>4. QED BY <2>2, <2>3
<1>2. CASE IterateFails \/ Return \/ UNCHANGED vars
  <2>1. UNCHANGED <<path, iteration, low, high, best_result>>
    BY <1>2 DEF IterateFails, Return, vars
  <2>2. TypeOK'
    BY <1>2, <2>1 DEF IterateFails, Return, vars, IInv, TypeOK, Initial
  <2>3. BestPays'
    <3>1. best_result = None \/ best_result \in 0..Initial
      BY DEF IInv, TypeOK
    <3>2. low > 0 => best_result # None
      BY InitialIs DEF IInv, TypeOK, SearchInv, BestPays, None
    <3>3. QED BY <2>1, <3>1, <3>2, SamePath DEF IInv, SearchInv, BestPays
  <2>4. Bracket'
    BY <2>1, SamePath DEF IInv, SearchInv, Bracket, Initial
  <2>5. QED BY <2>2, <2>3, <2>4 DEF IInv, SearchInv
<1>3. QED BY <1>1, <1>2 DEF Next

\* The types of the search, and its interval is empty at most by one.
THEOREM TypeCorrect == Spec => []TypeOK
<1>1. IInv => TypeOK
  BY DEF IInv
<1>2. QED BY <1>1, InitIInv, StepIInv, PTL DEF Spec

\* optimize keeps only what pays, and never steps over the last of the inputs
\* that pay if those are the inputs up to some k.
THEOREM SearchCorrect == Spec => []SearchInv
<1>1. IInv => SearchInv
  BY DEF IInv
<1>2. QED BY <1>1, InitIInv, StepIInv, PTL DEF Spec

\* When nothing is left to be tried, what is kept is the largest of them.
THEOREM LargestWhenConverged == Spec => [](Converged => FoundLargest)
<1>1. IInv /\ Converged => FoundLargest
  <2> SUFFICES ASSUME IInv, Converged, NEW k \in 0..Initial, PaysUpTo(k)
               PROVE  \/ k > 0 /\ best_result = k
                      \/ k <= 1 /\ best_result = None
    BY DEF FoundLargest
  <2>1. low <= k + 1 /\ (k <= high \/ (k = 1 /\ high = 0))
    BY DEF IInv, SearchInv, Bracket
  <2>2. low \in Nat /\ high \in Nat /\ Initial \in Nat
    BY InitialIs DEF IInv, TypeOK
  <2>3. low > 0 => best_result \in 1..k
    BY <2>1, <2>2 DEF IInv, TypeOK, SearchInv, BestPays, PaysUpTo
  <2>4. QED BY <2>1, <2>2, <2>3 DEF IInv, SearchInv, BestPays, Converged
<1>2. QED BY <1>1, InitIInv, StepIInv, PTL DEF Spec

-----------------------------------------------------------------------------
(* The halving of the interval.                                             *)

LEMMA LeftIs ==
    /\ Left[0] = Initial + 1
    /\ \A n \in 0..max_iterations : Left[n] \in Nat
    /\ \A n \in 1..max_iterations : Left[n] = Left[n - 1] \div 2
<1> DEFINE N == max_iterations
           Is(f) == f = [n \in 0..N |-> IF n = 0 THEN Initial + 1 ELSE f[n - 1] \div 2]
           Half == [x \in Nat \X (1..N) |-> x[1] \div 2]
           g == CHOOSE f : Is(f)
<1>1. N \in Nat /\ Initial + 1 \in Nat
  BY OptimizerAssumption, InitialIs
<1>2. Half \in [Nat \X (1..N) -> Nat]
  OBVIOUS
<1>3. PICK f : Computes(f, Nat, Initial + 1, N, Half)
  <2> HIDE DEF N, Half, Is
  <2>1. QED BY <1>1, <1>2, FoldExists
<1>4. Is(f)
  <2>1. \A n \in 0..N : n = 0 \/ n \in 1..N
    BY <1>1
  <2>2. \A n \in 1..N : f[n - 1] \in Nat
    BY <1>1, <1>3 DEF Computes
  <2>3. \A n \in 0..N : f[n] = IF n = 0 THEN Initial + 1 ELSE f[n - 1] \div 2
    BY <1>3, <2>1, <2>2 DEF Computes
  <2>4. QED BY <1>3, <2>3 DEF Computes
<1>5. Is(g)
  BY <1>4, Zenon
<1>6. Left = g
  BY DEF Left
<1> HIDE DEF g, Half, N
<1>7. g[0] = Initial + 1
  BY <1>1, <1>5
<1>8. ASSUME NEW n \in 1..N PROVE g[n] = g[n - 1] \div 2
  <2>1. n \in 0..N /\ n # 0
    BY <1>1
  <2>2. QED BY <1>5, <2>1, Zenon
<1> DEFINE S == {n \in 0..N : g[n] \in Nat}
<1>9. 0 \in S
  BY <1>1, <1>7
<1>10. ASSUME NEW n \in 0..N - 1, n \in S PROVE n + 1 \in S
  <2>1. n + 1 \in 1..N /\ (n + 1) - 1 = n
    BY <1>1
  <2>2. g[n + 1] = g[n] \div 2
    BY <1>8, <2>1
  <2>3. QED BY <1>1, <1>10, <2>1, <2>2
<1>11. \A n \in 0..N : n \in S
  <2> HIDE DEF S
  <2>1. QED BY <1>1, <1>9, <1>10, UpTo
<1>12. QED BY <1>6, <1>7, <1>8, <1>11 DEF N

\* Half of the interval is left after each iteration, or nothing but zero.
Halved == high = 0 \/ high + 1 - low <= Left[iteration]

\* optimize returns after its last iteration and not before.
Ended == outcome = "returned" => iteration = max_iterations

\* An iteration leaves no more of the interval than its half.
LEMMA HalvedStep ==
    ASSUME IInv, Halved, [Next]_vars
    PROVE  Halved'
<1>1. /\ iteration \in 0..max_iterations /\ low \in Nat /\ high \in Nat /\ low <= high + 1
      /\ max_iterations \in Nat
  BY InitialIs, OptimizerAssumption DEF IInv, TypeOK
<1>2. CASE Iterate
  <2>1. /\ iteration' = iteration + 1 /\ iteration + 1 \in 1..max_iterations
        /\ (iteration + 1) - 1 = iteration
    BY <1>1, <1>2 DEF Iterate
  <2>2. Left[iteration'] = Left[iteration] \div 2 /\ Left[iteration] \in Nat
    BY <1>1, <2>1, LeftIs
  <2> DEFINE left == Left[iteration]
  <2> HIDE DEF left
  <2>3. /\ mid \in Nat /\ mid <= high
        /\ low <= high => low <= mid
        /\ low > high => mid = low - 1
    BY MidBounds DEF IInv
  <2>4. mid = (low + high) \div 2
    BY DEF mid
  <2>5. CASE Pays(mid)
    <3>1. low' = mid + 1 /\ high' = high
      BY <1>2, <2>5 DEF Iterate, SearchUp
    <3>2. ASSUME high + 1 - low <= left, left \in Nat
          PROVE  high + 1 - (mid + 1) <= left \div 2
      <4>1. 2 * (high - mid) <= high + 1 - low
        BY <1>1, <2>3, <2>4
      <4>2. QED BY <1>1, <2>3, <3>2, <4>1
    <3>3. QED BY <2>1, <2>2, <3>1, <3>2 DEF Halved, left
  <2>6. CASE ~Pays(mid)
    <3>1. low' = low /\ high' = IF mid = 0 THEN 0 ELSE mid - 1
      BY <1>2, <2>6 DEF Iterate, SearchDown
    <3>2. low <= high
      <4>1. low > 0 => Pays(low - 1)
        BY DEF IInv, SearchInv, BestPays
      <4>2. QED BY <1>1, <2>3, <2>6, <4>1
    <3>3. ASSUME high + 1 - low <= left, left \in Nat
          PROVE  (mid - 1) + 1 - low <= left \div 2
      <4>1. 2 * (mid - low) <= high - low
        BY <1>1, <2>3, <2>4
      <4>2. QED BY <1>1, <2>3, <3>2, <3>3, <4>1
    <3>4. high = 0 => mid = 0
      BY <1>1, <2>3
    <3>5. QED BY <1>1, <2>1, <2>2, <2>3, <3>1, <3>3, <3>4 DEF Halved, left
  <2>7. QED BY <2>5, <2>6
<1>3. CASE IterateFails \/ Return \/ UNCHANGED vars
  <2>1. UNCHANGED <<iteration, low, high>>
    BY <1>3 DEF IterateFails, Return, vars
  <2>2. QED BY <2>1 DEF Halved, Left, Initial
<1>4. QED BY <1>2, <1>3 DEF Next

\* optimize returns the largest input that pays, where those that pay are the
\* inputs up to some k and the iterations can halve the interval to nothing.
THEOREM FindsLargest == Spec => []LargestPaying
<1>1. Init => IInv /\ Halved /\ Ended
  <2>1. Init => Halved
    BY InitialIs, LeftIs DEF Init, Halved
  <2>2. Init => Ended
    BY DEF Init, Ended
  <2>3. QED BY <2>1, <2>2, InitIInv
<1>2. IInv /\ Halved /\ Ended /\ [Next]_vars => (IInv /\ Halved /\ Ended)'
  <2>1. Ended /\ [Next]_vars => Ended'
    BY DEF Ended, Next, Iterate, IterateFails, Return, vars
  <2>2. QED BY <2>1, HalvedStep, StepIInv
<1>3. IInv /\ Halved /\ Ended /\ (Converged => FoundLargest) => LargestPaying
  <2> SUFFICES ASSUME IInv, Halved, Ended, Converged => FoundLargest,
                      outcome = "returned", Left[max_iterations] = 0
               PROVE  Converged /\ FoundLargest
    BY DEF LargestPaying
  <2>1. high = 0 \/ high + 1 - low <= 0
    BY DEF Halved, Ended
  <2>2. low \in Nat /\ high \in Nat
    BY InitialIs DEF IInv, TypeOK
  <2>3. Converged
    BY <2>1, <2>2 DEF Converged
  <2>4. QED BY <2>3
<1>4. QED BY <1>1, <1>2, <1>3, LargestWhenConverged, PTL DEF Spec
-----------------------------------------------------------------------------
(* SwapExecutor: the invariant.                                             *)

Underway == pc \notin {"idle", "done", "failed"}

\* The input of the step at hand is still in the wallet.
Unspent == Underway /\ ~(pc = "swap" /\ IsV2)

CallInv ==
    /\ pc \in {"idle", "build", "quote", "approve", "transfer", "swap", "done", "failed"}
    /\ expected_out \in Nat
    /\ pc = "idle" => lost = {}
    /\ pc # "idle" =>
          /\ outcome = "returned" /\ best_result \in Nat
          /\ Size \in Nat /\ Size > 1
          /\ market \in Seq(Market) /\ Len(market) = Size
          /\ balance \in [0..Size - 1 -> Nat] /\ held \in [0..Size - 1 -> Nat]
          /\ step \in 1..Size
          /\ current_amount \in Nat
    /\ pc = "build" => step = 1

\* A deposit is the amount of the V2 step at hand, and nothing is expected of
\* nothing.
DepositInv ==
    /\ deposit = IF pc = "swap" /\ IsV2 THEN current_amount ELSE 0
    /\ pc = "transfer" => IsV2
    /\ pc \in {"approve", "transfer", "swap"} /\ IsV2 /\ current_amount = 0 => expected_out = 0

\* What the last step returned is there if it was a V2 step that kept nothing.
WalletInv ==
    pc # "idle" =>
        /\ \A t \in 1..Size - 1 : balance[t] < held[t] => detected[t] # "UniV2" \/ t \in lost
        /\ balance[0] >= held[0] - best_result
        /\ Underway => \A t \in 1..Size - 1 : t >= step => balance[t] = held[t]
        /\ Unspent /\ step = 1 => balance[0] = held[0] /\ current_amount = best_result
        /\ Unspent /\ step > 1 /\ detected[step - 1] = "UniV2" /\ step - 1 \notin lost
              => balance[step - 1] >= held[step - 1] + current_amount

\* Behind a lost deposit there is nothing to go on with.
LostInv ==
    pc # "idle" /\ (\A t \in 1..Size - 1 : held[t] = 0) /\ lost # {} =>
        /\ Cardinality(lost) = 1
        /\ Underway => step > 1 /\ balance[step - 1] = 0 /\ deposit = 0

-----------------------------------------------------------------------------
(* Quotes and pools.                                                        *)

\* A pool never pays all that it has.
LEMMA QuoteBounds ==
    ASSUME NEW a \in Nat, NEW r \in Nat \ {0}, NEW s \in Nat \ {0}, NEW k \in Nat
    PROVE  GetAmountOut(a, r, s, k) \in Nat /\ GetAmountOut(a, r, s, k) < s
<1> DEFINE x == a * k
           d == r * 1000 + x
<1>1. x \in Nat /\ d \in Nat /\ d > 0 /\ x < d
  OBVIOUS
<1>2. x * s \in Nat /\ x * s < d * s
  <2> HIDE DEF x, d
  <2>1. QED BY <1>1
<1>3. (x * s) \div d \in Nat /\ (x * s) \div d < s
  <2> HIDE DEF x, d
  <2>1. QED BY <1>1, <1>2, QuotientBelow
<1>4. QED BY <1>3 DEF GetAmountOut

\* The code's formula is the quote of a pool with a fee of 0.3 %.
LEMMA FormulaIs ==
    ASSUME NEW a \in Nat, NEW r \in Nat \ {0}, NEW s \in Nat \ {0}
    PROVE  FormulaOut(a, r, s) = GetAmountOut(a, r, s, 997)
<1>1. r * 1000 + a * 997 # 0
  OBVIOUS
<1>2. CASE a = 0
  <2>1. (a * 997 * s) \div (r * 1000 + a * 997) = 0
    <3>1. a * 997 * s = 0 /\ r * 1000 + a * 997 = r * 1000 /\ r * 1000 \in Nat /\ r * 1000 > 0
      BY <1>2
    <3>2. \A d \in Nat : d > 0 => 0 \div d = 0
      OBVIOUS
    <3>3. QED BY <3>1, <3>2
  <2>2. QED BY <1>1, <1>2, <2>1 DEF FormulaOut, GetAmountOut
<1>3. CASE a # 0
  BY <1>1, <1>3 DEF FormulaOut, GetAmountOut
<1>4. QED BY <1>2, <1>3

\* What a swap leaves of the pools: the pool it goes through, and nothing else, is
\* moved.
LEMMA TakenIs ==
    ASSUME NEW i \in 1..Len(market), NEW amount \in Int, NEW out \in Int,
           market \in Seq(Market),
           market[i].reserve_in + amount > 0, market[i].reserve_out - out > 0
    PROVE  LET m == Taken(i, amount, out)
           IN  /\ m \in Seq(Market) /\ Len(m) = Len(market)
               /\ \A j \in 1..Len(market) : m[j].keep = market[j].keep /\ (j # i => m[j] = market[j])
<1>1. market[i] \in Market
  OBVIOUS
<1> DEFINE p == [type |-> market[i].type, reserve_in |-> market[i].reserve_in + amount,
                 reserve_out |-> market[i].reserve_out - out, keep |-> market[i].keep]
<1>2. p \in Market /\ p.keep = market[i].keep
  <2>1. /\ market[i].type \in {"UniV2", "UniV3", "MoeLB"} /\ market[i].keep \in 0..1000
        /\ market[i].reserve_in \in Nat /\ market[i].reserve_out \in Nat
    BY <1>1 DEF Market
  <2>2. /\ market[i].reserve_in + amount \in Nat \ {0}
        /\ market[i].reserve_out - out \in Nat \ {0}
    BY <2>1
  <2>3. p \in Market
    BY <2>1, <2>2, Zenon DEF Market
  <2>4. p.keep = market[i].keep
    OBVIOUS
  <2>5. QED BY <2>3, <2>4
<1>3. Taken(i, amount, out) = [market EXCEPT ![i] = p]
  BY DEF Taken
<1> HIDE DEF p
<1>4. QED BY <1>2, <1>3

\* What a pool of the market is.
LEMMA MarketIs ==
    ASSUME market \in Seq(Market), NEW i \in 1..Len(market)
    PROVE  /\ market[i].reserve_in \in Nat \ {0} /\ market[i].reserve_out \in Nat \ {0}
           /\ market[i].keep \in 0..1000
<1>1. market[i] \in Market
  OBVIOUS
<1>2. QED BY <1>1 DEF Market

\* Step i brings token i, the last one the token the path began with.
LEMMA TokenOutIs ==
    ASSUME Size \in Nat, Size > 1, NEW i \in 1..Size
    PROVE  TokenOut(i) = IF i = Size THEN 0 ELSE i
<1>1. CASE i = Size
  <2>1. \A n \in Nat : n > 1 => n % n = 0
    OBVIOUS
  <2>2. QED BY <1>1, <2>1 DEF TokenOut
<1>2. CASE i # Size
  <2>1. \A n \in Nat, m \in Nat : m < n => m % n = m
    OBVIOUS
  <2>2. QED BY <1>2, <2>1 DEF TokenOut
<1>3. QED BY <1>1, <1>2
-----------------------------------------------------------------------------
(* SwapExecutor: its steps.                                                 *)

\* A step returns to execute_multi_swap, or an error ends the steps.
Back(result) ==
    \/ step # Size /\ pc' = "quote" /\ step' = step + 1 /\ current_amount' = result
    \/ /\ (pc' = "done" /\ step = Size) \/ pc' = "failed"
       /\ step' = step /\ current_amount' = current_amount

\* Both ways a step ends bring its result back, or nothing.
LEMMA BackIs ==
    ASSUME NEW result, ReturnAmount(result) \/ Unconfirmed
    PROVE  Back(result)
BY DEF ReturnAmount, Unconfirmed, Back

\* The path is a sequence of hops.
LEMMA PathIs == ASSUME IInv PROVE Size \in Nat /\ path \in Seq([Amounts -> Amounts \cup {Error}])
BY PathsAssumption DEF IInv, TypeOK, Size

CallsInv == CallInv /\ DepositInv /\ WalletInv /\ LostInv

\* A step that changes no call keeps the invariant of the calls.
LEMMA CallsKept ==
    ASSUME CallsInv,
           UNCHANGED <<path, outcome, best_result, market, balance, held, detected, pc, step,
                       current_amount, expected_out, deposit, lost>>
    PROVE  CallsInv'
BY DEF CallsInv, CallInv, DepositInv, WalletInv, LostInv, Unspent, Underway, IsV2, Size

\* execute_swap starts in the invariant of the calls.
LEMMA SwapBegins ==
    ASSUME IInv, CallsInv, Begin
    PROVE  CallsInv'
<1>1. /\ pc = "idle" /\ pc' = "build" /\ outcome = "returned" /\ Size > 1
      /\ step' = 1 /\ current_amount' = best_result /\ balance' = held'
      /\ UNCHANGED <<path, outcome, best_result, deposit, lost, expected_out>>
      /\ deposit = 0 /\ lost = {}
  BY DEF Begin, vars, lossVars, CallsInv, CallInv, DepositInv
<1>2. best_result \in Nat
  <2>1. best_result \in {None} \cup 0..Initial /\ best_result # None
    BY DEF Begin, IInv, TypeOK
  <2>2. QED BY <2>1, InitialIs
<1>3. PICK chain \in Markets : HopsOf(chain) = path /\ market' = chain
  BY DEF Begin
<1>4. /\ chain \in Seq(Market) /\ DOMAIN chain = 1..Len(chain) /\ Len(chain) \in Nat
      /\ DOMAIN path = 1..Size /\ Size \in Nat
  BY SwapAssumption, PathIs DEF Size
<1>5. Len(chain) = Size
  <2>1. DOMAIN chain = DOMAIN path
    BY <1>3 DEF HopsOf
  <2>2. \A n, m \in Nat : 1..n = 1..m => n = m
    <3>1. \A n, m \in Nat : n < m => m \in 1..m /\ m \notin 1..n
      OBVIOUS
    <3>2. QED BY <3>1
  <2>3. QED BY <1>4, <2>1, <2>2
<1>6. held' \in [0..Size - 1 -> Nat] /\ held'[0] \in Nat
  <2>1. PICK h \in Holdings :
           held' = [t \in 0..Size - 1 |-> IF t = 0 THEN best_result + h ELSE h]
    BY DEF Begin
  <2>2. h \in Nat
    BY SwapAssumption
  <2>3. QED BY <1>1, <1>2, <1>4, <2>1, <2>2
<1>7. expected_out' \in Nat
  BY <1>1 DEF CallsInv, CallInv
<1>8. CallInv'
  BY <1>1, <1>2, <1>3, <1>4, <1>5, <1>6, <1>7 DEF CallInv, Size
<1>9. DepositInv' /\ LostInv'
  BY <1>1 DEF DepositInv, LostInv
<1>10. WalletInv'
  <2>1. \A t \in 1..Size - 1 : balance'[t] = held'[t] /\ balance'[t] \in Nat
    BY <1>1, <1>4, <1>6
  <2>2. QED BY <1>1, <1>2, <1>4, <1>6, <2>1 DEF WalletInv, Size
<1>11. QED BY <1>8, <1>9, <1>10 DEF CallsInv

\* Swaps of others keep it.
LEMMA OthersMove ==
    ASSUME CallsInv, NEW i \in DOMAIN market, NEW amount \in Trades, Move(i, amount)
    PROVE  CallsInv'
<1>1. /\ pc # "idle"
      /\ UNCHANGED <<path, outcome, best_result, balance, held, detected, pc, step,
                     current_amount, expected_out, deposit, lost>>
  BY DEF Move, vars, walletVars, callVars, lossVars
<1>2. /\ market \in Seq(Market) /\ i \in 1..Len(market) /\ amount \in Nat
      /\ market[i].reserve_in \in Nat \ {0} /\ market[i].reserve_out \in Nat \ {0}
      /\ market[i].keep \in 0..1000
  <2>1. market \in Seq(Market) /\ i \in 1..Len(market)
    BY <1>1 DEF CallsInv, CallInv
  <2>2. amount \in Nat
    BY SwapAssumption
  <2>3. /\ market[i].reserve_in \in Nat \ {0} /\ market[i].reserve_out \in Nat \ {0}
        /\ market[i].keep \in 0..1000
    BY <2>1, MarketIs
  <2>4. QED BY <2>1, <2>2, <2>3
<1> DEFINE out == Paid(i, amount)
           in == GetAmountOut(amount, market[i].reserve_out, market[i].reserve_in,
                              market[i].keep)
<1>3. /\ out \in Nat /\ out < market[i].reserve_out
      /\ in \in Nat /\ in < market[i].reserve_in
  <2>1. \A k \in 0..1000 : k \in Nat
    OBVIOUS
  <2>2. QED BY <1>2, <2>1, QuoteBounds DEF Paid
<1>4. market' = Taken(i, amount, out) \/ market' = Taken(i, -in, -amount)
  BY DEF Move
<1> HIDE DEF out, in
<1>5. market' \in Seq(Market) /\ Len(market') = Len(market)
  <2>1. CASE market' = Taken(i, amount, out)
    <3>1. market[i].reserve_in + amount > 0 /\ market[i].reserve_out - out > 0
      BY <1>2, <1>3
    <3>2. amount \in Int /\ out \in Int
      BY <1>2, <1>3
    <3>3. QED BY <1>2, <2>1, <3>1, <3>2, TakenIs
  <2>2. CASE market' = Taken(i, -in, -amount)
    <3>1. market[i].reserve_in + (-in) > 0 /\ market[i].reserve_out - (-amount) > 0
      BY <1>2, <1>3
    <3>2. -in \in Int /\ -amount \in Int
      BY <1>2, <1>3
    <3>3. QED BY <1>2, <2>2, <3>1, <3>2, TakenIs
  <2>3. QED BY <1>4, <2>1, <2>2
<1>6. QED BY <1>1, <1>5 DEF CallsInv, CallInv, DepositInv, WalletInv, LostInv, Unspent, Underway,
                            IsV2, Size

\* The types of the steps and their quotes move nothing.
LEMMA StepPrepares ==
    ASSUME CallsInv, BuildStep \/ QuoteV2 \/ QuoteRouter \/ EnsureApproval
    PROVE  CallsInv'
<1>1. /\ UNCHANGED <<path, outcome, best_result, market, balance, held, step, current_amount,
                     deposit, lost>>
      /\ pc \in {"build", "quote", "approve"}
  BY DEF BuildStep, QuoteV2, QuoteRouter, EnsureApproval, vars, chainVars, walletVars, lossVars
<1>2. CASE BuildStep
  <2>1. pc = "build" /\ pc' \in {"build", "quote"} /\ expected_out' = expected_out
    BY <1>2 DEF BuildStep
  <2>2. CallInv' /\ DepositInv' /\ LostInv'
    BY <1>1, <2>1 DEF CallsInv, CallInv, DepositInv, LostInv, Underway, Size
  <2>3. WalletInv'
    <3>1. step = 1 /\ \A t \in 1..Size - 1 : balance[t] = held[t] /\ balance[t] \in Nat
      BY <2>1 DEF CallsInv, CallInv, WalletInv, Underway
    <3>2. QED BY <1>1, <2>1, <3>1 DEF CallsInv, WalletInv, Unspent, Underway, Size
  <2>4. QED BY <2>2, <2>3 DEF CallsInv
<1>3. CASE QuoteV2
  <2>1. /\ pc = "quote" /\ pc' = "approve" /\ detected' = detected
        /\ expected_out' = FormulaOut(current_amount, market[step].reserve_in,
                                      market[step].reserve_out)
    BY <1>3 DEF QuoteV2
  <2>2. /\ market[step].reserve_in \in Nat \ {0} /\ market[step].reserve_out \in Nat \ {0}
        /\ current_amount \in Nat
    BY <2>1, MarketIs DEF CallsInv, CallInv
  <2>3. /\ expected_out' \in Nat
        /\ current_amount = 0 => expected_out' = 0
    <3> DEFINE r == market[step].reserve_in
               o == market[step].reserve_out
    <3>1. expected_out' = GetAmountOut(current_amount, r, o, 997)
      BY <2>1, <2>2, FormulaIs
    <3>2. GetAmountOut(current_amount, r, o, 997) \in Nat
      <4>1. 997 \in Nat /\ current_amount \in Nat /\ r \in Nat \ {0} /\ o \in Nat \ {0}
        BY <2>2
      <4> HIDE DEF r, o
      <4>2. QED BY <4>1, QuoteBounds
    <3>3. QED BY <3>1, <3>2 DEF GetAmountOut
  <2>4. QED BY <1>1, <2>1, <2>3 DEF CallsInv, CallInv, DepositInv, WalletInv, LostInv, Unspent,
                                    Underway, IsV2, Size
<1>4. CASE QuoteRouter
  <2>1. /\ pc = "quote" /\ pc' = "approve" /\ detected' = detected /\ ~IsV2
        /\ expected_out' = expected_out
    BY <1>4 DEF QuoteRouter
  <2>2. QED BY <1>1, <2>1 DEF CallsInv, CallInv, DepositInv, WalletInv, LostInv, Unspent,
                              Underway, IsV2, Size
<1>5. CASE EnsureApproval
  <2>1. /\ pc = "approve" /\ pc' = (IF IsV2 THEN "transfer" ELSE "swap")
        /\ detected' = detected /\ expected_out' = expected_out
    BY <1>5 DEF EnsureApproval
  <2>2. QED BY <1>1, <2>1 DEF CallsInv, CallInv, DepositInv, WalletInv, LostInv, Unspent,
                              Underway, IsV2, Size
<1>6. QED BY <1>2, <1>3, <1>4, <1>5

\* The amount of a V2 step leaves the wallet.
LEMMA StepTransfers ==
    ASSUME CallsInv, Transfer
    PROVE  CallsInv'
<1>1. /\ UNCHANGED <<path, outcome, best_result, market, held, step, current_amount,
                     expected_out, detected>>
      /\ pc = "transfer" /\ TokenIn(step) = step - 1
      /\ balance[TokenIn(step)] >= current_amount
      /\ balance' = [balance EXCEPT ![TokenIn(step)] = @ - current_amount]
      /\ \/ pc' = "swap" /\ deposit' = current_amount /\ lost' = lost
         \/ /\ pc' = "failed" /\ deposit' = 0
            /\ lost' = IF current_amount > 0 THEN lost \cup {step} ELSE lost
  BY DEF Transfer, vars, chainVars, TokenIn
<1>2. /\ Size \in Nat /\ Size > 1 /\ step \in 1..Size /\ current_amount \in Nat
      /\ balance \in [0..Size - 1 -> Nat] /\ held \in [0..Size - 1 -> Nat]
      /\ best_result \in Nat /\ IsV2 /\ IsV2' /\ Unspent /\ Underway
  BY <1>1 DEF CallsInv, CallInv, DepositInv, IsV2, Unspent, Underway
<1>3. /\ step - 1 \in 0..Size - 1 /\ balance[step - 1] \in Nat
      /\ balance'[step - 1] = balance[step - 1] - current_amount
      /\ balance' \in [0..Size - 1 -> Nat]
      /\ \A t \in 0..Size - 1 : t # step - 1 => balance'[t] = balance[t]
  BY <1>1, <1>2
<1>4. CallInv'
  BY <1>1, <1>2, <1>3 DEF CallsInv, CallInv, Size
<1>5. DepositInv'
  BY <1>1, <1>2 DEF CallsInv, DepositInv
<1>6. WalletInv'
  <2>1. ASSUME NEW t \in 1..Size - 1, balance'[t] < held[t]
        PROVE  detected[t] # "UniV2" \/ t \in lost
    <3>1. CASE t = step - 1
      <4>1. held[t] \in Nat /\ step > 1
        BY <1>2, <3>1
      <4>2. QED BY <1>1, <1>2, <1>3, <2>1, <3>1, <4>1 DEF CallsInv, WalletInv
    <3>2. CASE t # step - 1
      <4>1. t \in 0..Size - 1 /\ balance'[t] = balance[t]
        BY <1>2, <1>3, <3>2
      <4>2. QED BY <1>1, <2>1, <4>1 DEF CallsInv, WalletInv
    <3>3. QED BY <3>1, <3>2
  <2>2. balance'[0] >= held[0] - best_result
    <3>1. balance[0] \in Nat /\ held[0] \in Nat
      BY <1>2
    <3>2. CASE step = 1
      BY <1>1, <1>2, <1>3, <3>1, <3>2 DEF CallsInv, WalletInv
    <3>3. CASE step # 1
      BY <1>1, <1>2, <1>3, <3>1, <3>3 DEF CallsInv, WalletInv
    <3>4. QED BY <3>2, <3>3
  <2>3. \A t \in 1..Size - 1 : t >= step => balance'[t] = held[t]
    BY <1>1, <1>2, <1>3 DEF CallsInv, WalletInv
  <2>4. ~Unspent'
    BY <1>1, <1>2 DEF Unspent, Underway
  <2>5. lost \subseteq lost'
    BY <1>1
  <2>6. QED BY <1>1, <2>1, <2>2, <2>3, <2>4, <2>5 DEF WalletInv, Size
<1>7. LostInv'
  <2> SUFFICES ASSUME \A t \in 1..Size - 1 : held[t] = 0, lost' # {}
               PROVE  /\ Cardinality(lost') = 1
                      /\ Underway' => step > 1 /\ balance'[step - 1] = 0 /\ deposit' = 0
    BY <1>1 DEF LostInv, Size
  <2>1. CASE lost = {}
    <3>1. lost' = {step} /\ pc' = "failed"
      BY <1>1, <2>1
    <3>2. QED BY <3>1, FS_Singleton DEF Underway
  <2>2. CASE lost # {}
    <3>1. Cardinality(lost) = 1 /\ step > 1 /\ balance[step - 1] = 0
      BY <1>1, <1>2, <2>2 DEF CallsInv, LostInv
    <3>2. current_amount = 0
      BY <1>1, <1>2, <3>1
    <3>3. QED BY <1>1, <1>2, <1>3, <3>1, <3>2
  <2>3. QED BY <2>1, <2>2
<1>8. QED BY <1>4, <1>5, <1>6, <1>7 DEF CallsInv

\* A call that fails keeps it.
LEMMA StepEnds ==
    ASSUME CallsInv, StepFails
    PROVE  CallsInv'
<1>1. /\ UNCHANGED <<path, outcome, best_result, market, balance, held, step, current_amount,
                     expected_out, detected>>
      /\ pc \in {"build", "quote", "approve", "transfer", "swap"} /\ pc' = "failed"
      /\ deposit' = 0
      /\ lost' = IF deposit > 0 THEN lost \cup {step} ELSE lost
  BY DEF StepFails, vars, chainVars, walletVars
<1>2. CallInv' /\ DepositInv'
  BY <1>1 DEF CallsInv, CallInv, DepositInv, Size
<1>3. WalletInv'
  <2>1. lost \subseteq lost' /\ ~Underway' /\ ~Unspent'
    BY <1>1 DEF Unspent, Underway
  <2>2. QED BY <1>1, <2>1 DEF CallsInv, WalletInv, Size
<1>4. LostInv'
  <2> SUFFICES ASSUME \A t \in 1..Size - 1 : held[t] = 0, lost' # {}
               PROVE  Cardinality(lost') = 1
    BY <1>1 DEF LostInv, Size, Underway
  <2>1. CASE lost = {}
    <3>1. lost' = {step}
      BY <1>1, <2>1
    <3>2. QED BY <3>1, FS_Singleton
  <2>2. CASE lost # {}
    <3>1. Cardinality(lost) = 1 /\ deposit = 0
      BY <1>1, <2>2 DEF CallsInv, LostInv, Underway
    <3>2. QED BY <1>1, <3>1
  <2>3. QED BY <2>1, <2>2
<1>5. QED BY <1>2, <1>3, <1>4 DEF CallsInv

\* A swap takes spent of the step's token and brings out of the next one.
Swaps(spent, out) ==
    /\ balance' \in [0..Size - 1 -> Nat]
    /\ \A t \in 0..Size - 1 :
          balance'[t] = balance[t] - (IF t = step - 1 THEN spent ELSE 0)
                                   + (IF t = TokenOut(step) THEN out ELSE 0)

\* A swap that spends what it is given and brings out keeps it.
LEMMA WalletSwapped ==
    ASSUME CallsInv, pc = "swap", UNCHANGED <<path, best_result, held, detected>>,
           lost \subseteq lost',
           NEW out \in Nat, NEW result \in Nat, Back(result),
           Swaps(IF IsV2 THEN 0 ELSE current_amount, out),
           IsV2 /\ step # Size /\ step \notin lost' => out >= result
    PROVE  WalletInv'
<1> DEFINE spent == IF IsV2 THEN 0 ELSE current_amount
<1>1. /\ Size \in Nat /\ Size > 1 /\ step \in 1..Size /\ spent \in Nat /\ Underway
      /\ balance \in [0..Size - 1 -> Nat] /\ held \in [0..Size - 1 -> Nat]
      /\ best_result \in Nat /\ current_amount \in Nat
  BY DEF CallsInv, CallInv, Underway
<1>2. TokenOut(step) = IF step = Size THEN 0 ELSE step
  BY <1>1, TokenOutIs
<1>3. \A t \in 0..Size - 1 : balance[t] \in Nat /\ held[t] \in Nat
  BY <1>1
<1>4. spent = 0 \/ (Unspent /\ spent = current_amount)
  BY <1>1 DEF Unspent
<1>5. \A t \in 0..Size - 1 :
         balance'[t] = balance[t] - (IF t = step - 1 THEN spent ELSE 0)
                                  + (IF t = TokenOut(step) THEN out ELSE 0)
  BY DEF Swaps
<1> HIDE DEF spent
<1>6. ASSUME NEW t \in 1..Size - 1, balance'[t] < held[t]
      PROVE  detected[t] # "UniV2" \/ t \in lost
  <2>1. t \in 0..Size - 1 /\ balance[t] \in Nat /\ held[t] \in Nat
    BY <1>1, <1>3
  <2>2. t < step
    BY <1>1, <1>2, <1>5, <1>6, <2>1 DEF CallsInv, WalletInv
  <2>3. CASE t = step - 1
    <3>1. step > 1
      BY <1>1, <2>3
    <3>2. balance'[t] = balance[t] - spent
      BY <1>1, <1>2, <1>5, <2>1, <2>3
    <3>3. CASE spent = 0
      BY <1>6, <2>1, <3>2, <3>3 DEF CallsInv, WalletInv
    <3>4. CASE Unspent /\ spent = current_amount
      BY <1>1, <1>6, <2>1, <2>3, <3>1, <3>2, <3>4 DEF CallsInv, WalletInv
    <3>5. QED BY <1>4, <3>3, <3>4
  <2>4. CASE t # step - 1
    <3>1. balance'[t] = balance[t]
      BY <1>1, <1>2, <1>5, <2>1, <2>2, <2>4
    <3>2. QED BY <1>6, <3>1 DEF CallsInv, WalletInv
  <2>5. QED BY <2>3, <2>4
<1>7. balance'[0] >= held[0] - best_result
  <2>1. 0 \in 0..Size - 1 /\ balance[0] \in Nat /\ held[0] \in Nat
    BY <1>1, <1>3
  <2>2. balance[0] >= held[0] - best_result
    BY DEF CallsInv, WalletInv
  <2>3. CASE step = 1
    <3>1. balance'[0] = balance[0] - spent
      BY <1>1, <1>2, <1>5, <2>1, <2>3
    <3>2. CASE spent = 0
      BY <2>1, <2>2, <3>1, <3>2
    <3>3. CASE Unspent /\ spent = current_amount
      BY <1>1, <2>1, <2>3, <3>1, <3>3 DEF CallsInv, WalletInv
    <3>4. QED BY <1>4, <3>2, <3>3
  <2>4. CASE step # 1
    <3>1. balance'[0] >= balance[0] /\ balance'[0] \in Nat
      BY <1>1, <1>2, <1>5, <2>1, <2>4 DEF Swaps
    <3>2. QED BY <1>1, <2>1, <2>2, <3>1
  <2>5. QED BY <2>3, <2>4
<1>8. ASSUME Underway'
      PROVE  /\ step # Size /\ step' = step + 1 /\ current_amount' = result
             /\ \A t \in 1..Size - 1 : t >= step' => balance'[t] = held[t]
             /\ balance'[step] = held[step] + out
  <2>1. step # Size /\ step' = step + 1 /\ current_amount' = result
    BY <1>8 DEF Back, Underway
  <2>2. step \in 1..Size - 1 /\ balance[step] = held[step]
    BY <1>1, <2>1 DEF CallsInv, WalletInv
  <2>3. balance'[step] = held[step] + out
    BY <1>1, <1>2, <1>3, <1>5, <2>1, <2>2
  <2>4. ASSUME NEW t \in 1..Size - 1, t >= step + 1 PROVE balance'[t] = held[t]
    <3>1. t \in 0..Size - 1 /\ t >= step /\ balance[t] \in Nat
      BY <1>1, <1>3, <2>4
    <3>2. t # TokenOut(step) /\ t # step - 1
      BY <1>1, <1>2, <2>1, <2>4
    <3>3. balance'[t] = balance[t]
      BY <1>5, <3>1, <3>2
    <3>4. QED BY <1>1, <3>1, <3>3 DEF CallsInv, WalletInv
  <2>5. QED BY <2>1, <2>3, <2>4
<1>9. ASSUME Underway', detected[step' - 1] = "UniV2", step' - 1 \notin lost'
      PROVE  balance'[step' - 1] >= held[step' - 1] + current_amount'
  <2>1. step' - 1 = step /\ IsV2
    BY <1>1, <1>8, <1>9 DEF IsV2
  <2>2. out >= result /\ current_amount' = result /\ balance'[step] = held[step] + out
        /\ step \in 0..Size - 1
    BY <1>1, <1>8, <1>9, <2>1
  <2>3. QED BY <1>3, <2>1, <2>2
<1>10. Underway' => step' # 1
  BY <1>1, <1>8
<1>11. QED BY <1>6, <1>7, <1>8, <1>9, <1>10 DEF WalletInv, Unspent, Size

\* The pool of a V2 step pays what is asked for.
PaysExpected == expected_out > 0 /\ expected_out <= Paid(step, deposit)

V2Brings(out) ==
    /\ UNCHANGED <<path, outcome, best_result, held, detected, expected_out>>
    /\ pc = "swap" /\ IsV2 /\ deposit' = 0
    /\ out = IF PaysExpected THEN expected_out ELSE 0
    /\ lost' = IF PaysExpected \/ deposit = 0 THEN lost ELSE lost \cup {step}
    /\ Back(expected_out)
    /\ step \in 1..Size /\ Size \in Nat /\ Size > 1 /\ Underway
    /\ current_amount \in Nat /\ expected_out \in Nat /\ deposit = current_amount
    /\ current_amount = 0 => expected_out = 0
    /\ market' \in Seq(Market) /\ Len(market') = Size
    /\ \A j \in 1..Size : market'[j].keep = market[j].keep /\ (j # step => market'[j] = market[j])
    /\ Swaps(0, out) /\ out \in Nat

\* What the transaction of the V2 step does to the wallet and the deposit.
LEMMA V2Swap ==
    ASSUME CallsInv, SwapV2
    PROVE  \E out \in Nat : V2Brings(out)
<1> DEFINE pays == PaysExpected
           out == IF pays THEN expected_out ELSE 0
<1>1. /\ UNCHANGED <<path, outcome, best_result, held, detected, expected_out>>
      /\ pc = "swap" /\ IsV2 /\ deposit' = 0
      /\ market' = IF pays THEN Taken(step, deposit, expected_out) ELSE market
      /\ balance' = IF pays THEN [balance EXCEPT ![TokenOut(step)] = @ + expected_out]
                            ELSE balance
      /\ lost' = IF pays \/ deposit = 0 THEN lost ELSE lost \cup {step}
      /\ Back(expected_out)
  BY BackIs DEF SwapV2, vars, ResultV2, PaysExpected
<1>2. /\ Size \in Nat /\ Size > 1 /\ step \in 1..Size /\ Underway
      /\ market \in Seq(Market) /\ Len(market) = Size
      /\ balance \in [0..Size - 1 -> Nat]
      /\ current_amount \in Nat /\ expected_out \in Nat
      /\ deposit = current_amount
      /\ current_amount = 0 => expected_out = 0
  BY <1>1 DEF CallsInv, CallInv, DepositInv, Underway
<1>3. /\ market[step].reserve_in \in Nat \ {0} /\ market[step].reserve_out \in Nat \ {0}
      /\ market[step].keep \in 0..1000
  BY <1>2, MarketIs
<1>4. Paid(step, deposit) \in Nat /\ Paid(step, deposit) < market[step].reserve_out
  <2>1. \A k \in 0..1000 : k \in Nat
    OBVIOUS
  <2>2. QED BY <1>2, <1>3, <2>1, QuoteBounds DEF Paid
<1>5. /\ market' \in Seq(Market) /\ Len(market') = Size
      /\ \A j \in 1..Size : market'[j].keep = market[j].keep /\ (j # step => market'[j] = market[j])
  <2>1. CASE pays
    <3>1. deposit \in Int /\ expected_out \in Int /\ step \in 1..Len(market)
      BY <1>2
    <3>2. market[step].reserve_in + deposit > 0 /\ market[step].reserve_out - expected_out > 0
      BY <1>2, <1>3, <1>4, <2>1 DEF PaysExpected
    <3>3. market' = Taken(step, deposit, expected_out)
      BY <1>1, <2>1
    <3>4. market \in Seq(Market) /\ Len(market) = Size /\ step \in 1..Len(market)
      BY <1>2
    <3> DEFINE T == Taken(step, deposit, expected_out)
    <3>5. /\ T \in Seq(Market) /\ Len(T) = Len(market)
          /\ \A j \in 1..Len(market) : T[j].keep = market[j].keep /\ (j # step => T[j] = market[j])
      BY <3>1, <3>2, <3>4, TakenIs
    <3> HIDE DEF pays, T
    <3>6. QED BY <3>3, <3>4, <3>5 DEF T
  <2>2. CASE ~pays
    BY <1>1, <1>2, <2>2
  <2>3. QED BY <2>1, <2>2
<1> HIDE DEF pays
<1>6. TokenOut(step) = (IF step = Size THEN 0 ELSE step) /\ TokenOut(step) \in 0..Size - 1
  BY <1>2, TokenOutIs
<1>7. Swaps(0, out) /\ out \in Nat
  <2>1. balance' \in [0..Size - 1 -> Nat] /\ out \in Nat
    BY <1>1, <1>2, <1>6
  <2>2. ASSUME NEW t \in 0..Size - 1
        PROVE  balance'[t] = balance[t] - (IF t = step - 1 THEN 0 ELSE 0)
                                        + (IF t = TokenOut(step) THEN out ELSE 0)
    <3>1. balance[t] \in Nat
      BY <1>2
    <3>2. QED BY <1>1, <1>2, <1>6, <3>1
  <2>3. QED BY <2>1, <2>2 DEF Swaps
<1>8. out = IF PaysExpected THEN expected_out ELSE 0
  BY DEF pays
<1>9. lost' = IF PaysExpected \/ deposit = 0 THEN lost ELSE lost \cup {step}
  BY <1>1 DEF pays
<1> HIDE DEF out
<1>10. V2Brings(out)
  BY <1>1, <1>2, <1>5, <1>7, <1>8, <1>9 DEF V2Brings
<1>11. QED BY <1>7, <1>10

\* Hence it keeps the invariant.
LEMMA StepSwapsV2 ==
    ASSUME CallsInv, SwapV2
    PROVE  CallsInv'
<1> DEFINE pays == PaysExpected
<1>0. PICK out \in Nat : V2Brings(out)
  BY V2Swap
<1>1. /\ UNCHANGED <<path, outcome, best_result, held, detected, expected_out>>
      /\ pc = "swap" /\ IsV2 /\ deposit' = 0
      /\ lost' = IF pays \/ deposit = 0 THEN lost ELSE lost \cup {step}
      /\ Back(expected_out) /\ Swaps(0, out)
  BY <1>0 DEF V2Brings
<1>2. /\ Size \in Nat /\ Size > 1 /\ step \in 1..Size /\ Underway
      /\ current_amount \in Nat /\ expected_out \in Nat /\ deposit = current_amount
      /\ current_amount = 0 => expected_out = 0
      /\ market' \in Seq(Market) /\ Len(market') = Size
      /\ out = IF pays THEN expected_out ELSE 0
  BY <1>0 DEF V2Brings
<1>3. /\ TokenOut(step) = (IF step = Size THEN 0 ELSE step)
      /\ balance \in [0..Size - 1 -> Nat]
  BY <1>1, <1>2, TokenOutIs DEF CallsInv, CallInv
<1> HIDE DEF pays
<1>4. CallInv'
  <2>1. step' \in 1..Size /\ current_amount' \in Nat /\ pc' \in {"quote", "done", "failed"}
    BY <1>1, <1>2 DEF Back
  <2>2. QED BY <1>1, <1>2, <2>1 DEF CallsInv, CallInv, Swaps, Size
<1>5. DepositInv'
  BY <1>1 DEF Back, DepositInv
<1>6. WalletInv'
  <2>1. lost \subseteq lost'
    BY <1>1
  <2>2. step \notin lost' => out >= expected_out
    BY <1>1, <1>2
  <2>3. Swaps(IF IsV2 THEN 0 ELSE current_amount, out)
    BY <1>1
  <2>4. QED BY <1>1, <1>2, <2>1, <2>2, <2>3, WalletSwapped
<1>7. LostInv'
  <2> SUFFICES ASSUME \A t \in 1..Size - 1 : held[t] = 0, lost' # {}
               PROVE  /\ Cardinality(lost') = 1
                      /\ Underway' => step' > 1 /\ balance'[step' - 1] = 0 /\ deposit' = 0
    BY <1>1 DEF LostInv, Size
  <2>1. /\ Cardinality(lost') = 1
        /\ ~pays
    <3>1. CASE lost = {}
      <4>1. lost' = {step} /\ ~pays
        BY <1>1, <3>1
      <4>2. QED BY <4>1, FS_Singleton
    <3>2. CASE lost # {}
      <4>1. Cardinality(lost) = 1 /\ deposit = 0
        BY <1>1, <1>2, <3>2 DEF CallsInv, LostInv
      <4>2. ~pays
        BY <1>2, <4>1 DEF pays, PaysExpected
      <4>3. QED BY <1>1, <4>1, <4>2
    <3>3. QED BY <3>1, <3>2
  <2>2. ASSUME Underway' PROVE step' > 1 /\ balance'[step' - 1] = 0
    <3>1. step # Size /\ step' = step + 1
      BY <1>1, <2>2 DEF Back, Underway
    <3>2. step \in 1..Size - 1 /\ step \in 0..Size - 1 /\ out = 0
      BY <1>1, <1>2, <2>1, <3>1
    <3>3. balance[step] = held[step] /\ held[step] = 0
      BY <1>1, <1>2, <3>2 DEF CallsInv, WalletInv
    <3>4. balance'[step] = 0
      BY <1>1, <3>2, <3>3 DEF Swaps
    <3>5. QED BY <1>2, <3>1, <3>4
  <2>3. QED BY <1>1, <2>1, <2>2
<1>8. QED BY <1>4, <1>5, <1>6, <1>7 DEF CallsInv

\* Taking x from one entry of a function and adding y to another changes these two
\* only.
LEMMA Moved ==
    ASSUME NEW S, NEW f \in [S -> Nat], NEW a \in S, NEW b \in S, a # b,
           NEW x \in Nat, NEW y \in Nat, x <= f[a]
    PROVE  LET g == [f EXCEPT ![a] = @ - x, ![b] = @ + y]
           IN  /\ g \in [S -> Nat]
               /\ \A t \in S : g[t] = f[t] - (IF t = a THEN x ELSE 0) + (IF t = b THEN y ELSE 0)
<1> DEFINE h == [f EXCEPT ![a] = f[a] - x]
           g == [h EXCEPT ![b] = f[b] + y]
<1>1. f[a] - x \in Nat /\ f[b] + y \in Nat
  OBVIOUS
<1>2. h \in [S -> Nat] /\ g \in [S -> Nat]
  BY <1>1
<1>3. h[b] = f[b]
  OBVIOUS
<1>4. [f EXCEPT ![a] = @ - x, ![b] = @ + y] = g
  BY <1>3
<1>5. \A t \in S : g[t] = f[t] - (IF t = a THEN x ELSE 0) + (IF t = b THEN y ELSE 0)
  <2>1. ASSUME NEW t \in S
        PROVE  g[t] = f[t] - (IF t = a THEN x ELSE 0) + (IF t = b THEN y ELSE 0)
    <3>1. g[t] = (IF t = b THEN f[b] + y ELSE IF t = a THEN f[a] - x ELSE f[t])
      OBVIOUS
    <3>2. f[t] \in Nat
      OBVIOUS
    <3> HIDE DEF g
    <3>3. QED BY <3>1, <3>2
  <2>2. QED BY <2>1
<1>6. QED BY <1>2, <1>4, <1>5

\* What a router's pool brings is swept with all that is there.
RouterBrings(out) ==
    /\ UNCHANGED <<path, outcome, best_result, held, detected, expected_out, lost, deposit>>
    /\ pc = "swap" /\ ~IsV2 /\ step \in 1..Size /\ Size \in Nat /\ Size > 1
    /\ current_amount \in Nat /\ current_amount > 0
    /\ current_amount <= balance[step - 1] /\ deposit = 0
    /\ Back(balance'[TokenOut(step)]) /\ balance'[TokenOut(step)] \in Nat
    /\ market' \in Seq(Market) /\ Len(market') = Size
    /\ \A j \in 1..Size : market'[j].keep = market[j].keep /\ (j # step => market'[j] = market[j])
    /\ Swaps(current_amount, out)
    /\ step \notin defaulted => out = Paid(step, current_amount)

\* What the transaction of a router's step does to the wallet.
LEMMA RouterSwap ==
    ASSUME CallsInv, SwapRouter
    PROVE  \E out \in Nat : RouterBrings(out)
<1> DEFINE result == balance'[TokenOut(step)]
<1>1. PICK out \in IF step \in defaulted THEN OtherTier ELSE {Paid(step, current_amount)} :
         /\ market' = IF step \in defaulted THEN market ELSE Taken(step, current_amount, out)
         /\ balance' = [balance EXCEPT ![TokenIn(step)] = @ - current_amount,
                                       ![TokenOut(step)] = @ + out]
  BY DEF SwapRouter
<1>2. /\ UNCHANGED <<path, outcome, best_result, held, detected, expected_out, lost, deposit>>
      /\ pc = "swap" /\ ~IsV2
      /\ current_amount > 0 /\ current_amount <= balance[TokenIn(step)]
      /\ Back(result) /\ TokenIn(step) = step - 1
  BY BackIs DEF SwapRouter, vars, lossVars, TokenIn
<1>3. /\ Size \in Nat /\ Size > 1 /\ step \in 1..Size /\ Underway /\ Unspent
      /\ market \in Seq(Market) /\ Len(market) = Size
      /\ balance \in [0..Size - 1 -> Nat]
      /\ current_amount \in Nat
      /\ deposit = 0
  BY <1>2 DEF CallsInv, CallInv, DepositInv, Underway, Unspent
<1>4. /\ market[step].reserve_in \in Nat \ {0} /\ market[step].reserve_out \in Nat \ {0}
      /\ market[step].keep \in 0..1000
  BY <1>3, MarketIs
<1>5. /\ Paid(step, current_amount) \in Nat
      /\ Paid(step, current_amount) < market[step].reserve_out
  <2>1. \A k \in 0..1000 : k \in Nat
    OBVIOUS
  <2>2. QED BY <1>3, <1>4, <2>1, QuoteBounds DEF Paid
<1>6. out \in Nat
  BY <1>1, <1>5, SwapAssumption
<1>7. /\ market' \in Seq(Market) /\ Len(market') = Size
      /\ \A j \in 1..Size : market'[j].keep = market[j].keep /\ (j # step => market'[j] = market[j])
  <2>1. CASE step \in defaulted
    BY <1>1, <1>3, <2>1
  <2>2. CASE step \notin defaulted
    <3>1. out = Paid(step, current_amount)
      BY <1>1, <2>2
    <3>2. current_amount \in Int /\ out \in Int /\ step \in 1..Len(market)
      BY <1>3, <1>6
    <3>3. market[step].reserve_in + current_amount > 0 /\ market[step].reserve_out - out > 0
      BY <1>3, <1>4, <1>5, <3>1
    <3>4. market' = Taken(step, current_amount, out) /\ market \in Seq(Market)
      BY <1>1, <1>3, <2>2, <3>1
    <3> DEFINE m == Taken(step, current_amount, out)
    <3>5. /\ m \in Seq(Market) /\ Len(m) = Len(market)
          /\ \A j \in 1..Len(market) : m[j].keep = market[j].keep /\ (j # step => m[j] = market[j])
      BY <3>2, <3>3, <3>4, TakenIs
    <3> HIDE DEF m
    <3>6. QED BY <1>3, <3>4, <3>5 DEF m
  <2>3. QED BY <2>1, <2>2
<1>8. /\ TokenOut(step) = (IF step = Size THEN 0 ELSE step) /\ TokenOut(step) \in 0..Size - 1
      /\ TokenOut(step) # step - 1 /\ step - 1 \in 0..Size - 1
  BY <1>3, TokenOutIs
<1>9. Swaps(current_amount, out) /\ result \in Nat
  <2>1. Swaps(current_amount, out)
    <3> DEFINE S == 0..Size - 1
               a == step - 1
               b == TokenOut(step)
    <3>1. /\ balance \in [S -> Nat] /\ a \in S /\ b \in S /\ a # b
          /\ current_amount \in Nat /\ out \in Nat /\ current_amount <= balance[a]
      BY <1>2, <1>3, <1>6, <1>8
    <3>2. balance' = [balance EXCEPT ![a] = @ - current_amount, ![b] = @ + out]
      BY <1>1, <1>2
    <3> HIDE DEF S, a, b
    <3>3. /\ balance' \in [S -> Nat]
          /\ \A t \in S : balance'[t] = balance[t] - (IF t = a THEN current_amount ELSE 0)
                                                  + (IF t = b THEN out ELSE 0)
      BY <3>1, <3>2, Moved
    <3>4. QED BY <3>3 DEF Swaps, S, a, b
  <2>2. QED BY <1>8, <2>1 DEF Swaps
<1>10. step \notin defaulted => out = Paid(step, current_amount)
  BY <1>1
<1>11. RouterBrings(out)
  BY <1>2, <1>3, <1>7, <1>9, <1>10 DEF RouterBrings
<1>12. QED BY <1>6, <1>11

\* A router's step keeps the invariant of the calls.
LEMMA StepSwapsRouter ==
    ASSUME CallsInv, SwapRouter
    PROVE  CallsInv'
<1> DEFINE result == balance'[TokenOut(step)]
<1>1. PICK out \in Nat : RouterBrings(out)
  BY RouterSwap
<1> USE DEF RouterBrings
<1> HIDE DEF result
<1>2. CallInv'
  <2>1. step' \in 1..Size /\ current_amount' \in Nat /\ pc' \in {"quote", "done", "failed"}
    BY <1>1 DEF Back
  <2>2. QED BY <1>1, <2>1 DEF CallsInv, CallInv, Swaps, Size
<1>3. DepositInv'
  BY <1>1 DEF Back, DepositInv
<1>4. WalletInv'
  <2>1. Swaps(IF IsV2 THEN 0 ELSE current_amount, out)
    BY <1>1
  <2>2. QED BY <1>1, <2>1, WalletSwapped
<1>5. LostInv'
  <2>1. (\A t \in 1..Size - 1 : held[t] = 0) /\ lost # {} => FALSE
    BY <1>1 DEF CallsInv, LostInv, Underway
  <2>2. QED BY <1>1, <2>1 DEF LostInv, Size
<1>6. QED BY <1>2, <1>3, <1>4, <1>5 DEF CallsInv

\* Every step of search and swaps keeps the invariants of both.
LEMMA CallsStep ==
    ASSUME IInv, CallsInv, [SwapNext]_allVars
    PROVE  IInv' /\ CallsInv'
<1>1. [Next]_vars
  BY DEF SwapNext, Begin, BuildStep, ExecuteSwap, QuoteV2, QuoteRouter, EnsureApproval, Transfer,
         SwapV2, SwapRouter, StepFails, Move, allVars
<1>2. CASE Next /\ UNCHANGED <<chainVars, walletVars, callVars, lossVars>>
  <2>1. outcome = "searching" /\ path' = path
    BY <1>2 DEF Next, Iterate, IterateFails, Return
  <2>2. pc = "idle"
    BY <2>1 DEF CallsInv, CallInv
  <2>3. QED BY <1>1, <1>2, <2>2, StepIInv
            DEF CallsInv, CallInv, DepositInv, WalletInv, LostInv, callVars, lossVars
<1>3. CASE UNCHANGED allVars
  BY <1>1, <1>3, StepIInv, CallsKept DEF allVars, vars, chainVars, walletVars, callVars, lossVars
<1>4. QED BY <1>1, <1>2, <1>3, StepIInv, SwapBegins, OthersMove, StepPrepares, StepTransfers,
             StepEnds, StepSwapsV2, StepSwapsRouter DEF SwapNext, ExecuteSwap

\* The executor does not disturb the search.
THEOREM SwapRefinesSearch == SwapSpec => Spec
<1>1. SwapInit => Init
  BY DEF SwapInit
<1>2. [SwapNext]_allVars => [Next]_vars
  BY DEF SwapNext, Begin, BuildStep, ExecuteSwap, QuoteV2, QuoteRouter, EnsureApproval, Transfer,
         SwapV2, SwapRouter, StepFails, Move, allVars
<1>3. QED BY <1>1, <1>2, PTL DEF SwapSpec, Spec

\* The invariant of the calls holds before anything is executed.
LEMMA CallsInit == SwapInit => CallsInv
BY DEF SwapInit, IdleInit, CallsInv, CallInv, DepositInv, WalletInv, LostInv

\* Whatever others swap, is reverted or fails, the wallet loses of its own no
\* more than the input, and of the tokens in between only what a router's step
\* sweeps or what follows a lost deposit, of which there is one (execute_swap).
THEOREM LossIsBounded == SwapSpec => []LossBounded
<1>1. SwapInit => IInv /\ CallsInv
  BY CallsInit, InitIInv DEF SwapInit
<1>2. IInv /\ CallsInv => LossBounded
  <2> SUFFICES ASSUME CallsInv, pc # "idle"
               PROVE  /\ \A t \in 1..Size - 1 :
                            balance[t] < held[t] => detected[t] # "UniV2" \/ t \in lost
                      /\ balance[0] >= held[0] - best_result
                      /\ (\A t \in 1..Size - 1 : held[t] = 0) => Cardinality(lost) <= 1
    BY DEF LossBounded
  <2>1. (\A t \in 1..Size - 1 : held[t] = 0) => Cardinality(lost) <= 1
    <3>1. CASE lost = {}
      BY <3>1, FS_EmptySet
    <3>2. CASE lost # {}
      BY <3>2 DEF CallsInv, LostInv
    <3>3. QED BY <3>1, <3>2
  <2>2. QED BY <2>1 DEF CallsInv, WalletInv
<1>3. QED BY <1>1, <1>2, CallsStep, PTL DEF SwapSpec
-----------------------------------------------------------------------------
(* SwapExecutor: the swaps that nothing disturbs.                           *)

\* The amounts after the hops, one after the other.
LEMMA AfterIs ==
    ASSUME IInv, NEW a \in Amounts
    PROVE  /\ After(a)[0] = a
           /\ \A n \in 0..Size : After(a)[n] \in Amounts \cup {Error}
           /\ \A n \in 1..Size : After(a)[n] = AfterHop(After(a)[n - 1], path[n])
<1> DEFINE N == Len(path)
           T == Amounts \cup {Error}
           Is(f) == f = [n \in 0..N |-> IF n = 0 THEN a ELSE AfterHop(f[n - 1], path[n])]
           Hop == [x \in T \X (1..N) |-> AfterHop(x[1], path[x[2]])]
           g == CHOOSE f : Is(f)
<1>1. N \in Nat /\ a \in T /\ N = Size
  BY PathIs DEF Size
<1>2. \A m \in T, n \in 1..N : AfterHop(m, path[n]) \in T
  <2> TAKE m \in T, n \in 1..N
  <2>1. path[n] \in [Amounts -> T]
    BY PathIs
  <2>2. CASE m \in {Error, 0}
    BY <2>2 DEF AfterHop
  <2>3. CASE m \notin {Error, 0}
    <3>1. m \in Amounts
      BY <2>3
    <3>2. path[n][m] \in T
      BY <2>1, <3>1
    <3>3. QED BY <2>3, <3>2 DEF AfterHop
  <2>4. QED BY <2>2, <2>3
<1>3. Hop \in [T \X (1..N) -> T]
  <2> HIDE DEF T, N
  <2>1. QED BY <1>2
<1>4. PICK f : Computes(f, T, a, N, Hop)
  <2> HIDE DEF N, Hop, Is, T
  <2>1. QED BY <1>1, <1>3, FoldExists
<1>5. Is(f)
  <2>1. \A n \in 0..N : n = 0 \/ n \in 1..N
    BY <1>1
  <2>2. \A n \in 1..N : f[n - 1] \in T
    <3> HIDE DEF T
    <3>1. QED BY <1>1, <1>4 DEF Computes
  <2>3. \A n \in 1..N : f[n] = AfterHop(f[n - 1], path[n])
    <3> HIDE DEF T, N
    <3>1. QED BY <1>4, <2>2 DEF Computes
  <2>4. \A n \in 0..N : f[n] = IF n = 0 THEN a ELSE AfterHop(f[n - 1], path[n])
    <3> HIDE DEF T, N
    <3>1. QED BY <1>4, <2>1, <2>3 DEF Computes
  <2>5. QED BY <1>4, <2>4 DEF Computes
<1>6. Is(g)
  BY <1>5, Zenon
<1>7. After(a) = g
  BY DEF After
<1> HIDE DEF g, Hop, N, T
<1>8. g[0] = a
  BY <1>1, <1>6
<1>9. ASSUME NEW n \in 1..N PROVE g[n] = AfterHop(g[n - 1], path[n])
  <2>1. n \in 0..N /\ n # 0
    BY <1>1
  <2>2. QED BY <1>6, <2>1, Zenon
<1> DEFINE S == {n \in 0..N : g[n] \in T}
<1>10. 0 \in S
  BY <1>1, <1>8
<1>11. ASSUME NEW n \in 0..N - 1, n \in S PROVE n + 1 \in S
  <2>1. n + 1 \in 1..N /\ (n + 1) - 1 = n /\ n + 1 \in 0..N
    BY <1>1
  <2>2. g[n + 1] = AfterHop(g[n], path[n + 1])
    BY <1>9, <2>1
  <2>3. QED BY <1>2, <1>11, <2>1, <2>2
<1>12. \A n \in 0..N : n \in S
  <2> HIDE DEF S
  <2>1. QED BY <1>1, <1>10, <1>11, UpTo
<1>13. \A n \in 0..N : g[n] \in T
  BY <1>12
<1>14. QED BY <1>1, <1>7, <1>8, <1>9, <1>13 DEF T

\* Where something comes out in the end, something comes out of every hop.
LEMMA NothingStays ==
    ASSUME IInv, NEW a \in Amounts, Output(a) \notin {0, Error}
    PROVE  \A n \in 0..Size : After(a)[n] \in Amounts \ {0}
<1> DEFINE Stuck(n) == After(a)[n] \in {0, Error}
<1> SUFFICES ASSUME NEW m \in 0..Size, Stuck(m) PROVE FALSE
  BY AfterIs
<1>1. Size \in Nat
  BY PathIs
<1>2. \A n \in 1..Size : Stuck(n - 1) => Stuck(n)
  BY AfterIs DEF AfterHop
<1> DEFINE S == {n \in 0..Size : n >= m => Stuck(n)}
<1> HIDE DEF Stuck
<1>3. 0 \in S
  BY <1>1
<1>4. ASSUME NEW n \in 0..Size - 1, n \in S PROVE n + 1 \in S
  <2>1. n + 1 \in 1..Size /\ (n + 1) - 1 = n /\ n + 1 \in 0..Size
    BY <1>1
  <2>2. n + 1 >= m => n >= m \/ n + 1 = m
    BY <1>1
  <2>3. QED BY <1>2, <1>4, <2>1, <2>2
<1>5. \A n \in 0..Size : n \in S
  <2> HIDE DEF S
  <2>1. QED BY <1>1, <1>3, <1>4, UpTo
<1>6. Stuck(Size)
  BY <1>1, <1>5
<1>7. QED BY <1>6 DEF Stuck, Output, Size

\* What the search kept brings something.
LEMMA KeptPays ==
    ASSUME IInv, best_result \in Nat, Size \in Nat, Size > 1
    PROVE  best_result \in Amounts /\ Output(best_result) \notin {0, Error}
<1>1. best_result \in Amounts
  <2>1. best_result \in 0..Initial /\ Initial <= MaxAmount /\ Initial \in Nat
    <3>1. best_result \in {None} \cup 0..Initial /\ best_result # None
      BY DEF IInv, TypeOK, None
    <3>2. QED BY <3>1, InitialIs, OptimizerAssumption DEF Initial, Amounts
  <2>2. QED BY <2>1, OptimizerAssumption DEF Amounts
<1>2. Pays(best_result)
  <2>1. low # 0 /\ low \in Nat
    BY InitialIs DEF IInv, TypeOK, SearchInv, BestPays, None
  <2>2. QED BY <2>1 DEF IInv, SearchInv, BestPays
<1>3. path # <<>>
  BY DEF Size
<1>4. QED BY <1>1, <1>2, <1>3 DEF Pays, Fails, SimulatesNone

\* The types of the steps: as many as are built.
DetectInv ==
    /\ moves \in Nat
    /\ detected \in Seq({"UniV2", "UniV3", "MoeLB"})
    /\ pc = "idle" => detected = <<>>
    /\ pc = "build" => Len(detected) < Size
    /\ pc \in {"quote", "approve", "transfer", "swap", "done"} => Len(detected) = Size

Quiet ==
    /\ pc \notin {"idle", "failed"} /\ moves = 0 /\ defaulted = {}
    /\ pc = "build" \/ (FeesAsQuoted /\ NothingToSweep)

\* The balance of token t while the input is still to be spent, or is on its
\* way and is worth current_amount.
QuietBalance(t) ==
    held[t] - (IF t = 0 THEN best_result ELSE 0)
            + (IF t = step - 1 /\ Unspent THEN current_amount ELSE 0)

\* While nothing disturbs them, the steps go along the amounts of the search.
OnCourse ==
    /\ current_amount = After(best_result)[step - 1]
    /\ \A j \in 1..Size : j >= step => HopOf(market[j]) = path[j]
    /\ pc \in {"approve", "transfer", "swap"} /\ IsV2 => expected_out = After(best_result)[step]
    /\ \A t \in 0..Size - 1 : balance[t] = QuietBalance(t)

QuietInv ==
    Quiet => /\ lost = {}
             /\ Underway => OnCourse
             /\ pc = "done" =>
                   balance = [held EXCEPT ![0] = @ - best_result + Output(best_result)]

\* What was simulated of a path depends on the path and the input only.
LEMMA SameAmounts ==
    ASSUME UNCHANGED <<path, best_result>>
    PROVE  /\ After(best_result)' = After(best_result)
           /\ Output(best_result)' = Output(best_result)
           /\ Size' = Size
<1>1. After(best_result)' = After(best_result)
  BY Zenon DEF After
<1>2. QED BY <1>1 DEF Output, Size

\* A hop that is still to come pays what it did in the search.
LEMMA HopPays ==
    ASSUME IInv, CallsInv, Underway, OnCourse
    PROVE  /\ current_amount \in Nat /\ current_amount > 0
           /\ After(best_result)[step] \in Nat /\ After(best_result)[step] > 0
           /\ Paid(step, current_amount) = After(best_result)[step]
<1>1. /\ best_result \in Nat /\ Size \in Nat /\ Size > 1 /\ step \in 1..Size
      /\ step - 1 \in 0..Size /\ step \in 0..Size
  BY DEF CallsInv, CallInv, Underway
<1>2. best_result \in Amounts /\ Output(best_result) \notin {0, Error}
  BY <1>1, KeptPays
<1>3. /\ After(best_result)[step - 1] \in Amounts \ {0}
      /\ After(best_result)[step] \in Amounts \ {0}
  BY <1>1, <1>2, NothingStays
<1>4. After(best_result)[step] = AfterHop(current_amount, path[step])
  BY <1>1, <1>2, AfterIs DEF OnCourse
<1>5. current_amount \in Amounts \ {0}
  BY <1>3 DEF OnCourse
<1>6. After(best_result)[step] = HopOf(market[step])[current_amount]
  <2>1. current_amount \notin {Error, 0}
    BY <1>5 DEF Amounts, Error
  <2>2. path[step] = HopOf(market[step])
    BY <1>1 DEF OnCourse
  <2>3. QED BY <1>4, <2>1, <2>2 DEF AfterHop
<1>7. HopOf(market[step])[current_amount] = Paid(step, current_amount)
  BY <1>5 DEF HopOf, Paid
<1>8. \A a \in Amounts \ {0} : a \in Nat /\ a > 0
  BY DEF Amounts
<1>9. QED BY <1>3, <1>5, <1>6, <1>7, <1>8

\* What is quiet after a step was so before it.
LEMMA QuietBefore ==
    ASSUME CallsInv, DetectInv, Quiet', UNCHANGED <<path, moves, held, detected, defaulted>>,
           pc \in {"quote", "approve", "transfer", "swap"}, pc' # "build",
           \A j \in 1..Size : market'[j].keep = market[j].keep
    PROVE  Quiet /\ FeesAsQuoted /\ NothingToSweep
<1>1. Size' = Size /\ DOMAIN detected = 1..Size
  BY DEF DetectInv, Size
<1>2. FeesAsQuoted
  BY <1>1 DEF Quiet, FeesAsQuoted
<1>3. NothingToSweep
  BY <1>1 DEF Quiet, NothingToSweep
<1>4. QED BY <1>2, <1>3 DEF Quiet

\* An execution starts on course.
LEMMA QuietBegins ==
    ASSUME IInv, CallsInv, DetectInv, Begin, CallsInv'
    PROVE  QuietInv'
<1>1. /\ pc = "idle" /\ pc' = "build" /\ step' = 1 /\ current_amount' = best_result
      /\ balance' = held' /\ UNCHANGED <<path, outcome, best_result, lost>>
      /\ lost = {}
  BY DEF Begin, vars, lossVars, CallsInv, CallInv
<1>2. /\ best_result \in Nat /\ Size \in Nat /\ Size > 1
      /\ balance' \in [0..Size - 1 -> Nat] /\ market' \in Seq(Market) /\ Len(market') = Size
  BY <1>1 DEF CallsInv, CallInv, Size
<1>3. \A j \in 1..Size : HopOf(market'[j]) = path[j]
  <2>1. HopsOf(market') = path
    BY DEF Begin
  <2>2. QED BY <1>2, <2>1 DEF HopsOf
<1>4. After(best_result)[0] = best_result
  BY <1>2, AfterIs, KeptPays
<1>5. ASSUME NEW t \in 0..Size - 1
      PROVE  balance'[t] = held'[t] - (IF t = 0 THEN best_result ELSE 0)
                                    + (IF t = 0 THEN best_result ELSE 0)
  BY <1>1, <1>2
<1>6. Unspent'
  BY <1>1 DEF Unspent, Underway
<1>7. OnCourse'
  BY <1>1, <1>3, <1>4, <1>5, <1>6, SameAmounts DEF OnCourse, QuietBalance, HopOf
<1>8. QED BY <1>1, <1>7 DEF QuietInv

\* A step that moves nothing stays on course.
LEMMA CourseKept ==
    ASSUME OnCourse, Underway, Unspent <=> Unspent',
           UNCHANGED <<path, best_result, market, balance, held, step, current_amount>>,
           pc' \in {"approve", "transfer", "swap"} /\ IsV2'
              => expected_out' = After(best_result)[step]
    PROVE  OnCourse'
BY SameAmounts DEF OnCourse, QuietBalance, HopOf

\* Reading the pools and the approval keep an undisturbed execution on course.
LEMMA QuietPrepares ==
    ASSUME IInv, CallsInv, DetectInv, QuietInv,
           BuildStep \/ QuoteV2 \/ QuoteRouter \/ EnsureApproval
    PROVE  QuietInv'
<1> SUFFICES ASSUME Quiet' PROVE lost' = {} /\ OnCourse' /\ pc' # "done"
  BY DEF QuietInv
<1>1. /\ UNCHANGED <<path, outcome, best_result, market, balance, held, step, current_amount,
                     deposit, lost, moves>>
      /\ pc \in {"build", "quote", "approve"} /\ pc' # "done" /\ Underway
      /\ step \in 1..Size /\ Size \in Nat
  BY DEF BuildStep, QuoteV2, QuoteRouter, EnsureApproval, vars, chainVars, walletVars, lossVars,
         CallsInv, CallInv, Underway
<1>2. CASE BuildStep
  <2>1. /\ pc = "build" /\ pc' \in {"build", "quote"} /\ defaulted' = defaulted
    BY <1>2 DEF BuildStep
  <2>2. Quiet /\ Unspent /\ Unspent'
    BY <1>1, <2>1 DEF Quiet, Unspent, Underway
  <2>3. QED BY <1>1, <2>1, <2>2, CourseKept DEF QuietInv
<1>3. CASE QuoteV2
  <2>1. /\ pc = "quote" /\ pc' = "approve" /\ detected' = detected /\ defaulted' = defaulted
        /\ IsV2
        /\ expected_out' = FormulaOut(current_amount, market[step].reserve_in,
                                      market[step].reserve_out)
    BY <1>3 DEF QuoteV2
  <2>2. Quiet /\ FeesAsQuoted /\ OnCourse /\ lost = {} /\ Unspent /\ Unspent'
    BY <1>1, <2>1, QuietBefore DEF QuietInv, Unspent, Underway
  <2>3. market[step].keep = 997
    BY <1>1, <2>1, <2>2 DEF FeesAsQuoted, DetectInv, IsV2
  <2>4. /\ market[step].reserve_in \in Nat \ {0} /\ market[step].reserve_out \in Nat \ {0}
        /\ current_amount \in Nat
    BY <2>1, MarketIs DEF CallsInv, CallInv
  <2>5. expected_out' = Paid(step, current_amount)
    BY <2>1, <2>3, <2>4, FormulaIs DEF Paid
  <2>6. expected_out' = After(best_result)[step]
    BY <1>1, <2>2, <2>5, HopPays
  <2>7. QED BY <1>1, <2>2, <2>6, CourseKept
<1>4. CASE QuoteRouter
  <2>1. /\ pc = "quote" /\ pc' = "approve" /\ detected' = detected /\ ~IsV2
        /\ defaulted' = defaulted
    BY <1>4 DEF QuoteRouter, Quiet
  <2>2. Quiet /\ OnCourse /\ lost = {} /\ Unspent /\ Unspent' /\ ~IsV2'
    BY <1>1, <2>1, QuietBefore DEF QuietInv, Unspent, Underway, IsV2
  <2>3. QED BY <1>1, <2>2, CourseKept
<1>5. CASE EnsureApproval
  <2>1. /\ pc = "approve" /\ pc' = (IF IsV2 THEN "transfer" ELSE "swap")
        /\ detected' = detected /\ defaulted' = defaulted /\ expected_out' = expected_out
        /\ (IsV2' <=> IsV2)
    BY <1>1, <1>5 DEF EnsureApproval, IsV2
  <2>2. Quiet /\ OnCourse /\ lost = {} /\ Unspent /\ Unspent'
    BY <1>1, <2>1, QuietBefore DEF QuietInv, Unspent, Underway
  <2>3. pc' \in {"approve", "transfer", "swap"} /\ IsV2'
           => expected_out' = After(best_result)[step]
    BY <1>1, <2>1, <2>2 DEF OnCourse
  <2>4. QED BY <1>1, <2>2, <2>3, CourseKept
<1>6. QED BY <1>1, <1>2, <1>3, <1>4, <1>5

\* So does the deposit at the pool.
LEMMA QuietTransfers ==
    ASSUME IInv, CallsInv, DetectInv, QuietInv, Transfer
    PROVE  QuietInv'
<1> SUFFICES ASSUME Quiet' PROVE lost' = {} /\ OnCourse' /\ pc' # "done"
  BY DEF QuietInv
<1>1. /\ UNCHANGED <<path, best_result, market, held, step, current_amount, expected_out,
                     detected, moves, defaulted>>
      /\ pc = "transfer" /\ pc' = "swap" /\ lost' = lost
      /\ balance' = [balance EXCEPT ![step - 1] = @ - current_amount]
  BY DEF Transfer, vars, chainVars, TokenIn, Quiet
<1>2. /\ Size \in Nat /\ Size > 1 /\ step \in 1..Size /\ current_amount \in Nat
      /\ balance \in [0..Size - 1 -> Nat] /\ held \in [0..Size - 1 -> Nat]
      /\ best_result \in Nat /\ IsV2 /\ IsV2' /\ Unspent /\ Underway /\ ~Unspent'
  BY <1>1 DEF CallsInv, CallInv, DepositInv, IsV2, Unspent, Underway
<1>3. OnCourse /\ lost = {}
  BY <1>1, <1>2, QuietBefore DEF QuietInv
<1>4. ASSUME NEW t \in 0..Size - 1 PROVE balance'[t] = QuietBalance(t)'
  <2>1. balance[t] \in Nat /\ held[t] \in Nat
    BY <1>2
  <2>2. balance[t] = held[t] - (IF t = 0 THEN best_result ELSE 0)
                             + (IF t = step - 1 THEN current_amount ELSE 0)
    BY <1>2, <1>3 DEF OnCourse, QuietBalance
  <2>3. balance'[t] = balance[t] - (IF t = step - 1 THEN current_amount ELSE 0)
    BY <1>1, <1>2, <2>1
  <2>4. balance'[t] = held[t] - (IF t = 0 THEN best_result ELSE 0) + 0
    BY <1>2, <2>1, <2>2, <2>3
  <2>5. QED BY <1>1, <1>2, <2>4 DEF QuietBalance
<1>5. OnCourse'
  BY <1>1, <1>2, <1>3, <1>4, SameAmounts DEF OnCourse, HopOf
<1>6. QED BY <1>1, <1>3, <1>5

\* The last hop brings the output of the search, the others go on with theirs.
LEMMA QuietReturns ==
    ASSUME IInv, CallsInv, OnCourse, pc = "swap", lost = {}, lost' = lost,
           UNCHANGED <<path, best_result, held>>,
           \A j \in 1..Size : j # step => market'[j] = market[j],
           Swaps(IF IsV2 THEN 0 ELSE current_amount, After(best_result)[step]),
           NEW result, Back(result), step # Size => result = After(best_result)[step], Quiet'
    PROVE  QuietInv'
<1> DEFINE spent == IF IsV2 THEN 0 ELSE current_amount
           out == After(best_result)[step]
<1>1. /\ Size \in Nat /\ Size > 1 /\ step \in 1..Size /\ Underway /\ Size' = Size
      /\ balance \in [0..Size - 1 -> Nat] /\ held \in [0..Size - 1 -> Nat]
      /\ best_result \in Nat /\ current_amount \in Nat
  BY SameAmounts DEF CallsInv, CallInv, Underway
<1>2. out \in Nat
  BY <1>1, HopPays
<1>3. TokenOut(step) = IF step = Size THEN 0 ELSE step
  BY <1>1, TokenOutIs
<1>4. ASSUME NEW t \in 0..Size - 1
      PROVE  balance'[t] = held[t] - (IF t = 0 THEN best_result ELSE 0)
                                   + (IF t = TokenOut(step) THEN out ELSE 0)
  <2>1. balance[t] \in Nat /\ held[t] \in Nat
    BY <1>1
  <2>2. Unspent <=> ~IsV2
    BY <1>1 DEF Unspent
  <2>3. balance[t] = held[t] - (IF t = 0 THEN best_result ELSE 0)
                             + (IF t = step - 1 THEN spent ELSE 0)
    BY <1>1, <2>2 DEF OnCourse, QuietBalance
  <2>4. balance'[t] = balance[t] - (IF t = step - 1 THEN spent ELSE 0)
                                 + (IF t = TokenOut(step) THEN out ELSE 0)
    BY DEF Swaps
  <2> HIDE DEF out, spent
  <2>5. spent \in Nat
    BY <1>1 DEF spent
  <2>6. QED BY <1>1, <1>2, <2>1, <2>3, <2>4, <2>5
<1>5. CASE step # Size
  <2>1. pc' = "quote" /\ step' = step + 1 /\ current_amount' = out /\ Unspent'
    BY <1>5 DEF Back, Unspent, Underway, Quiet
  <2>2. \A j \in 1..Size : j >= step + 1 => HopOf(market'[j]) = path[j]
    BY <1>1 DEF OnCourse
  <2>3. ASSUME NEW t \in 0..Size - 1 PROVE balance'[t] = QuietBalance(t)'
    <3>1. t = step' - 1 <=> t = TokenOut(step)
      BY <1>1, <1>3, <1>5, <2>1
    <3>2. QED BY <1>4, <2>1, <3>1 DEF QuietBalance
  <2>4. (step + 1) - 1 = step
    BY <1>1
  <2>5. OnCourse'
    BY <1>1, <2>1, <2>2, <2>3, <2>4, SameAmounts DEF OnCourse, HopOf
  <2>6. QED BY <2>1, <2>5 DEF QuietInv
<1>6. CASE step = Size
  <2>1. pc' = "done"
    BY <1>6 DEF Back, Quiet
  <2>2. out = Output(best_result) /\ TokenOut(step) = 0
    BY <1>3, <1>6 DEF Output, Size
  <2>3. balance' = [held EXCEPT ![0] = @ - best_result + out]
    <3>1. balance' \in [0..Size - 1 -> Nat]
      BY DEF Swaps
    <3>2. ASSUME NEW t \in 0..Size - 1
          PROVE  balance'[t] = [held EXCEPT ![0] = @ - best_result + out][t]
      <4>1. held[t] \in Nat
        BY <1>1
      <4> HIDE DEF out
      <4>2. CASE t = 0
        BY <1>1, <1>2, <1>4, <2>2, <4>1, <4>2
      <4>3. CASE t # 0
        BY <1>1, <1>2, <1>4, <2>2, <4>1, <4>3
      <4>4. QED BY <4>2, <4>3
    <3> HIDE DEF out
    <3>3. QED BY <1>1, <3>1, <3>2
  <2>4. QED BY <2>1, <2>2, <2>3, SameAmounts DEF QuietInv, Underway
<1>7. QED BY <1>5, <1>6

\* So does the swap of a V2 step.
LEMMA QuietSwapsV2 ==
    ASSUME IInv, CallsInv, DetectInv, QuietInv, SwapV2
    PROVE  QuietInv'
<1> SUFFICES ASSUME Quiet' PROVE QuietInv'
  BY DEF QuietInv
<1>1. PICK out \in Nat : V2Brings(out)
  BY V2Swap
<1>2. /\ UNCHANGED <<path, best_result, held, detected, moves, defaulted>>
      /\ pc = "swap" /\ IsV2 /\ pc' # "build" /\ Back(expected_out)
  BY <1>1 DEF V2Brings, SwapV2, Back
<1>3. \A j \in 1..Size : market'[j].keep = market[j].keep /\ (j # step => market'[j] = market[j])
  BY <1>1 DEF V2Brings
<1>4. deposit = current_amount /\ Underway
  BY <1>1 DEF V2Brings
<1>5. PaysExpected => lost' = lost /\ out = expected_out
  BY <1>1 DEF V2Brings
<1>6. OnCourse /\ lost = {}
  BY <1>2, <1>3, <1>4, QuietBefore DEF QuietInv
<1>7. expected_out = After(best_result)[step]
  BY <1>2, <1>6 DEF OnCourse
<1>8. PaysExpected
  <2>1. expected_out > 0 /\ expected_out = Paid(step, deposit) /\ expected_out \in Nat
    BY <1>4, <1>6, <1>7, HopPays
  <2>2. QED BY <2>1 DEF PaysExpected
<1>9. Swaps(IF IsV2 THEN 0 ELSE current_amount, After(best_result)[step])
  BY <1>1, <1>2, <1>5, <1>7, <1>8 DEF V2Brings
<1>10. lost' = lost
  BY <1>5, <1>8
<1>11. QED BY <1>2, <1>3, <1>6, <1>7, <1>9, <1>10, QuietReturns

\* So does the swap of a router's step.
LEMMA QuietSwapsRouter ==
    ASSUME IInv, CallsInv, DetectInv, QuietInv, SwapRouter
    PROVE  QuietInv'
<1> SUFFICES ASSUME Quiet' PROVE QuietInv'
  BY DEF QuietInv
<1> DEFINE result == balance'[TokenOut(step)]
<1>1. PICK out \in Nat : RouterBrings(out)
  BY RouterSwap
<1> USE DEF RouterBrings
<1>2. UNCHANGED <<moves, defaulted>> /\ pc' # "build" /\ Underway
  BY <1>1 DEF SwapRouter, Back, Underway
<1>3. Quiet /\ NothingToSweep /\ OnCourse /\ lost = {}
  BY <1>1, <1>2, QuietBefore DEF QuietInv
<1>4. out = After(best_result)[step]
  BY <1>1, <1>2, <1>3, HopPays DEF Quiet
<1>5. Swaps(IF IsV2 THEN 0 ELSE current_amount, After(best_result)[step])
  BY <1>1, <1>4
<1>6. ASSUME step # Size PROVE result = After(best_result)[step]
  <2>1. step \in 1..Size - 1 /\ step \in 0..Size - 1 /\ TokenOut(step) = step /\ step # step - 1
    BY <1>1, <1>6, TokenOutIs
  <2>2. balance'[step] = balance[step] + out
    <3>1. balance[step] \in Nat
      BY <1>2, <2>1 DEF CallsInv, CallInv, Underway
    <3>2. QED BY <1>1, <2>1, <3>1 DEF Swaps
  <2>3. held[step] = 0
    BY <1>1, <1>3, <2>1 DEF NothingToSweep, IsV2
  <2>4. balance[step] = held[step]
    BY <1>2, <2>1 DEF CallsInv, CallInv, WalletInv, Underway
  <2>5. QED BY <1>1, <1>4, <2>1, <2>2, <2>3, <2>4
<1>7. Back(result)
  BY <1>1
<1> HIDE DEF result
<1>8. QED BY <1>1, <1>2, <1>3, <1>5, <1>6, <1>7, QuietReturns

\* What was detected of the pools is kept by every step.
LEMMA DetectStep ==
    ASSUME CallsInv, DetectInv, [SwapNext]_allVars
    PROVE  DetectInv'
<1>1. CASE Next /\ UNCHANGED <<chainVars, walletVars, callVars, lossVars>>
  <2>1. pc = "idle"
    BY <1>1 DEF Next, Iterate, IterateFails, Return, CallsInv, CallInv
  <2>2. QED BY <1>1, <2>1 DEF DetectInv, chainVars, callVars
<1>2. CASE Begin
  BY <1>2, PathIs DEF Begin, vars, DetectInv, Size
<1>3. CASE BuildStep
  <2>1. /\ pc = "build" /\ UNCHANGED <<path, moves>>
        /\ pc' = IF Len(detected') = Size THEN "quote" ELSE "build"
    BY <1>3 DEF BuildStep, vars, chainVars
  <2>2. PICK type \in DetectedAs(market[Len(detected) + 1].type) :
           detected' = Append(detected, type)
    BY <1>3 DEF BuildStep
  <2>3. /\ Len(detected) \in Nat /\ Len(detected) < Size /\ Size \in Nat
        /\ detected \in Seq({"UniV2", "UniV3", "MoeLB"})
        /\ market \in Seq(Market) /\ Len(market) = Size
    BY <2>1 DEF DetectInv, CallsInv, CallInv
  <2>4. type \in {"UniV2", "UniV3", "MoeLB"}
    <3>1. market[Len(detected) + 1] \in Market
      BY <2>3
    <3>2. QED BY <2>2, <3>1 DEF DetectedAs, Market
  <2>5. /\ detected' \in Seq({"UniV2", "UniV3", "MoeLB"})
        /\ Len(detected') = Len(detected) + 1
    BY <2>2, <2>3, <2>4
  <2>6. QED BY <2>1, <2>3, <2>5 DEF DetectInv, Size
<1>4. CASE \E i \in DOMAIN market, amount \in Trades : Move(i, amount)
  BY <1>4 DEF Move, vars, callVars, DetectInv, Size
<1>5. CASE SwapV2 \/ SwapRouter
  <2>1. /\ pc = "swap" /\ UNCHANGED <<path, moves, detected>>
        /\ pc' \in {"quote", "done", "failed"}
    BY <1>5 DEF SwapV2, SwapRouter, ReturnAmount, Unconfirmed, vars
  <2>2. QED BY <2>1 DEF DetectInv, Size
<1>6. CASE QuoteV2 \/ QuoteRouter \/ EnsureApproval \/ Transfer \/ StepFails
  <2>1. /\ UNCHANGED <<path, moves, detected>>
        /\ \/ pc \in {"quote", "approve", "transfer"} /\ pc' \in {"approve", "transfer", "swap"}
           \/ pc' = "failed"
    BY <1>6 DEF QuoteV2, QuoteRouter, EnsureApproval, Transfer, StepFails, vars, chainVars
  <2>2. QED BY <2>1 DEF DetectInv, Size
<1>7. CASE UNCHANGED allVars
  BY <1>7 DEF allVars, vars, chainVars, callVars, DetectInv, Size
<1>8. QED BY <1>1, <1>2, <1>3, <1>4, <1>5, <1>6, <1>7 DEF SwapNext, ExecuteSwap

\* Every step keeps an undisturbed execution on course.
LEMMA QuietStep ==
    ASSUME IInv, CallsInv, DetectInv, QuietInv, [SwapNext]_allVars
    PROVE  QuietInv'
<1>1. CASE Next /\ UNCHANGED <<chainVars, walletVars, callVars, lossVars>>
  <2>1. pc = "idle" /\ pc' = pc
    BY <1>1 DEF Next, Iterate, IterateFails, Return, CallsInv, CallInv, callVars
  <2>2. QED BY <2>1 DEF QuietInv, Quiet
<1>2. CASE \E i \in DOMAIN market, amount \in Trades : Move(i, amount)
  <2>1. moves' # 0
    BY <1>2 DEF Move, DetectInv
  <2>2. QED BY <2>1 DEF QuietInv, Quiet
<1>3. CASE StepFails
  BY <1>3 DEF StepFails, QuietInv, Quiet
<1>4. CASE UNCHANGED allVars
  <2>1. UNCHANGED <<path, best_result, market, moves, balance, held, detected, pc, step,
                    current_amount, expected_out, defaulted, lost>>
    BY <1>4 DEF allVars, vars, chainVars, walletVars, callVars, lossVars
  <2>2. After(best_result)' = After(best_result) /\ Output(best_result)' = Output(best_result)
    BY <2>1, SameAmounts
  <2>3. Quiet' <=> Quiet
    <3>1. FeesAsQuoted' <=> FeesAsQuoted
      BY <2>1 DEF FeesAsQuoted
    <3>2. NothingToSweep' <=> NothingToSweep
      BY <2>1, SameAmounts DEF NothingToSweep
    <3>3. QED BY <2>1, <3>1, <3>2 DEF Quiet
  <2>4. (Underway' <=> Underway) /\ (Unspent' <=> Unspent) /\ (IsV2' <=> IsV2)
    BY <2>1 DEF Underway, Unspent, IsV2
  <2>5. \A t : QuietBalance(t)' = QuietBalance(t)
    BY <2>1, <2>4 DEF QuietBalance
  <2>6. \A p : HopOf(p)' = HopOf(p)
    BY DEF HopOf
  <2>7. OnCourse' <=> OnCourse
    <3>1. Size' = Size
      BY <2>1, SameAmounts
    <3>2. (\A j \in 1..Size : j >= step => HopOf(market[j]) = path[j])'
            <=> \A j \in 1..Size : j >= step => HopOf(market[j]) = path[j]
      BY <2>1, <2>6, <3>1
    <3>3. (\A t \in 0..Size - 1 : balance[t] = QuietBalance(t))'
            <=> \A t \in 0..Size - 1 : balance[t] = QuietBalance(t)
      BY <2>1, <2>5, <3>1
    <3>4. After(best_result)[step]' = After(best_result)[step]
          /\ After(best_result)[step - 1]' = After(best_result)[step - 1]
      BY <2>1, <2>2
    <3>5. QED BY <2>1, <2>4, <3>2, <3>3, <3>4 DEF OnCourse
  <2>8. QED BY <2>1, <2>2, <2>3, <2>4, <2>7 DEF QuietInv
<1>5. QED BY <1>1, <1>2, <1>3, <1>4, CallsStep, QuietBegins, QuietPrepares, QuietTransfers,
             QuietSwapsV2, QuietSwapsRouter DEF SwapNext, ExecuteSwap

\* Steps that all succeed and that nobody disturbs bring what the optimizer
\* had simulated, through V2 pools, which are asked for what the formula says,
\* and through routers, whose results are read off the wallet (execute_swap).
THEOREM QuietIsExact == SwapSpec => []QuietSwapsExact
<1>1. SwapInit => IInv /\ CallsInv /\ DetectInv /\ QuietInv
  <2>1. SwapInit => DetectInv /\ QuietInv
    BY DEF SwapInit, IdleInit, DetectInv, QuietInv, Quiet
  <2>2. QED BY <2>1, CallsInit, InitIInv DEF SwapInit
<1>2. QuietInv => QuietSwapsExact
  BY DEF QuietInv, Quiet, QuietSwapsExact
<1>3. QED BY <1>1, <1>2, CallsStep, DetectStep, QuietStep, PTL DEF SwapSpec

-----------------------------------------------------------------------------
(* The graph.                                                               *)

\* t has what the first n of the sequences ss have, in their order.
Flat(t, ss, n) ==
    /\ \A j \in 1..Len(t) : \E i \in 1..n : \E k \in 1..Len(ss[i]) : t[j] = ss[i][k]
    /\ \A i \in 1..n : \A k \in 1..Len(ss[i]) : \E j \in 1..Len(t) : t[j] = ss[i][k]
    /\ IsInjective(t)

\* The sequences have no element twice, and none of another's.
Apart(ss, N) ==
    \A i, j \in 1..N : \A k \in 1..Len(ss[i]), l \in 1..Len(ss[j]) :
        ss[i][k] = ss[j][l] => i = j /\ k = l

\* One more sequence keeps that.
LEMMA FlatNext ==
    ASSUME NEW T, NEW N \in Nat, NEW ss \in [1..N -> Seq(T)], Apart(ss, N),
           NEW n \in 0..N - 1, NEW t \in Seq(T), Flat(t, ss, n)
    PROVE  t \o ss[n + 1] \in Seq(T) /\ Flat(t \o ss[n + 1], ss, n + 1)
<1> DEFINE r == ss[n + 1]
           u == t \o r
           L == Len(t)
           M == Len(r)
<1>1. n \in Nat /\ n + 1 \in 1..N /\ r \in Seq(T) /\ L \in Nat /\ M \in Nat /\ n + 1 \in 1..n + 1
  OBVIOUS
<1>2. /\ u \in Seq(T) /\ Len(u) = L + M /\ DOMAIN t = 1..L /\ DOMAIN u = 1..L + M
      /\ \A j \in 1..L : u[j] = t[j]
      /\ \A k \in 1..M : u[L + k] = r[k]
  <2>1. u \in Seq(T) /\ Len(u) = L + M
    BY <1>1, ConcatProperties
  <2>2. \A j \in 1..L + M : u[j] = IF j <= L THEN t[j] ELSE r[j - L]
    BY <1>1, ConcatProperties
  <2>3. \A j \in 1..L : j \in 1..L + M /\ j <= L
    BY <1>1
  <2>4. \A k \in 1..M : L + k \in 1..L + M /\ ~(L + k <= L) /\ (L + k) - L = k
    BY <1>1
  <2> HIDE DEF u, r
  <2>5. \A k \in 1..M : u[L + k] = r[k]
    <3> TAKE k \in 1..M
    <3>1. L + k \in 1..L + M /\ ~(L + k <= L) /\ (L + k) - L = k
      BY <2>4
    <3>2. u[L + k] = IF L + k <= L THEN t[L + k] ELSE r[(L + k) - L]
      BY <2>2, <3>1
    <3>3. QED BY <3>1, <3>2
  <2>6. \A j \in 1..L : u[j] = t[j]
    BY <2>2, <2>3
  <2>7. QED BY <2>1, <2>5, <2>6
<1> HIDE DEF u
<1>3. \A j \in 1..L + M : j \in 1..L \/ \E k \in 1..M : j = L + k
  <2> TAKE j \in 1..L + M
  <2>1. j \in 1..L \/ (j - L \in 1..M /\ j = L + (j - L))
    BY <1>1
  <2>2. QED BY <2>1
<1>4. \A i \in 1..n + 1 : i \in 1..n \/ i = n + 1
  BY <1>1
<1>5. \A i \in 1..n : i \in 1..n + 1 /\ i \in 1..N /\ i # n + 1
  BY <1>1
<1>6. \A j \in 1..L : j \in 1..L + M
  BY <1>1
<1>7. \A k \in 1..M : L + k \in 1..L + M
  BY <1>1
<1> HIDE DEF L, M, r
<1>8. /\ \A j \in 1..L : \E i \in 1..n : \E k \in 1..Len(ss[i]) : t[j] = ss[i][k]
      /\ \A i \in 1..n : \A k \in 1..Len(ss[i]) : \E j \in 1..L : t[j] = ss[i][k]
      /\ \A i, j \in 1..L : t[i] = t[j] => i = j
  BY <1>2 DEF Flat, IsInjective, L
<1>9. \A j \in 1..L + M : \E i \in 1..n + 1 : \E k \in 1..Len(ss[i]) : u[j] = ss[i][k]
  <2> TAKE j \in 1..L + M
  <2>1. CASE j \in 1..L
    <3>1. PICK i \in 1..n : \E k \in 1..Len(ss[i]) : t[j] = ss[i][k]
      BY <1>8, <2>1
    <3>2. u[j] = t[j] /\ i \in 1..n + 1
      BY <1>2, <1>5, <2>1
    <3>3. QED BY <3>1, <3>2
  <2>2. CASE \E k \in 1..M : j = L + k
    BY <1>1, <1>2, <2>2, Zenon DEF M, r
  <2>3. QED BY <1>3, <2>1, <2>2
<1>10. \A i \in 1..n + 1 : \A k \in 1..Len(ss[i]) : \E j \in 1..L + M : u[j] = ss[i][k]
  <2> TAKE i \in 1..n + 1
  <2> TAKE k \in 1..Len(ss[i])
  <2>1. CASE i \in 1..n
    <3>1. PICK j \in 1..L : t[j] = ss[i][k]
      BY <1>8, <2>1
    <3>2. u[j] = t[j] /\ j \in 1..L + M
      BY <1>2, <1>6
    <3>3. QED BY <3>1, <3>2
  <2>2. CASE i = n + 1
    <3>1. k \in 1..M /\ r[k] = ss[i][k]
      BY <2>2 DEF M, r
    <3>2. L + k \in 1..L + M /\ u[L + k] = r[k]
      BY <1>2, <1>7, <3>1
    <3>3. QED BY <3>1, <3>2
  <2>3. QED BY <1>4, <2>1, <2>2
<1>11. \A j \in 1..L, k \in 1..M : t[j] # r[k]
  <2> SUFFICES ASSUME NEW j \in 1..L, NEW k \in 1..M, t[j] = r[k] PROVE FALSE
    OBVIOUS
  <2>1. PICK i \in 1..n : \E l \in 1..Len(ss[i]) : t[j] = ss[i][l]
    BY <1>8
  <2>2. PICK l \in 1..Len(ss[i]) : t[j] = ss[i][l]
    BY <2>1
  <2>3. i = n + 1
    BY <1>1, <1>5, <2>2, Zenon DEF Apart, M, r
  <2>4. QED BY <1>5, <2>3
<1>12. \A k, l \in 1..M : r[k] = r[l] => k = l
  BY <1>1, Zenon DEF Apart, M, r
<1>13. \A i, j \in 1..L + M : u[i] = u[j] => i = j
  <2> SUFFICES ASSUME NEW i \in 1..L + M, NEW j \in 1..L + M, u[i] = u[j] PROVE i = j
    OBVIOUS
  <2>1. CASE i \in 1..L /\ j \in 1..L
    BY <1>2, <1>8, <2>1
  <2>2. CASE i \in 1..L /\ \E l \in 1..M : j = L + l
    <3>1. PICK l \in 1..M : j = L + l
      BY <2>2
    <3>2. u[i] = t[i] /\ u[j] = r[l]
      BY <1>2, <2>2, <3>1
    <3>3. QED BY <1>11, <2>2, <3>2
  <2>3. CASE j \in 1..L /\ \E l \in 1..M : i = L + l
    <3>1. PICK l \in 1..M : i = L + l
      BY <2>3
    <3>2. u[j] = t[j] /\ u[i] = r[l]
      BY <1>2, <2>3, <3>1
    <3>3. QED BY <1>11, <2>3, <3>2
  <2>4. CASE (\E k \in 1..M : i = L + k) /\ \E l \in 1..M : j = L + l
    BY <1>2, <1>12, <2>4
  <2>5. QED BY <1>3, <2>1, <2>2, <2>3, <2>4
<1>14. QED BY <1>2, <1>9, <1>10, <1>13 DEF Flat, IsInjective, u, r, L, M

\* FlattenSeq gives every element of the sequences, once.
LEMMA FlattenIs ==
    ASSUME NEW T, NEW N \in Nat, NEW ss \in [1..N -> Seq(T)], Apart(ss, N)
    PROVE  FlattenSeq(ss) \in Seq(T) /\ Flat(FlattenSeq(ss), ss, N)
<1>1. Len(ss) = N
  OBVIOUS
<1>2. CASE N = 0
  <2>1. ss = <<>> /\ FlattenSeq(ss) = ss
    BY <1>1, <1>2 DEF FlattenSeq
  <2>2. Flat(<<>>, ss, 0)
    BY DEF Flat, IsInjective
  <2>3. <<>> \in Seq(T)
    OBVIOUS
  <2>4. FlattenSeq(ss) = <<>>
    BY <2>1
  <2>5. QED BY <1>2, <2>2, <2>3, <2>4, Zenon
<1>3. CASE N > 0
  <2> DEFINE Is(f) == f = [i \in 1..N |-> IF i = 1 THEN ss[i] ELSE f[i - 1] \o ss[i]]
             Take == [x \in Seq(T) \X (1..N) |-> x[1] \o ss[x[2]]]
             g == CHOOSE f : Is(f)
             G == {n \in 0..N : n = 0 \/ (g[n] \in Seq(T) /\ Flat(g[n], ss, n))}
  <2>1. Take \in [Seq(T) \X (1..N) -> Seq(T)] /\ <<>> \in Seq(T)
    OBVIOUS
  <2>2. PICK f : Computes(f, Seq(T), <<>>, N, Take)
    <3> HIDE DEF Take, Is
    <3>1. QED BY <2>1, FoldExists
  <2> DEFINE h == [i \in 1..N |-> f[i]]
  <2>3. \A i \in 1..N : h[i] = IF i = 1 THEN ss[i] ELSE h[i - 1] \o ss[i]
    <3> TAKE i \in 1..N
    <3>1. i - 1 \in 0..N /\ f[i] = Take[<<f[i - 1], i>>] /\ f[i - 1] \in Seq(T)
      <4>1. i - 1 \in 0..N /\ f \in [0..N -> Seq(T)]
        BY <2>2 DEF Computes
      <4> HIDE DEF Take, h
      <4>2. f[i] = Take[<<f[i - 1], i>>]
        BY <2>2 DEF Computes
      <4>3. QED BY <4>1, <4>2
    <3>2. f[i] = f[i - 1] \o ss[i]
      BY <3>1
    <3>3. CASE i = 1
      <4>1. f[i - 1] = <<>> /\ ss[i] \in Seq(T)
        BY <2>2, <3>3 DEF Computes
      <4>2. <<>> \o ss[i] = ss[i]
        BY <4>1, ConcatEmptySeq
      <4>3. QED BY <3>2, <3>3, <4>1, <4>2
    <3>4. CASE i # 1
      BY <3>2, <3>4
    <3>5. QED BY <3>3, <3>4
  <2>4. Is(h)
    <3>1. h = [i \in 1..N |-> h[i]]
      OBVIOUS
    <3> HIDE DEF h
    <3>2. QED BY <2>3, <3>1
  <2>5. Is(g)
    BY <2>4, Zenon
  <2>6. FlattenSeq(ss) = g[N]
    BY <1>1, <1>3 DEF FlattenSeq
  <2> HIDE DEF g, h, Take
  <2>7. g[1] = ss[1] /\ \A n \in 2..N : g[n] = g[n - 1] \o ss[n]
    <3>1. \A n \in 2..N : n \in 1..N /\ n # 1
      OBVIOUS
    <3>2. 1 \in 1..N
      BY <1>3
    <3>3. \A n \in 1..N : g[n] = IF n = 1 THEN ss[n] ELSE g[n - 1] \o ss[n]
      BY <2>5, Zenon
    <3>4. QED BY <3>1, <3>2, <3>3
  <2>8. 0 \in G
    BY <1>3
  <2>9. ASSUME NEW n \in 0..N - 1, n \in G PROVE n + 1 \in G
    <3>1. n + 1 \in 0..N /\ n + 1 \in 1..N
      OBVIOUS
    <3>2. CASE n = 0
      <4>1. <<>> \in Seq(T) /\ Flat(<<>>, ss, 0)
        BY DEF Flat, IsInjective
      <4>2. <<>> \o ss[1] \in Seq(T) /\ Flat(<<>> \o ss[1], ss, 1)
        <5>1. 0 \in 0..N - 1 /\ 0 + 1 = 1
          BY <1>3
        <5>2. QED BY <4>1, <5>1, FlatNext
      <4>3. <<>> \o ss[1] = ss[1]
        <5>1. ss[1] \in Seq(T)
          BY <1>3
        <5>2. QED BY <5>1, ConcatEmptySeq
      <4>4. g[1] \in Seq(T) /\ Flat(g[1], ss, 1)
        BY <2>7, <4>2, <4>3
      <4>5. QED BY <3>1, <3>2, <4>4
    <3>3. CASE n # 0
      <4>1. g[n] \in Seq(T) /\ Flat(g[n], ss, n)
        BY <2>9, <3>3
      <4>2. g[n] \o ss[n + 1] \in Seq(T) /\ Flat(g[n] \o ss[n + 1], ss, n + 1)
        BY <4>1, FlatNext
      <4>3. n + 1 \in 2..N /\ (n + 1) - 1 = n
        BY <3>3
      <4>4. g[n + 1] = g[n] \o ss[n + 1]
        BY <2>7, <4>3
      <4>5. QED BY <3>1, <4>2, <4>4
    <3>4. QED BY <3>2, <3>3
  <2>10. \A n \in 0..N : n \in G
    <3> HIDE DEF G
    <3>1. QED BY <2>8, <2>9, UpTo
  <2>11. QED BY <1>3, <2>6, <2>10
<1>4. QED BY <1>2, <1>3

PoolTypes == pools \in [1..NumPools -> Pairs \cup {Unsupported}]

\* The two edges of a pool.
LEMMA EdgesOfIs ==
    ASSUME PoolTypes, NEW p \in 1..NumPools
    PROVE  /\ EdgesOf(p) \in Seq(Edge)
           /\ \A k \in 1..Len(EdgesOf(p)) : EdgesOf(p)[k].pool = p
           /\ \A k, l \in 1..Len(EdgesOf(p)) : EdgesOf(p)[k] = EdgesOf(p)[l] => k = l
           /\ \A e \in PoolSwaps : e.pool = p => \E k \in 1..Len(EdgesOf(p)) : EdgesOf(p)[k] = e
           /\ \A k \in 1..Len(EdgesOf(p)) : EdgesOf(p)[k] \in PoolSwaps
<1>1. CASE pools[p] = Unsupported
  <2>1. EdgesOf(p) = <<>>
    BY <1>1 DEF EdgesOf
  <2>2. Len(<<>>) = 0 /\ <<>> \in Seq(Edge)
    OBVIOUS
  <2>3. \A e \in PoolSwaps : e.pool # p
    BY <1>1 DEF PoolSwaps
  <2> HIDE DEF PoolSwaps
  <2>4. \A k \in 1..Len(EdgesOf(p)) : FALSE
    BY <2>1, <2>2
  <2>5. QED BY <2>1, <2>2, <2>3, <2>4
<1>2. CASE pools[p] # Unsupported
  <2> DEFINE a == pools[p][1]
             b == pools[p][2]
             e1 == [pool |-> p, token_in |-> a, token_out |-> b]
             e2 == [pool |-> p, token_in |-> b, token_out |-> a]
  <2>1. pools[p] \in Tokens \X Tokens /\ a # b
    BY <1>2 DEF PoolTypes, Pairs
  <2>2. a \in Tokens /\ b \in Tokens /\ pools[p] = <<a, b>>
    BY <2>1
  <2>3. ToSet(pools[p]) = {a, b}
    <3>1. DOMAIN <<a, b>> = 1..2 /\ \A i \in 1..2 : i = 1 \/ i = 2
      OBVIOUS
    <3>2. ToSet(<<a, b>>) = {<<a, b>>[i] : i \in 1..2}
      BY <3>1 DEF ToSet
    <3>3. 1 \in 1..2 /\ 2 \in 1..2 /\ <<a, b>>[1] = a /\ <<a, b>>[2] = b
      OBVIOUS
    <3>4. QED BY <2>2, <3>1, <3>2, <3>3
  <2>4. EdgesOf(p) = <<e1, e2>>
    BY <1>2 DEF EdgesOf
  <2>5. e1 \in Edge /\ e2 \in Edge /\ e1 # e2
    BY <2>1, <2>2 DEF Edge
  <2>6. /\ Len(<<e1, e2>>) = 2 /\ <<e1, e2>> \in Seq(Edge)
        /\ <<e1, e2>>[1] = e1 /\ <<e1, e2>>[2] = e2
    BY <2>5
  <2>7. {e1.token_in, e1.token_out} = {a, b} /\ {e2.token_in, e2.token_out} = {a, b} /\ e1.pool = p /\ e2.pool = p
    OBVIOUS
  <2>8. e1 \in PoolSwaps /\ e2 \in PoolSwaps
    BY <1>2, <2>3, <2>5, <2>7 DEF PoolSwaps
  <2>9. ASSUME NEW e \in PoolSwaps, e.pool = p PROVE e = e1 \/ e = e2
    <3>1. e \in Edge /\ {e.token_in, e.token_out} = {a, b}
      BY <2>3, <2>9 DEF PoolSwaps
    <3>2. e = [pool |-> p, token_in |-> e.token_in, token_out |-> e.token_out]
      BY <2>9, <3>1 DEF Edge
    <3>3. (e.token_in = a /\ e.token_out = b) \/ (e.token_in = b /\ e.token_out = a)
      BY <2>1, <3>1
    <3>4. QED BY <3>2, <3>3
  <2> HIDE DEF e1, e2
  <2>10. \A k \in 1..Len(EdgesOf(p)) : (k = 1 /\ EdgesOf(p)[k] = e1) \/ (k = 2 /\ EdgesOf(p)[k] = e2)
    BY <2>4, <2>6
  <2>11. 1 \in 1..Len(EdgesOf(p)) /\ 2 \in 1..Len(EdgesOf(p)) /\ EdgesOf(p)[1] = e1 /\ EdgesOf(p)[2] = e2
    BY <2>4, <2>6
  <2>12. EdgesOf(p) \in Seq(Edge)
    BY <2>4, <2>6
  <2>13. \A k \in 1..Len(EdgesOf(p)) : EdgesOf(p)[k].pool = p
    BY <2>7, <2>10
  <2>14. \A k, l \in 1..Len(EdgesOf(p)) : EdgesOf(p)[k] = EdgesOf(p)[l] => k = l
    BY <2>5, <2>10
  <2>15. \A e \in PoolSwaps : e.pool = p => \E k \in 1..Len(EdgesOf(p)) : EdgesOf(p)[k] = e
    BY <2>9, <2>11
  <2>16. \A k \in 1..Len(EdgesOf(p)) : EdgesOf(p)[k] \in PoolSwaps
    BY <2>8, <2>10
  <2>17. QED BY <2>12, <2>13, <2>14, <2>15, <2>16
<1>3. QED BY <1>1, <1>2

\* build_graph adds each swap of each pool as an edge, once.
LEMMA EdgesAre ==
    ASSUME PoolTypes
    PROVE  LET es == FlattenSeq([p \in 1..NumPools |-> EdgesOf(p)])
           IN  es \in Seq(Edge) /\ Range(es) = PoolSwaps /\ IsInjective(es)
<1> DEFINE ss == [p \in 1..NumPools |-> EdgesOf(p)]
           es == FlattenSeq(ss)
<1>1. NumPools \in Nat
  BY FinderAssumption
<1>2. ss \in [1..NumPools -> Seq(Edge)] /\ \A p \in 1..NumPools : ss[p] = EdgesOf(p)
  BY EdgesOfIs
<1> HIDE DEF ss
<1>3. Apart(ss, NumPools)
  <2> SUFFICES ASSUME NEW i \in 1..NumPools, NEW j \in 1..NumPools,
                      NEW k \in 1..Len(ss[i]), NEW l \in 1..Len(ss[j]), ss[i][k] = ss[j][l]
               PROVE  i = j /\ k = l
    BY DEF Apart
  <2>1. ss[i] = EdgesOf(i) /\ ss[j] = EdgesOf(j)
    BY <1>2
  <2>2. ss[i][k].pool = i /\ ss[j][l].pool = j
    BY <2>1, EdgesOfIs
  <2>3. i = j
    BY <2>2
  <2>4. QED BY <2>1, <2>3, EdgesOfIs
<1>4. es \in Seq(Edge) /\ Flat(es, ss, NumPools)
  BY <1>1, <1>2, <1>3, FlattenIs
<1> HIDE DEF es
<1>5. DOMAIN es = 1..Len(es)
  BY <1>4
<1>6. \A j \in 1..Len(es) : es[j] \in PoolSwaps
  <2> TAKE j \in 1..Len(es)
  <2>1. PICK i \in 1..NumPools : \E k \in 1..Len(ss[i]) : es[j] = ss[i][k]
    BY <1>4 DEF Flat
  <2>2. PICK k \in 1..Len(ss[i]) : es[j] = ss[i][k]
    BY <2>1
  <2>3. ss[i] = EdgesOf(i)
    BY <1>2
  <2>4. QED BY <2>2, <2>3, EdgesOfIs
<1>7. ASSUME NEW e \in PoolSwaps PROVE \E j \in 1..Len(es) : es[j] = e
  <2>1. e.pool \in 1..NumPools
    BY DEF PoolSwaps, Edge
  <2>2. PICK k \in 1..Len(EdgesOf(e.pool)) : EdgesOf(e.pool)[k] = e
    BY <2>1, EdgesOfIs
  <2>3. ss[e.pool] = EdgesOf(e.pool)
    BY <1>2, <2>1
  <2>4. \A i \in 1..NumPools : \A m \in 1..Len(ss[i]) : \E j \in 1..Len(es) : es[j] = ss[i][m]
    BY <1>4 DEF Flat
  <2>5. QED BY <2>1, <2>2, <2>3, <2>4
<1>8. Range(es) = PoolSwaps
  BY <1>5, <1>6, <1>7 DEF Range
<1>9. QED BY <1>4, <1>8 DEF Flat, es, ss

\* A node is added for the token an edge goes from, once.
LEMMA NodesAre ==
    ASSUME NEW es \in Seq(Edge)
    PROVE  /\ NodesOf(es) \in Seq(Tokens)
           /\ Range(NodesOf(es)) = {e.token_in : e \in Range(es)}
           /\ IsInjective(NodesOf(es))
<1> DEFINE N == Len(es)
           Is(f) == f = [n \in 0..N |-> IF n = 0 THEN <<>> ELSE AddNode(f[n - 1], es[n].token_in)]
           Take == [x \in Seq(Tokens) \X (1..N) |-> AddNode(x[1], es[x[2]].token_in)]
           g == CHOOSE f : Is(f)
           Known(t, n) == /\ \A j \in 1..Len(t) : \E k \in 1..n : t[j] = es[k].token_in
                          /\ \A k \in 1..n : \E j \in 1..Len(t) : t[j] = es[k].token_in
                          /\ \A i, j \in 1..Len(t) : t[i] = t[j] => i = j
           G == {n \in 0..N : g[n] \in Seq(Tokens) /\ Known(g[n], n)}
<1>1. N \in Nat /\ \A n \in 1..N : es[n].token_in \in Tokens
  <2>1. \A n \in 1..N : es[n] \in Edge
    OBVIOUS
  <2>2. QED BY <2>1 DEF Edge
<1>2. \A t \in Seq(Tokens) : \A x \in Tokens : AddNode(t, x) \in Seq(Tokens)
  BY DEF AddNode
<1>3. Take \in [Seq(Tokens) \X (1..N) -> Seq(Tokens)]
  <2>1. \A x \in Seq(Tokens) \X (1..N) : x[1] \in Seq(Tokens) /\ x[2] \in 1..N
    OBVIOUS
  <2> HIDE DEF N
  <2>2. \A x \in Seq(Tokens) \X (1..N) : AddNode(x[1], es[x[2]].token_in) \in Seq(Tokens)
    BY <1>1, <1>2, <2>1
  <2>3. QED BY <2>2
<1>4. PICK f : Computes(f, Seq(Tokens), <<>>, N, Take)
  <2>1. <<>> \in Seq(Tokens)
    OBVIOUS
  <2> HIDE DEF N, Take
  <2>2. QED BY <1>1, <1>3, <2>1, FoldExists
<1>5. Is(f)
  <2>1. \A n \in 1..N : f[n - 1] \in Seq(Tokens)
    BY <1>1, <1>4 DEF Computes
  <2>2. \A n \in 0..N : n = 0 \/ n \in 1..N
    BY <1>1
  <2>3. \A n \in 0..N : f[n] = IF n = 0 THEN <<>> ELSE AddNode(f[n - 1], es[n].token_in)
    BY <1>4, <2>1, <2>2 DEF Computes
  <2>4. QED BY <1>4, <2>3 DEF Computes
<1>6. Is(g)
  BY <1>5, Zenon
<1>7. NodesOf(es) = g[N]
  BY DEF NodesOf
<1> HIDE DEF g, Take
<1>8. g[0] = <<>>
  BY <1>1, <1>6
<1>9. ASSUME NEW n \in 0..N - 1 PROVE g[n + 1] = AddNode(g[n], es[n + 1].token_in)
  <2>1. n + 1 \in 0..N /\ n + 1 # 0 /\ (n + 1) - 1 = n
    BY <1>1
  <2>2. \A m \in 0..N : g[m] = IF m = 0 THEN <<>> ELSE AddNode(g[m - 1], es[m].token_in)
    BY <1>6, Zenon
  <2>3. QED BY <2>1, <2>2
<1>10. 0 \in G
  <2>1. g[0] \in Seq(Tokens) /\ Len(g[0]) = 0
    BY <1>8
  <2>2. Known(g[0], 0)
    BY <2>1
  <2>3. QED BY <1>1, <2>1, <2>2
<1>11. ASSUME NEW n \in 0..N - 1, n \in G PROVE n + 1 \in G
  <2> DEFINE t == g[n]
             x == es[n + 1].token_in
             u == AddNode(t, x)
  <2>1. n + 1 \in 1..N /\ n + 1 \in 0..N /\ n + 1 \in 1..n + 1 /\ x \in Tokens /\ n \in Nat
    BY <1>1
  <2>2. t \in Seq(Tokens) /\ Known(t, n)
    BY <1>11
  <2>3. u \in Seq(Tokens)
    BY <1>2, <2>1, <2>2
  <2>4. \A k \in 1..n + 1 : k \in 1..n \/ k = n + 1
    BY <2>1
  <2>5. \A k \in 1..n : k \in 1..n + 1
    BY <2>1
  <2>6. ASSUME Contains(t, x) PROVE Known(u, n + 1)
    <3>1. u = t /\ \E j \in 1..Len(t) : t[j] = x
      BY <2>6 DEF AddNode, Contains
    <3> HIDE DEF t, u
    <3>2. /\ \A j \in 1..Len(t) : \E k \in 1..n + 1 : t[j] = es[k].token_in
          /\ \A i, j \in 1..Len(t) : t[i] = t[j] => i = j
      BY <2>2, <2>5
    <3>3. \A k \in 1..n + 1 : \E j \in 1..Len(t) : t[j] = es[k].token_in
      BY <2>2, <2>4, <3>1
    <3>4. QED BY <3>1, <3>2, <3>3
  <2>7. ASSUME ~Contains(t, x) PROVE Known(u, n + 1)
    <3>1. u = Append(t, x) /\ \A j \in 1..Len(t) : t[j] # x
      BY <2>7 DEF AddNode, Contains
    <3>2. /\ Len(u) = Len(t) + 1 /\ u[Len(t) + 1] = x /\ Len(t) \in Nat
          /\ \A j \in 1..Len(t) : u[j] = t[j] /\ j \in 1..Len(u)
      BY <2>1, <2>2, <3>1
    <3>3. \A j \in 1..Len(u) : j \in 1..Len(t) \/ j = Len(t) + 1
      BY <3>2
    <3>4. Len(t) + 1 \in 1..Len(u)
      BY <3>2
    <3> HIDE DEF t, u
    <3>5. \A j \in 1..Len(u) : \E k \in 1..n + 1 : u[j] = es[k].token_in
      <4> TAKE j \in 1..Len(u)
      <4>1. CASE j \in 1..Len(t)
        <5>1. PICK k \in 1..n : t[j] = es[k].token_in
          BY <2>2, <4>1
        <5>2. QED BY <2>5, <3>2, <4>1, <5>1
      <4>2. CASE j = Len(t) + 1
        BY <2>1, <3>2, <4>2
      <4>3. QED BY <3>3, <4>1, <4>2
    <3>6. \A k \in 1..n + 1 : \E j \in 1..Len(u) : u[j] = es[k].token_in
      <4> TAKE k \in 1..n + 1
      <4>1. CASE k \in 1..n
        <5>1. PICK j \in 1..Len(t) : t[j] = es[k].token_in
          BY <2>2, <4>1
        <5>2. QED BY <3>2, <5>1
      <4>2. CASE k = n + 1
        BY <3>2, <3>4, <4>2
      <4>3. QED BY <2>4, <4>1, <4>2
    <3>7. \A i, j \in 1..Len(u) : u[i] = u[j] => i = j
      BY <2>2, <3>1, <3>2, <3>3
    <3>8. QED BY <3>5, <3>6, <3>7
  <2>8. Known(u, n + 1)
    BY <2>6, <2>7
  <2>9. g[n + 1] = u
    BY <1>9
  <2> HIDE DEF u, Known
  <2>10. QED BY <2>1, <2>3, <2>8, <2>9
<1>12. N \in G
  <2>1. \A n \in 0..N : n \in G
    <3> HIDE DEF G, N
    <3>1. QED BY <1>1, <1>10, <1>11, UpTo
  <2>2. N \in 0..N
    BY <1>1
  <2>3. QED BY <2>1, <2>2
<1> DEFINE t == NodesOf(es)
<1>13. t \in Seq(Tokens) /\ Known(t, N)
  BY <1>7, <1>12
<1> HIDE DEF t, N, G
<1>14. DOMAIN t = 1..Len(t) /\ DOMAIN es = 1..N
  BY <1>13 DEF N
<1>15. Range(t) = {e.token_in : e \in Range(es)}
  <2>1. Range(t) = {t[j] : j \in 1..Len(t)} /\ Range(es) = {es[k] : k \in 1..N}
    BY <1>14 DEF Range
  <2>2. {e.token_in : e \in Range(es)} = {es[k].token_in : k \in 1..N}
    BY <2>1
  <2>3. QED BY <1>13, <2>1, <2>2
<1>16. IsInjective(t)
  BY <1>13, <1>14 DEF IsInjective
<1>17. QED BY <1>13, <1>15, <1>16 DEF t

-----------------------------------------------------------------------------
(* Paths.                                                                   *)

\* The cycles a search should find.
CyclesOf == {route \in UNION {[1..n -> PoolSwaps] : n \in 1..max_length} :
                IsCycle(route) /\ Matches(route)}

\* p is where c starts.
Starts(p, c) == Len(p) <= Len(c) /\ \A i \in 1..Len(p) : p[i] = c[i]

\* A path the search from s may have in its queue: it has not come back to s,
\* and to no other token twice unless asked.
Trail(p, s) ==
    /\ p \in Seq(PoolSwaps)
    /\ Len(p) <= max_length
    /\ Joined(p)
    /\ p # <<>> => p[1].token_in = s
    /\ \A i \in 1..Len(p) : p[i].token_out # s
    /\ ~constraints.allow_self_cycle =>
          \A i, j \in 1..Len(p) : p[i].token_out = p[j].token_out => i = j

\* Its entry.
EntryOf(p, s) == [node |-> IF p = <<>> THEN s ELSE p[Len(p)].token_out,
                  path |-> p,
                  tokens_seen |-> {s} \cup {p[i].token_out : i \in 1..Len(p)}]

\* The swaps the search goes on with from there.
Nexts(p, s) ==
    {e \in PoolSwaps :
        /\ ~TooLong(p)
        /\ e.token_in = EntryOf(p, s).node
        /\ \/ constraints.allow_self_cycle
           \/ e.token_out \notin EntryOf(p, s).tokens_seen
           \/ e.token_out = s}

\* Append, as the proofs below use it.
LEMMA AppendIs ==
    ASSUME NEW T, NEW p \in Seq(T), NEW e \in T
    PROVE  /\ Append(p, e) \in Seq(T) /\ Len(p) \in Nat /\ Append(p, e) # <<>>
           /\ Len(Append(p, e)) = Len(p) + 1
           /\ Append(p, e)[Len(p) + 1] = e
           /\ \A i \in 1..Len(p) : Append(p, e)[i] = p[i] /\ i \in 1..Len(p) + 1 /\ i # Len(p) + 1
           /\ \A i \in 1..Len(p) + 1 : i \in 1..Len(p) \/ i = Len(p) + 1
           /\ Len(p) + 1 \in 1..Len(p) + 1
OBVIOUS

\* A path is where its extensions start, and what starts one starts the path or
\* is the extension.
LEMMA StartsIs ==
    ASSUME NEW T, NEW p \in Seq(T), NEW e \in T, NEW q \in Seq(T)
    PROVE  /\ Starts(p, Append(p, e))
           /\ Starts(Append(p, e), q) => Starts(p, q)
           /\ Starts(q, Append(p, e)) => Starts(q, p) \/ q = Append(p, e)
<1> DEFINE u == Append(p, e)
<1>1. /\ u \in Seq(T) /\ Len(p) \in Nat /\ Len(u) = Len(p) + 1
      /\ \A i \in 1..Len(p) : u[i] = p[i] /\ i \in 1..Len(p) + 1
  BY AppendIs
<1> HIDE DEF u
<1>2. Starts(p, u)
  BY <1>1 DEF Starts
<1>3. Starts(u, q) => Starts(p, q)
  BY <1>1 DEF Starts
<1>4. ASSUME Starts(q, u) PROVE Starts(q, p) \/ q = u
  <2>1. CASE Len(q) <= Len(p)
    <3>1. \A i \in 1..Len(q) : i \in 1..Len(p)
      BY <1>1, <2>1
    <3>2. QED BY <1>1, <1>4, <2>1, <3>1 DEF Starts
  <2>2. CASE ~(Len(q) <= Len(p))
    <3>1. Len(q) = Len(u)
      BY <1>1, <1>4, <2>2 DEF Starts
    <3>2. \A i \in 1..Len(q) : q[i] = u[i]
      BY <1>4 DEF Starts
    <3>3. q = u
      BY <1>1, <3>1, <3>2, SeqEqual
    <3>4. QED BY <3>3
  <2>3. QED BY <2>1, <2>2
<1>5. QED BY <1>2, <1>3, <1>4 DEF u

\* A swap through a pool is an edge between two tokens.
LEMMA SwapTypes ==
    \A e \in PoolSwaps : e \in Edge /\ e.token_in \in Tokens /\ e.token_out \in Tokens
BY DEF PoolSwaps, Edge

\* What the search enters is a trail again, and its entry is what the code makes of it.
LEMMA TrailNext ==
    ASSUME NEW s, NEW p, Trail(p, s), NEW e \in Nexts(p, s), e.token_out # s,
           max_length \in Nat
    PROVE  /\ Trail(Append(p, e), s)
           /\ EntryOf(Append(p, e), s) =
                 [node |-> e.token_out, path |-> Append(p, e),
                  tokens_seen |-> EntryOf(p, s).tokens_seen \cup {e.token_out}]
<1> DEFINE u == Append(p, e)
           k == Len(p)
<1>1. p \in Seq(PoolSwaps) /\ e \in PoolSwaps
  BY DEF Trail, Nexts
<1>2. /\ u \in Seq(PoolSwaps) /\ k \in Nat /\ u # <<>> /\ Len(u) = k + 1 /\ u[k + 1] = e
      /\ \A i \in 1..k : u[i] = p[i] /\ i \in 1..k + 1 /\ i # k + 1
      /\ \A i \in 1..k + 1 : i \in 1..k \/ i = k + 1
      /\ k + 1 \in 1..k + 1
  BY <1>1, AppendIs
<1>3. k + 1 <= max_length
  BY <1>2 DEF Nexts, TooLong
<1>4. p = <<>> <=> k = 0
  BY <1>1
<1>5. e.token_in = IF p = <<>> THEN s ELSE p[k].token_out
  BY DEF Nexts, EntryOf
<1> HIDE DEF u, k
<1>6. ASSUME NEW i \in 1..(k + 1) - 1 PROVE u[i].token_out = u[i + 1].token_in
  <2>1. i \in 1..k /\ (i = k \/ (i \in 1..k - 1 /\ i + 1 \in 1..k)) /\ k # 0
    BY <1>2
  <2>2. CASE i = k
    BY <1>2, <1>4, <1>5, <2>1, <2>2
  <2>3. CASE i \in 1..k - 1 /\ i + 1 \in 1..k
    <3>1. p[i].token_out = p[i + 1].token_in
      BY <2>3 DEF Trail, Joined, k
    <3>2. QED BY <1>2, <2>1, <2>3, <3>1
  <2>4. QED BY <2>1, <2>2, <2>3
<1>7. u[1].token_in = s
  <2>1. CASE k = 0
    BY <1>2, <1>4, <1>5, <2>1
  <2>2. CASE k # 0
    <3>1. 1 \in 1..k
      BY <1>2, <2>2
    <3>2. QED BY <1>2, <1>4, <2>2, <3>1 DEF Trail
  <2>3. QED BY <2>1, <2>2
<1>8. \A i \in 1..k + 1 : u[i].token_out # s
  BY <1>2 DEF Trail, k
<1>9. EntryOf(p, s).tokens_seen = {s} \cup {p[i].token_out : i \in 1..k}
  BY DEF EntryOf, k
<1>10. ASSUME ~constraints.allow_self_cycle
       PROVE  \A i, j \in 1..k + 1 : u[i].token_out = u[j].token_out => i = j
  <2>1. \A i \in 1..k : p[i].token_out # e.token_out
    BY <1>9, <1>10 DEF Nexts
  <2>2. \A i, j \in 1..k : p[i].token_out = p[j].token_out => i = j
    BY <1>10 DEF Trail, k
  <2>3. QED BY <1>2, <2>1, <2>2
<1>11. Trail(u, s)
  BY <1>2, <1>3, <1>6, <1>7, <1>8, <1>10 DEF Trail, Joined
<1>12. {u[i].token_out : i \in 1..k + 1} = {p[i].token_out : i \in 1..k} \cup {e.token_out}
  BY <1>2
<1>13. EntryOf(u, s) = [node |-> e.token_out, path |-> u,
                        tokens_seen |-> EntryOf(p, s).tokens_seen \cup {e.token_out}]
  <2>1. /\ u[Len(u)].token_out = e.token_out
        /\ {s} \cup {u[i].token_out : i \in 1..Len(u)} = EntryOf(p, s).tokens_seen \cup {e.token_out}
    BY <1>2, <1>9, <1>12
  <2>2. QED BY <1>2, <2>1 DEF EntryOf
<1>14. QED BY <1>11, <1>13 DEF u

\* A swap back to s closes a cycle.
LEMMA ClosedIs ==
    ASSUME NEW s, NEW p, Trail(p, s), NEW e \in Nexts(p, s), e.token_out = s,
           max_length \in Nat
    PROVE  /\ IsCycle(Append(p, e))
           /\ Append(p, e)[1].token_in = s
           /\ Append(p, e) \in Seq(PoolSwaps)
           /\ Append(p, e) \in UNION {[1..n -> PoolSwaps] : n \in 1..max_length}
<1> DEFINE u == Append(p, e)
           k == Len(p)
<1>1. p \in Seq(PoolSwaps) /\ e \in PoolSwaps
  BY DEF Trail, Nexts
<1>2. /\ u \in Seq(PoolSwaps) /\ k \in Nat /\ u # <<>> /\ Len(u) = k + 1 /\ u[k + 1] = e
      /\ \A i \in 1..k : u[i] = p[i] /\ i \in 1..k + 1 /\ i # k + 1
      /\ \A i \in 1..k + 1 : i \in 1..k \/ i = k + 1
      /\ k + 1 \in 1..k + 1
  BY <1>1, AppendIs
<1>3. k + 1 <= max_length
  BY <1>2 DEF Nexts, TooLong
<1>4. p = <<>> <=> k = 0
  BY <1>1
<1>5. e.token_in = IF p = <<>> THEN s ELSE p[k].token_out
  BY DEF Nexts, EntryOf
<1> HIDE DEF u, k
<1>6. ASSUME NEW i \in 1..(k + 1) - 1 PROVE u[i].token_out = u[i + 1].token_in
  <2>1. i \in 1..k /\ (i = k \/ (i \in 1..k - 1 /\ i + 1 \in 1..k)) /\ k # 0
    BY <1>2
  <2>2. CASE i = k
    BY <1>2, <1>4, <1>5, <2>1, <2>2
  <2>3. CASE i \in 1..k - 1 /\ i + 1 \in 1..k
    <3>1. p[i].token_out = p[i + 1].token_in
      BY <2>3 DEF Trail, Joined, k
    <3>2. QED BY <1>2, <2>1, <2>3, <3>1
  <2>4. QED BY <2>1, <2>2, <2>3
<1>7. u[1].token_in = s
  <2>1. CASE k = 0
    BY <1>2, <1>4, <1>5, <2>1
  <2>2. CASE k # 0
    <3>1. 1 \in 1..k
      BY <1>2, <2>2
    <3>2. QED BY <1>2, <1>4, <2>2, <3>1 DEF Trail
  <2>3. QED BY <2>1, <2>2
<1>8. \A i \in 2..k + 1 : i - 1 \in 1..k /\ u[i].token_in = p[i - 1].token_out
  <2> TAKE i \in 2..k + 1
  <2>1. i - 1 \in 1..k /\ i - 1 \in 1..(k + 1) - 1 /\ (i - 1) + 1 = i
    BY <1>2
  <2>2. u[i - 1].token_out = u[(i - 1) + 1].token_in
    BY <1>6, <2>1
  <2>3. QED BY <1>2, <2>1, <2>2
<1>9. \A i \in 1..k : p[i].token_out # s
  BY DEF Trail, k
<1>10. \A i \in 2..k + 1 : u[i].token_in # u[1].token_in
  BY <1>7, <1>8, <1>9
<1>11. ASSUME ~constraints.allow_self_cycle
       PROVE  \A i, j \in 1..k + 1 : u[i].token_in = u[j].token_in => i = j
  <2>1. \A i, j \in 1..k : p[i].token_out = p[j].token_out => i = j
    BY <1>11 DEF Trail, k
  <2>2. \A i \in 1..k + 1 : i = 1 \/ i \in 2..k + 1
    BY <1>2
  <2> SUFFICES ASSUME NEW i \in 1..k + 1, NEW j \in 1..k + 1, u[i].token_in = u[j].token_in
               PROVE  i = j
    OBVIOUS
  <2>3. CASE i \in 2..k + 1 /\ j \in 2..k + 1
    <3>1. i - 1 = j - 1
      BY <1>8, <2>1, <2>3
    <3>2. QED BY <2>3, <3>1
  <2>4. QED BY <1>10, <2>2, <2>3
<1>12. IsCycle(u)
  <2>1. u[Len(u)].token_out = u[1].token_in
    BY <1>2, <1>7
  <2>2. QED BY <1>2, <1>6, <1>10, <1>11, <2>1 DEF IsCycle, Joined
<1>13. u \in [1..k + 1 -> PoolSwaps] /\ k + 1 \in 1..max_length
  BY <1>2, <1>3
<1>14. QED BY <1>2, <1>7, <1>12, <1>13 DEF u

\* A cycle that starts with a trail goes on with a swap the search goes on with, and
\* ends there if that leads back to s.
LEMMA CycleExtends ==
    ASSUME NEW s, NEW p, Trail(p, s), NEW c \in CyclesOf, c[1].token_in = s, Starts(p, c),
           max_length \in Nat
    PROVE  \E e \in Nexts(p, s) : /\ Starts(Append(p, e), c)
                                  /\ e.token_out = s => c = Append(p, e)
<1> DEFINE n == Len(c)
           k == Len(p)
           e == c[k + 1]
           u == Append(p, e)
<1>1. /\ c \in Seq(PoolSwaps) /\ n \in Nat /\ 1 <= n /\ n <= max_length
      /\ p \in Seq(PoolSwaps) /\ k \in Nat /\ k <= n
  BY DEF CyclesOf, Trail, Starts
<1>2. /\ \A i \in 1..n - 1 : c[i].token_out = c[i + 1].token_in
      /\ c[n].token_out = s
      /\ \A i \in 2..n : c[i].token_in # s
      /\ ~constraints.allow_self_cycle =>
            \A i, j \in 1..n : c[i].token_in = c[j].token_in => i = j
  BY DEF CyclesOf, IsCycle, Joined
<1>3. \A i \in 1..k : p[i] = c[i] /\ p[i].token_out # s
  BY DEF Starts, Trail
<1>4. k < n
  <2>1. k = n => k \in 1..k
    BY <1>1
  <2>2. QED BY <1>1, <1>2, <1>3, <2>1
<1>5. e \in PoolSwaps /\ k + 1 \in 1..n
  BY <1>1, <1>4
<1>6. e.token_in = EntryOf(p, s).node
  <2>1. CASE k = 0
    <3>1. p = <<>>
      BY <1>1, <2>1
    <3>2. QED BY <1>1, <2>1, <3>1 DEF EntryOf
  <2>2. CASE k # 0
    <3>1. p # <<>> /\ k \in 1..n - 1 /\ k \in 1..k
      BY <1>1, <1>4, <2>2
    <3>2. c[k].token_out = e.token_in
      BY <1>2, <3>1
    <3>3. QED BY <1>3, <3>1, <3>2 DEF EntryOf
  <2>3. QED BY <2>1, <2>2
<1>7. ~TooLong(p)
  BY <1>1, <1>4 DEF TooLong
<1> HIDE DEF n, k
<1>8. ASSUME e.token_out # s PROVE k + 2 \in 2..n /\ k + 2 \in 1..n /\ e.token_out = c[k + 2].token_in
  <2>1. k + 1 # n
    BY <1>2, <1>8
  <2>2. k + 1 \in 1..n - 1 /\ k + 2 \in 2..n /\ k + 2 \in 1..n /\ (k + 1) + 1 = k + 2
    BY <1>1, <1>5, <2>1
  <2>3. c[k + 1].token_out = c[(k + 1) + 1].token_in
    BY <1>2, <2>2
  <2>4. QED BY <2>2, <2>3
<1>9. ASSUME ~constraints.allow_self_cycle, e.token_out # s
      PROVE  e.token_out \notin EntryOf(p, s).tokens_seen
  <2> SUFFICES ASSUME NEW i \in 1..k, e.token_out = p[i].token_out PROVE FALSE
    BY <1>9 DEF EntryOf, k
  <2>1. i \in 1..n - 1 /\ i + 1 \in 1..n /\ i + 1 # k + 2
    BY <1>1, <1>4
  <2>2. c[i + 1].token_in = e.token_out
    BY <1>2, <1>3, <2>1
  <2>3. c[i + 1].token_in = c[k + 2].token_in /\ k + 2 \in 1..n
    BY <1>8, <1>9, <2>2
  <2>4. QED BY <1>2, <1>9, <2>1, <2>3
<1>10. e \in Nexts(p, s)
  BY <1>5, <1>6, <1>7, <1>9 DEF Nexts
<1>11. /\ u \in Seq(PoolSwaps) /\ Len(u) = k + 1 /\ u[k + 1] = e
       /\ \A i \in 1..k : u[i] = p[i]
       /\ \A i \in 1..k + 1 : i \in 1..k \/ i = k + 1
  BY <1>1, <1>5, AppendIs DEF k
<1>12. Starts(u, c)
  <2> HIDE DEF u, e
  <2>1. \A i \in 1..k + 1 : u[i] = c[i]
    BY <1>3, <1>11 DEF e
  <2>2. k + 1 <= n
    BY <1>5, <1>1
  <2>3. QED BY <1>11, <2>1, <2>2 DEF Starts, n
<1>13. ASSUME e.token_out = s PROVE c = u
  <2>1. k + 1 = n
    <3> SUFFICES ASSUME k + 1 # n PROVE FALSE
      OBVIOUS
    <3>1. k + 1 \in 1..n - 1 /\ k + 2 \in 2..n /\ (k + 1) + 1 = k + 2
      BY <1>1, <1>5
    <3>2. c[k + 1].token_out = c[(k + 1) + 1].token_in
      BY <1>2, <3>1
    <3>3. QED BY <1>2, <1>13, <3>1, <3>2
  <2> HIDE DEF u, e
  <2>2. Len(u) = Len(c) /\ \A i \in 1..Len(u) : u[i] = c[i]
    BY <1>11, <1>12, <2>1 DEF Starts, n
  <2>3. QED BY <1>1, <1>11, <2>2, SeqEqual
<1>14. QED BY <1>10, <1>12, <1>13

-----------------------------------------------------------------------------
(* What a step of find_cycles does to the queue and to what is found.        *)

\* The graph is that of the pools.
GraphIs ==
    /\ edges \in Seq(PoolSwaps)
    /\ Range(edges) = PoolSwaps
    /\ IsInjective(edges)
    /\ nodes \in Seq(Tokens)
    /\ Range(nodes) = {e.token_in : e \in PoolSwaps}
    /\ IsInjective(nodes)

\* Reverse keeps the elements.
LEMMA ReverseIs ==
    ASSUME NEW T, NEW s \in Seq(T)
    PROVE  /\ Reverse(s) \in Seq(T)
           /\ Range(Reverse(s)) = Range(s)
           /\ IsInjective(s) => IsInjective(Reverse(s))
<1> DEFINE N == Len(s)
           r == Reverse(s)
<1>1. N \in Nat /\ DOMAIN s = 1..N
  OBVIOUS
<1>2. \A i \in 1..N : (N - i) + 1 \in 1..N /\ (N - ((N - i) + 1)) + 1 = i
  BY <1>1
<1>3. r = [i \in 1..N |-> s[(N - i) + 1]]
  BY DEF Reverse
<1>4. r \in Seq(T) /\ DOMAIN r = 1..N /\ \A i \in 1..N : r[i] = s[(N - i) + 1]
  BY <1>1, <1>2, <1>3
<1> HIDE DEF r, N
<1>5. \A i \in 1..N : r[(N - i) + 1] = s[i]
  BY <1>2, <1>4
<1>6. Range(r) = Range(s)
  <2>1. Range(r) = {r[i] : i \in 1..N} /\ Range(s) = {s[i] : i \in 1..N}
    BY <1>1, <1>4 DEF Range
  <2>2. \A x \in Range(r) : x \in Range(s)
    BY <1>2, <1>4, <2>1
  <2>3. \A x \in Range(s) : x \in Range(r)
    BY <1>2, <1>5, <2>1
  <2>4. QED BY <2>2, <2>3
<1>7. ASSUME IsInjective(s) PROVE IsInjective(r)
  <2>1. \A i, j \in 1..N : s[i] = s[j] => i = j
    BY <1>1, <1>7 DEF IsInjective
  <2> SUFFICES ASSUME NEW i \in 1..N, NEW j \in 1..N, r[i] = r[j] PROVE i = j
    BY <1>4 DEF IsInjective
  <2>2. (N - i) + 1 = (N - j) + 1
    BY <1>2, <1>4, <2>1
  <2>3. QED BY <1>1, <2>2
<1>8. QED BY <1>4, <1>6, <1>7 DEF r

\* The edges from a token.
LEMMA EdgesFromIs ==
    ASSUME GraphIs, NEW token
    PROVE  /\ EdgesFrom(token) \in Seq(PoolSwaps)
           /\ Range(EdgesFrom(token)) = {e \in PoolSwaps : e.token_in = token}
           /\ IsInjective(EdgesFrom(token))
<1> DEFINE S == {x \in Range(edges) : x.token_in = token}
<1>1. EdgesFrom(token) = Reverse(Sift(edges, S))
  BY DEF EdgesFrom, Filter
<1>2. edges \in Seq(PoolSwaps) /\ Range(edges) = PoolSwaps /\ IsInjective(edges)
  BY DEF GraphIs
<1>3. S = {e \in PoolSwaps : e.token_in = token} /\ Range(edges) \cap S = S
  BY <1>2
<1> HIDE DEF S
<1>4. Sift(edges, S) \in Seq(PoolSwaps) /\ Range(Sift(edges, S)) = S /\ IsInjective(Sift(edges, S))
  BY <1>2, <1>3, SiftIs
<1>5. QED BY <1>1, <1>3, <1>4, ReverseIs

\* The edges the search follows from an entry.
OutOf(entry) ==
    LET es == EdgesFrom(entry.node)
    IN  IF TooLong(entry.path) THEN <<>>
        ELSE Sift(es, {x \in Range(es) : MayEnter(entry, x.token_out)})

\* They are those the search should follow.
LEMMA OutIs ==
    ASSUME GraphIs, NEW p \in Seq(PoolSwaps)
    PROVE  /\ OutOf(EntryOf(p, start)) \in Seq(PoolSwaps)
           /\ Range(OutOf(EntryOf(p, start))) = Nexts(p, start)
           /\ IsInjective(OutOf(EntryOf(p, start)))
<1> DEFINE entry == EntryOf(p, start)
           es == EdgesFrom(entry.node)
           S == {x \in Range(es) : MayEnter(entry, x.token_out)}
<1>1. entry.path = p
  BY DEF EntryOf
<1>2. es \in Seq(PoolSwaps) /\ Range(es) = {e \in PoolSwaps : e.token_in = entry.node} /\ IsInjective(es)
  BY EdgesFromIs
<1>3. Range(es) \cap S = S
  OBVIOUS
<1>4. OutOf(entry) = IF TooLong(p) THEN <<>> ELSE Sift(es, S)
  BY <1>1 DEF OutOf
<1>5. ~TooLong(p) => S = Nexts(p, start)
  <2> HIDE DEF entry, es
  <2>1. S = {e \in PoolSwaps : e.token_in = entry.node /\ MayEnter(entry, e.token_out)}
    BY <1>2
  <2>2. QED BY <2>1 DEF Nexts, MayEnter, entry
<1> HIDE DEF S, es
<1>6. Sift(es, S) \in Seq(PoolSwaps) /\ Range(Sift(es, S)) = S /\ IsInjective(Sift(es, S))
  BY <1>2, <1>3, SiftIs
<1>7. CASE TooLong(p)
  <2>1. Nexts(p, start) = {}
    BY <1>7 DEF Nexts
  <2>2. <<>> \in Seq(PoolSwaps) /\ Range(<<>>) = {} /\ IsInjective(<<>>)
    BY DEF Range, IsInjective
  <2>3. QED BY <1>4, <1>7, <2>1, <2>2
<1>8. CASE ~TooLong(p)
  BY <1>4, <1>5, <1>6, <1>8
<1>9. QED BY <1>7, <1>8

\* The paths of one more swap.
LEMMA PathsAre ==
    ASSUME NEW p \in Seq(PoolSwaps), NEW out \in Seq(PoolSwaps), IsInjective(out)
    PROVE  LET paths == [i \in DOMAIN out |-> Append(p, out[i])]
           IN  /\ paths \in Seq(Seq(PoolSwaps))
               /\ Range(paths) = {Append(p, e) : e \in Range(out)}
               /\ IsInjective(paths)
<1> DEFINE paths == [i \in DOMAIN out |-> Append(p, out[i])]
<1>1. DOMAIN out = 1..Len(out) /\ Len(out) \in Nat /\ \A i \in 1..Len(out) : out[i] \in PoolSwaps
  OBVIOUS
<1>2. \A i \in 1..Len(out) : paths[i] \in Seq(PoolSwaps) /\ paths[i] = Append(p, out[i])
  BY <1>1
<1>3. paths \in [1..Len(out) -> Seq(PoolSwaps)]
  BY <1>1, <1>2
<1>4. paths \in Seq(Seq(PoolSwaps))
  BY <1>1, <1>3
<1>5. DOMAIN paths = 1..Len(out)
  BY <1>1
<1> HIDE DEF paths
<1>6. Range(paths) = {Append(p, e) : e \in Range(out)}
  <2>1. Range(paths) = {paths[i] : i \in 1..Len(out)} /\ Range(out) = {out[i] : i \in 1..Len(out)}
    BY <1>1, <1>5 DEF Range
  <2>2. QED BY <1>2, <2>1
<1>7. \A i, j \in 1..Len(out) : paths[i] = paths[j] => i = j
  <2> SUFFICES ASSUME NEW i \in 1..Len(out), NEW j \in 1..Len(out), paths[i] = paths[j] PROVE i = j
    OBVIOUS
  <2>1. Append(p, out[i]) = Append(p, out[j])
    BY <1>2
  <2>2. Append(p, out[i])[Len(p) + 1] = out[i] /\ Append(p, out[j])[Len(p) + 1] = out[j]
    BY <1>1, AppendIs
  <2>3. QED BY <1>1, <2>1, <2>2 DEF IsInjective
<1>8. QED BY <1>4, <1>5, <1>6, <1>7 DEF IsInjective, paths

\* The queue has trails from start and their entries, none of them where another starts.
QueueInv ==
    /\ queue \in Seq({EntryOf(p, start) : p \in Seq(PoolSwaps)})
    /\ \A i \in 1..Len(queue) : Trail(queue[i].path, start)
    /\ \A i, j \in 1..Len(queue) : Starts(queue[i].path, queue[j].path) => i = j

\* What Visit finds and what it adds to the queue, p being the path of the entry.
Finds(found, p) ==
    /\ found \in Seq(Seq(PoolSwaps))
    /\ IsInjective(found)
    /\ \A c \in Range(found) : \E e \in Nexts(p, start) :
          e.token_out = start /\ c = Append(p, e) /\ Matches(c)
    /\ \A e \in Nexts(p, start) :
          e.token_out = start /\ Matches(Append(p, e)) => Append(p, e) \in Range(found)

Enters(new, p) ==
    /\ new \in Seq({EntryOf(q, start) : q \in Seq(PoolSwaps)})
    /\ \A i \in 1..Len(new) : \E e \in Nexts(p, start) :
          e.token_out # start /\ new[i] = EntryOf(Append(p, e), start)
    /\ \A e \in Nexts(p, start) :
          e.token_out # start => \E i \in 1..Len(new) : new[i].path = Append(p, e)
    /\ \A i, j \in 1..Len(new) : new[i].path = new[j].path => i = j

\* What Visit does, in those terms.
LEMMA VisitIs ==
    ASSUME GraphIs, QueueInv, Visit
    PROVE  /\ Head(queue) = EntryOf(Head(queue).path, start)
           /\ Trail(Head(queue).path, start)
           /\ \E found, new : /\ cycles' = cycles \o found
                              /\ queue' = Tail(queue) \o new
                              /\ Finds(found, Head(queue).path)
                              /\ Enters(new, Head(queue).path)
<1> DEFINE entry == Head(queue)
           p == entry.path
           E == {EntryOf(q, start) : q \in Seq(PoolSwaps)}
           out == OutOf(entry)
           paths == [i \in DOMAIN out |-> Append(entry.path, out[i])]
           Closes == {x \in Range(paths) : Last(x).token_out = start}
           Opens == {x \in Range(paths) : Last(x).token_out # start}
           closed == Sift(paths, Closes)
           Good == {x \in Range(closed) : Matches(x)}
           found == Sift(closed, Good)
           open == Sift(paths, Opens)
           new == [i \in DOMAIN open |->
                      [node |-> Last(open[i]).token_out, path |-> open[i],
                       tokens_seen |-> entry.tokens_seen \cup {Last(open[i]).token_out}]]
<1>1. queue # <<>> /\ queue \in Seq(E) /\ 1 \in 1..Len(queue) /\ entry = queue[1]
  <2>1. queue # <<>>
    BY DEF Visit, Filter
  <2>2. queue \in Seq(E)
    BY DEF QueueInv
  <2> HIDE DEF E, out
  <2>3. QED BY <2>1, <2>2
<1>2. entry \in E /\ Trail(p, start)
  <2> HIDE DEF E, entry
  <2>1. entry \in E
    BY <1>1
  <2>2. QED BY <1>1, <2>1 DEF QueueInv
<1>3. p \in Seq(PoolSwaps) /\ entry = EntryOf(p, start)
  <2>1. Trail(p, start)
    BY <1>2
  <2>2. PICK q \in Seq(PoolSwaps) : entry = EntryOf(q, start)
    BY <1>2
  <2> HIDE DEF entry
  <2>3. p = q
    BY <2>2 DEF EntryOf
  <2>4. QED BY <2>2, <2>3
<1>4. cycles' = cycles \o found /\ queue' = Tail(queue) \o new
  BY DEF Visit, Filter, Enqueue, OutOf
<1>5. out \in Seq(PoolSwaps) /\ Range(out) = Nexts(p, start) /\ IsInjective(out)
  BY <1>3, OutIs, Zenon
<1> HIDE DEF out, entry
<1>6. paths \in Seq(Seq(PoolSwaps)) /\ Range(paths) = {Append(p, e) : e \in Nexts(p, start)} /\ IsInjective(paths)
  BY <1>3, <1>5, PathsAre, Zenon
<1>7. \A e \in PoolSwaps : Last(Append(p, e)) = e
  <2> TAKE e \in PoolSwaps
  <2>1. Len(Append(p, e)) = Len(p) + 1 /\ Append(p, e)[Len(p) + 1] = e
    BY <1>3, AppendIs
  <2>2. QED BY <2>1 DEF Last
<1>8. \A e \in Nexts(p, start) : e \in PoolSwaps
  BY DEF Nexts
<1> HIDE DEF paths, p
<1>9. /\ closed \in Seq(Seq(PoolSwaps)) /\ Range(closed) = Closes /\ IsInjective(closed)
      /\ open \in Seq(Seq(PoolSwaps)) /\ Range(open) = Opens /\ IsInjective(open)
  <2>1. Range(paths) \cap Closes = Closes /\ Range(paths) \cap Opens = Opens
    OBVIOUS
  <2> HIDE DEF Closes, Opens
  <2>2. QED BY <1>6, <2>1, SiftIs
<1> HIDE DEF closed, open
<1>10. found \in Seq(Seq(PoolSwaps)) /\ Range(found) = Good /\ IsInjective(found)
  <2>1. Range(closed) \cap Good = Good
    OBVIOUS
  <2> HIDE DEF Good
  <2>2. QED BY <1>9, <2>1, SiftIs
<1> HIDE DEF found
<1>11. Finds(found, p)
  <2>1. \A c \in Range(found) : \E e \in Nexts(p, start) :
            e.token_out = start /\ c = Append(p, e) /\ Matches(c)
    <3> TAKE c \in Range(found)
    <3>1. c \in Range(paths) /\ Last(c).token_out = start /\ Matches(c)
      BY <1>9, <1>10
    <3>2. PICK e \in Nexts(p, start) : c = Append(p, e)
      BY <1>6, <3>1
    <3>3. Last(c) = e
      BY <1>7, <1>8, <3>2
    <3>4. QED BY <3>1, <3>2, <3>3
  <2>2. ASSUME NEW e \in Nexts(p, start), e.token_out = start, Matches(Append(p, e))
        PROVE  Append(p, e) \in Range(found)
    <3>1. Append(p, e) \in Range(paths) /\ Last(Append(p, e)).token_out = start
      BY <1>6, <1>7, <1>8, <2>2
    <3>2. QED BY <1>9, <1>10, <2>2, <3>1
  <2>3. QED BY <1>10, <2>1, <2>2 DEF Finds
<1>12. \A i \in DOMAIN open : \E e \in Nexts(p, start) : e.token_out # start /\ open[i] = Append(p, e)
  <2> TAKE i \in DOMAIN open
  <2>1. open[i] \in Opens
    BY <1>9 DEF Range
  <2>2. PICK e \in Nexts(p, start) : open[i] = Append(p, e)
    BY <1>6, <2>1
  <2>3. Last(open[i]) = e
    BY <1>7, <1>8, <2>2
  <2>4. QED BY <2>1, <2>2, <2>3
<1>13. max_length \in Nat
  BY FinderAssumption
<1>14. ASSUME NEW i \in DOMAIN open
       PROVE  \E e \in Nexts(p, start) :
                  /\ e.token_out # start /\ open[i] = Append(p, e)
                  /\ new[i] = EntryOf(Append(p, e), start)
                  /\ new[i].path = Append(p, e)
  <2>1. PICK e \in Nexts(p, start) : e.token_out # start /\ open[i] = Append(p, e)
    BY <1>12
  <2>2. Last(open[i]) = e
    BY <1>7, <1>8, <2>1
  <2>3. EntryOf(Append(p, e), start) = [node |-> e.token_out, path |-> Append(p, e),
                                        tokens_seen |-> entry.tokens_seen \cup {e.token_out}]
    BY <1>2, <1>3, <1>13, <2>1, TrailNext
  <2>4. new[i] = [node |-> e.token_out, path |-> Append(p, e),
                  tokens_seen |-> entry.tokens_seen \cup {e.token_out}]
    BY <2>1, <2>2
  <2> HIDE DEF new
  <2>5. new[i] = EntryOf(Append(p, e), start) /\ new[i].path = Append(p, e)
    BY <2>3, <2>4
  <2>6. QED BY <2>1, <2>5
<1>15. DOMAIN open = 1..Len(open) /\ Len(open) \in Nat 
       /\ DOMAIN new = DOMAIN open /\ new = [i \in DOMAIN open |-> new[i]]
  BY <1>9
<1> HIDE DEF new
<1>16. new \in Seq(E) /\ Len(new) = Len(open)
  <2>1. \A i \in 1..Len(open) : new[i] \in E
    <3> TAKE i \in 1..Len(open)
    <3>1. PICK e \in Nexts(p, start) : new[i] = EntryOf(Append(p, e), start)
      BY <1>14, <1>15
    <3>2. Append(p, e) \in Seq(PoolSwaps)
      BY <1>3, <1>8, AppendIs
    <3>3. QED BY <3>1, <3>2
  <2>2. new \in [1..Len(open) -> E]
    <3> HIDE DEF E
    <3>1. QED BY <1>15, <2>1
  <2> HIDE DEF E
  <2>3. QED BY <1>15, <2>2
<1>17. Enters(new, p)
  <2>1. \A i \in 1..Len(new) : \E e \in Nexts(p, start) :
            e.token_out # start /\ new[i] = EntryOf(Append(p, e), start)
    BY <1>14, <1>15, <1>16
  <2>2. ASSUME NEW e \in Nexts(p, start), e.token_out # start
        PROVE  \E i \in 1..Len(new) : new[i].path = Append(p, e)
    <3>1. Append(p, e) \in Range(open)
      BY <1>6, <1>7, <1>8, <1>9, <2>2
    <3>2. PICK i \in DOMAIN open : open[i] = Append(p, e)
      BY <3>1 DEF Range
    <3>3. new[i].path = Append(p, e)
      BY <1>14, <3>2
    <3>4. QED BY <1>15, <1>16, <3>3
  <2>3. \A i, j \in 1..Len(new) : new[i].path = new[j].path => i = j
    <3> SUFFICES ASSUME NEW i \in 1..Len(new), NEW j \in 1..Len(new), new[i].path = new[j].path
                 PROVE  i = j
      OBVIOUS
    <3>1. i \in DOMAIN open /\ j \in DOMAIN open
      BY <1>15, <1>16
    <3>2. new[i].path = open[i]
      BY <1>14, <3>1
    <3>3. new[j].path = open[j]
      BY <1>14, <3>1
    <3>4. QED BY <1>9, <3>1, <3>2, <3>3 DEF IsInjective
  <2>4. QED BY <1>16, <2>1, <2>2, <2>3 DEF Enters
<1>18. QED BY <1>2, <1>3, <1>4, <1>11, <1>17 DEF p, entry

-----------------------------------------------------------------------------
(* The search finds every cycle once.                                       *)

\* The tokens a search has started at.
Begun == {nodes[k] : k \in 1..next_node - 1}

\* The search in progress has c still to find.
Pending(c) == c[1].token_in = start /\ \E i \in 1..Len(queue) : Starts(queue[i].path, c)

\* What is found are cycles from the tokens begun, each once; the others from
\* these tokens are pending.
FoundInv ==
    /\ queue # <<>> => start \in Begun
    /\ cycles \in Seq(Seq(PoolSwaps))
    /\ IsInjective(cycles)
    /\ \A c \in Range(cycles) : c \in CyclesOf /\ c[1].token_in \in Begun /\ ~Pending(c)
    /\ \A c \in CyclesOf : c[1].token_in \in Begun => c \in Range(cycles) \/ Pending(c)

\* The operators of the pools and the constraints keep their values with these.
LEMMA PoolsKept ==
    ASSUME pools' = pools, constraints' = constraints
    PROVE  /\ PoolSwaps' = PoolSwaps
           /\ CyclesOf' = CyclesOf
           /\ \A p, s : Trail(p, s)' <=> Trail(p, s)
           /\ \A route : Matches(route)' <=> Matches(route)
<1>1. PoolSwaps' = PoolSwaps
  BY DEF PoolSwaps
<1>2. \A route : Matches(route)' <=> Matches(route)
  BY DEF Matches
<1>3. \A route : IsCycle(route)' <=> IsCycle(route)
  BY DEF IsCycle, Joined
<1>4. CyclesOf' = CyclesOf
  BY <1>1, <1>2, <1>3 DEF CyclesOf
<1>5. \A p, s : Trail(p, s)' <=> Trail(p, s)
  BY <1>1 DEF Trail, Joined
<1>6. QED BY <1>1, <1>2, <1>4, <1>5

\* A new entry of the queue is an entry kept or one added.
LEMMA QueueSteps ==
    ASSUME NEW E, NEW q \in Seq(E), q # <<>>, NEW new \in Seq(E)
    PROVE  LET u == Tail(q) \o new
           IN  /\ u \in Seq(E)
               /\ Len(u) = Len(q) - 1 + Len(new)
               /\ \A i \in 1..Len(u) :
                     \/ i + 1 \in 2..Len(q) /\ u[i] = q[i + 1]
                     \/ i - (Len(q) - 1) \in 1..Len(new) /\ u[i] = new[i - (Len(q) - 1)]
               /\ \A i \in 2..Len(q) : i - 1 \in 1..Len(u) /\ u[i - 1] = q[i]
               /\ \A i \in 1..Len(new) : i + (Len(q) - 1) \in 1..Len(u) /\ u[i + (Len(q) - 1)] = new[i]
<1> DEFINE t == Tail(q)
           u == t \o new
           L == Len(q)
           M == Len(new)
<1>1. t \in Seq(E) /\ L \in Nat /\ M \in Nat /\ L >= 1 /\ Len(t) = L - 1 /\ \A i \in 1..L - 1 : t[i] = q[i + 1]
  OBVIOUS
<1> HIDE DEF t, L, M
<1>2. u \in Seq(E) /\ Len(u) = (L - 1) + M
  BY <1>1, ConcatProperties DEF M
<1>3. \A i \in 1..(L - 1) + M : u[i] = IF i <= L - 1 THEN t[i] ELSE new[i - (L - 1)]
  BY <1>1, ConcatProperties DEF M
<1> HIDE DEF u
<1>4. \A i \in 1..Len(u) : \/ i + 1 \in 2..L /\ u[i] = q[i + 1]
                           \/ i - (L - 1) \in 1..M /\ u[i] = new[i - (L - 1)]
  BY <1>1, <1>2, <1>3
<1>5. \A i \in 2..L : i - 1 \in 1..Len(u) /\ u[i - 1] = q[i]
  <2> TAKE i \in 2..L
  <2>1. i - 1 \in 1..(L - 1) + M /\ i - 1 <= L - 1 /\ i - 1 \in 1..L - 1 /\ (i - 1) + 1 = i
    BY <1>1
  <2>2. u[i - 1] = t[i - 1]
    BY <1>3, <2>1
  <2>3. t[i - 1] = q[(i - 1) + 1]
    BY <1>1, <2>1
  <2>4. QED BY <1>2, <2>1, <2>2, <2>3
<1>6. \A i \in 1..M : i + (L - 1) \in 1..Len(u) /\ u[i + (L - 1)] = new[i]
  <2> TAKE i \in 1..M
  <2>1. i + (L - 1) \in 1..(L - 1) + M /\ ~(i + (L - 1) <= L - 1) /\ (i + (L - 1)) - (L - 1) = i
    BY <1>1
  <2>2. u[i + (L - 1)] = new[(i + (L - 1)) - (L - 1)]
    BY <1>3, <2>1
  <2>3. QED BY <1>2, <2>1, <2>2
<1>7. QED BY <1>1, <1>2, <1>4, <1>5, <1>6 DEF u, t, L, M

\* StartSearch begins with a path that every cycle from the token starts with.
LEMMA StartSearchKeeps ==
    ASSUME GraphIs, QueueInv, FoundInv, StartSearch, max_length \in Nat, next_node \in Nat \ {0}
    PROVE  QueueInv' /\ FoundInv'
<1> DEFINE token == nodes[next_node]
           first == <<[node |-> token, path |-> <<>>, tokens_seen |-> {token}]>>
           fits == constraints.required_start_token \in {NoToken, token}
<1>1. /\ queue = <<>> /\ next_node \in 1..Len(nodes) /\ next_node' = next_node + 1
      /\ fits => start' = token /\ queue' = first
      /\ ~fits => start' = start /\ queue' = queue
      /\ pools' = pools /\ constraints' = constraints /\ nodes' = nodes /\ cycles' = cycles
  BY DEF StartSearch, graph
<1>2. Begun' = Begun \cup {token}
  <2>1. \A k \in 1..next_node : k \in 1..next_node - 1 \/ k = next_node
    OBVIOUS
  <2>2. \A k \in 1..next_node - 1 : k \in 1..next_node
    OBVIOUS
  <2>3. next_node' - 1 = next_node /\ next_node \in 1..next_node
    BY <1>1
  <2>4. Begun' = {nodes[k] : k \in 1..next_node}
    BY <1>1, <2>3 DEF Begun
  <2>5. {nodes[k] : k \in 1..next_node} = {nodes[k] : k \in 1..next_node - 1} \cup {token}
    BY <2>1, <2>2, <2>3
  <2>6. QED BY <2>4, <2>5 DEF Begun
<1>3. token \notin Begun
  <2> SUFFICES ASSUME NEW k \in 1..next_node - 1, nodes[k] = token PROVE FALSE
    BY DEF Begun
  <2>1. DOMAIN nodes = 1..Len(nodes)
    BY DEF GraphIs
  <2>2. k \in 1..Len(nodes) /\ k # next_node
    BY <1>1
  <2>3. QED BY <1>1, <2>1, <2>2 DEF GraphIs, IsInjective
<1>4. /\ PoolSwaps' = PoolSwaps /\ CyclesOf' = CyclesOf
      /\ \A p, s : Trail(p, s)' <=> Trail(p, s)
  BY <1>1, PoolsKept
<1>5. \A c : ~Pending(c)
  BY <1>1 DEF Pending
<1>6. \A c \in CyclesOf : c[1].token_in \in Begun => c \in Range(cycles)
  BY <1>5 DEF FoundInv
<1>7. ASSUME fits PROVE QueueInv' /\ FoundInv'
  <2> DEFINE E == {EntryOf(p, token) : p \in Seq(PoolSwaps)}
  <2>1. start' = token /\ queue' = first
    BY <1>1, <1>7
  <2>2. EntryOf(<<>>, token) = [node |-> token, path |-> <<>>, tokens_seen |-> {token}]
    <3>1. {<<>>[i].token_out : i \in 1..Len(<<>>)} = {}
      OBVIOUS
    <3>2. {token} \cup {} = {token}
      OBVIOUS
    <3>3. QED BY <3>1, <3>2 DEF EntryOf
  <2>3. /\ first \in Seq(E) /\ Len(first) = 1 /\ first[1].path = <<>> /\ first # <<>>
    <3>1. EntryOf(<<>>, token) \in E
      <4>1. <<>> \in Seq(PoolSwaps)
        OBVIOUS
      <4>2. QED BY <4>1, Zenon
    <3>2. first = <<EntryOf(<<>>, token)>>
      BY <2>2
    <3>3. first[1].path = <<>>
      OBVIOUS
    <3> HIDE DEF first, E
    <3>4. QED BY <3>1, <3>2, <3>3
  <2> HIDE DEF first
  <2>4. \A i \in 1..Len(first) : i = 1
    BY <2>3
  <2>6. QueueInv'
    <3>1. (queue \in Seq({EntryOf(p, start) : p \in Seq(PoolSwaps)}))'
      BY <1>4, <2>1, <2>3
    <3>2. (\A i \in 1..Len(queue) : Trail(queue[i].path, start))'
      <4>2. \A i \in 1..Len(queue') : queue'[i].path = <<>>
        BY <2>1, <2>3, <2>4
      <4>3. Trail(<<>>, start)'
        BY DEF Trail, Joined
      <4>4. QED BY <4>2, <4>3
    <3>3. (\A i, j \in 1..Len(queue) : Starts(queue[i].path, queue[j].path) => i = j)'
      BY <2>1, <2>4
    <3>4. QED BY <3>1, <3>2, <3>3 DEF QueueInv
  <2>7. \A c \in CyclesOf : c[1].token_in = token => Pending(c)'
    <3> TAKE c \in CyclesOf
    <3>1. Starts(<<>>, c)
      <4>1. c \in UNION {[1..n -> PoolSwaps] : n \in 1..max_length}
        BY DEF CyclesOf
      <4>2. Len(c) \in Nat
        BY <4>1
      <4>3. QED BY <4>2 DEF Starts
    <3>2. 1 \in 1..Len(first) /\ first[1].path = <<>>
      BY <2>3
    <3>3. QED BY <2>1, <3>1, <3>2 DEF Pending
  <2>8. \A c : c[1].token_in # token => ~Pending(c)'
    BY <2>1 DEF Pending
  <2>9. FoundInv'
    <3>1. (queue # <<>> => start \in Begun)'
      BY <1>2, <2>1
    <3>2. (cycles \in Seq(Seq(PoolSwaps)))' /\ IsInjective(cycles)' /\ Range(cycles)' = Range(cycles)
      BY <1>1, <1>4 DEF FoundInv, IsInjective, Range
    <3>3. \A c \in Range(cycles) : c \in CyclesOf /\ c[1].token_in \in Begun'/\ ~Pending(c)'
      BY <1>2, <1>3, <2>8 DEF FoundInv
    <3>4. \A c \in CyclesOf : c[1].token_in \in Begun' => c \in Range(cycles) \/ Pending(c)'
      BY <1>2, <1>6, <2>7
    <3>5. QED BY <1>4, <3>1, <3>2, <3>3, <3>4 DEF FoundInv
  <2>10. QED BY <2>6, <2>9
<1>8. ASSUME ~fits PROVE QueueInv' /\ FoundInv'
  <2>1. start' = start /\ queue' = <<>>
    BY <1>1, <1>8
  <2>2. QueueInv'
    <3>1. <<>> \in Seq({EntryOf(p, start) : p \in Seq(PoolSwaps)})' /\ Len(<<>>) = 0
      OBVIOUS
    <3>2. QED BY <2>1, <3>1 DEF QueueInv
  <2>3. \A c \in CyclesOf : c[1].token_in # token
    <3>1. \A c \in CyclesOf : Matches(c)
      BY DEF CyclesOf
    <3>2. QED BY <1>8, <3>1 DEF Matches
  <2>4. \A c : ~Pending(c)'
    BY <2>1 DEF Pending
  <2>5. (cycles \in Seq(Seq(PoolSwaps)))' /\ IsInjective(cycles)' /\ Range(cycles)' = Range(cycles)
    BY <1>1, <1>4 DEF FoundInv, IsInjective, Range
  <2>6. \A c \in Range(cycles) : c \in CyclesOf /\ c[1].token_in \in Begun'
    BY <1>2 DEF FoundInv
  <2>7. \A c \in CyclesOf : c[1].token_in \in Begun' => c \in Range(cycles)
    BY <1>2, <1>6, <2>3
  <2>8. FoundInv'
    BY <1>4, <2>1, <2>4, <2>5, <2>6, <2>7 DEF FoundInv
  <2>9. QED BY <2>2, <2>8
<1>9. QED BY <1>7, <1>8

\* Visit replaces a path by those of one more swap, and finds the cycles among them.
LEMMA VisitKeeps ==
    ASSUME GraphIs, QueueInv, FoundInv, Visit, max_length \in Nat
    PROVE  QueueInv' /\ FoundInv'
<1> DEFINE p == Head(queue).path
           E == {EntryOf(q, start) : q \in Seq(PoolSwaps)}
           L == Len(queue)
<1>1. /\ Trail(p, start)
      /\ \E found, new : /\ cycles' = cycles \o found
                         /\ queue' = Tail(queue) \o new
                         /\ Finds(found, p)
                         /\ Enters(new, p)
  BY VisitIs
<1>2. PICK found, new : /\ cycles' = cycles \o found
                        /\ queue' = Tail(queue) \o new
                        /\ Finds(found, p)
                        /\ Enters(new, p)
  BY <1>1
<1>3. /\ start' = start /\ pools' = pools /\ constraints' = constraints
      /\ nodes' = nodes /\ next_node' = next_node
  BY DEF Visit, graph
<1>4. /\ PoolSwaps' = PoolSwaps /\ CyclesOf' = CyclesOf /\ Begun' = Begun
      /\ \A t, s : Trail(t, s)' <=> Trail(t, s)
  BY <1>3, PoolsKept DEF Begun
<1>5. queue # <<>>
  BY DEF Visit, Filter
<1>6. /\ queue \in Seq(E) /\ L \in Nat /\ 1 \in 1..L /\ p = queue[1].path
      /\ \A i \in 2..L : i \in 1..L /\ i # 1
  <2>1. queue \in Seq(E)
    BY DEF QueueInv
  <2> HIDE DEF E
  <2>2. QED BY <1>5, <2>1
<1>7. /\ \A i \in 1..L : Trail(queue[i].path, start) /\ queue[i].path \in Seq(PoolSwaps)
      /\ \A i, j \in 1..L : Starts(queue[i].path, queue[j].path) => i = j
  BY DEF QueueInv, Trail
<1>8. new \in Seq(E) /\ p \in Seq(PoolSwaps)
  BY <1>1, <1>2 DEF Enters, Trail
<1>9. ASSUME NEW i \in 1..Len(new)
      PROVE  \E e \in Nexts(p, start) : /\ e \in PoolSwaps /\ e.token_out # start
                                        /\ new[i].path = Append(p, e)
                                        /\ Trail(Append(p, e), start)
  <2>1. PICK e \in Nexts(p, start) : e.token_out # start /\ new[i] = EntryOf(Append(p, e), start)
    BY <1>2 DEF Enters
  <2>2. e \in PoolSwaps
    BY DEF Nexts
  <2>3. new[i].path = Append(p, e)
    BY <2>1 DEF EntryOf
  <2>4. Trail(Append(p, e), start)
    BY <1>1, <2>1, TrailNext
  <2>5. QED BY <2>1, <2>2, <2>3, <2>4
<1> DEFINE u == Tail(queue) \o new
           K == L - 1
<1>10. /\ u \in Seq(E)
       /\ \A i \in 1..Len(u) : \/ i + 1 \in 2..L /\ u[i] = queue[i + 1]
                               \/ i - K \in 1..Len(new) /\ u[i] = new[i - K]
       /\ \A i \in 2..L : i - 1 \in 1..Len(u) /\ u[i - 1] = queue[i]
       /\ \A i \in 1..Len(new) : i + K \in 1..Len(u) /\ u[i + K] = new[i]
  <2> HIDE DEF E
  <2>1. QED BY <1>5, <1>6, <1>8, QueueSteps
<1> HIDE DEF p, E, L, K, u
<1>11. queue' = u
  BY <1>2 DEF u
\* What starts with another entry's path does not start with the visited one's.
<1>12. ASSUME NEW i \in 2..L, NEW e \in PoolSwaps
       PROVE  /\ ~Starts(queue[i].path, Append(p, e))
              /\ ~Starts(Append(p, e), queue[i].path)
  <2>1. queue[i].path \in Seq(PoolSwaps) /\ ~Starts(p, queue[i].path) /\ ~Starts(queue[i].path, p)
    BY <1>6, <1>7
  <2>2. Starts(p, Append(p, e))
    BY <1>8, AppendIs DEF Starts
  <2> DEFINE q == queue[i].path
  <2> HIDE DEF q
  <2>3. q \in Seq(PoolSwaps) /\ ~Starts(p, q) /\ ~Starts(q, p)
    BY <2>1 DEF q
  <2>4. ~Starts(q, Append(p, e)) /\ ~Starts(Append(p, e), q)
    <3>1. /\ Starts(Append(p, e), q) => Starts(p, q)
          /\ Starts(q, Append(p, e)) => Starts(q, p) \/ q = Append(p, e)
      BY <1>8, <2>3, StartsIs
    <3>2. QED BY <2>2, <2>3, <3>1
  <2>5. QED BY <2>4 DEF q
<1>13. ASSUME NEW e \in PoolSwaps, NEW f \in PoolSwaps, Starts(Append(p, e), Append(p, f)) PROVE e = f
  <2> DEFINE k == Len(p) + 1
  <2>1. /\ Len(Append(p, e)) = k /\ Append(p, e)[k] = e /\ Append(p, f)[k] = f /\ k \in 1..k
    BY <1>8, AppendIs
  <2> HIDE DEF k
  <2>2. Append(p, e)[k] = Append(p, f)[k]
    BY <1>13, <2>1 DEF Starts
  <2>3. QED BY <2>1, <2>2
<1>14. QueueInv'
  <2>1. (queue \in Seq({EntryOf(q, start) : q \in Seq(PoolSwaps)}))'
    BY <1>3, <1>4, <1>10, <1>11 DEF E
  <2>2. ASSUME NEW i \in 1..Len(u) PROVE Trail(u[i].path, start)
    <3>1. CASE i + 1 \in 2..L /\ u[i] = queue[i + 1]
      BY <1>6, <1>7, <3>1
    <3>2. CASE i - K \in 1..Len(new) /\ u[i] = new[i - K]
      BY <1>9, <3>2
    <3>3. QED BY <1>10, <3>1, <3>2
  <2>3. ASSUME NEW i \in 1..Len(u), NEW j \in 1..Len(u), Starts(u[i].path, u[j].path) PROVE i = j
    <3>1. CASE (i + 1 \in 2..L /\ u[i] = queue[i + 1]) /\ (j + 1 \in 2..L /\ u[j] = queue[j + 1])
      <4>1. i + 1 = j + 1
        BY <1>6, <1>7, <2>3, <3>1
      <4>2. QED BY <4>1
    <3>2. CASE (i + 1 \in 2..L /\ u[i] = queue[i + 1]) /\ (j - K \in 1..Len(new) /\ u[j] = new[j - K])
      <4>1. PICK e \in PoolSwaps : new[j - K].path = Append(p, e)
        BY <1>9, <3>2
      <4>2. QED BY <1>12, <2>3, <3>2, <4>1
    <3>3. CASE (i - K \in 1..Len(new) /\ u[i] = new[i - K]) /\ (j + 1 \in 2..L /\ u[j] = queue[j + 1])
      <4>1. PICK e \in PoolSwaps : new[i - K].path = Append(p, e)
        BY <1>9, <3>3
      <4>2. QED BY <1>12, <2>3, <3>3, <4>1
    <3>4. CASE (i - K \in 1..Len(new) /\ u[i] = new[i - K]) /\ (j - K \in 1..Len(new) /\ u[j] = new[j - K])
      <4>1. PICK e \in PoolSwaps : new[i - K].path = Append(p, e)
        BY <1>9, <3>4
      <4>2. PICK f \in PoolSwaps : new[j - K].path = Append(p, f)
        BY <1>9, <3>4
      <4>3. e = f
        BY <1>13, <2>3, <3>4, <4>1, <4>2
      <4>4. i - K = j - K
        BY <1>2, <3>4, <4>1, <4>2, <4>3 DEF Enters
      <4>5. K \in Int
        BY <1>6 DEF K
      <4>6. QED BY <4>4, <4>5
    <3>5. QED BY <1>10, <3>1, <3>2, <3>3, <3>4
  <2>4. \A i \in 1..Len(queue') : Trail(queue'[i].path, start)
    BY <1>11, <2>2
  <2>5. \A i, j \in 1..Len(queue') : Starts(queue'[i].path, queue'[j].path) => i = j
    BY <1>11, <2>3
  <2>6. (\A i \in 1..Len(queue) : Trail(queue[i].path, start))'
    BY <1>3, <1>4, <2>4 DEF Trail, Joined
  <2>7. QED BY <2>1, <2>5, <2>6 DEF QueueInv
<1> DEFINE Waiting(c) == \E i \in 1..Len(u) : Starts(u[i].path, c)
<1>15. \A c : Pending(c)' <=> c[1].token_in = start /\ Waiting(c)
  BY <1>3, <1>11 DEF Pending
<1>16. ASSUME NEW c, Waiting(c)
       PROVE  \/ \E i \in 2..L : Starts(queue[i].path, c)
              \/ \E e \in PoolSwaps : e.token_out # start /\ Starts(Append(p, e), c)
  <2>1. PICK i \in 1..Len(u) : Starts(u[i].path, c)
    BY <1>16
  <2>2. CASE i + 1 \in 2..L /\ u[i] = queue[i + 1]
    BY <2>1, <2>2
  <2>3. CASE i - K \in 1..Len(new) /\ u[i] = new[i - K]
    <3>1. PICK e \in PoolSwaps : e.token_out # start /\ new[i - K].path = Append(p, e)
      BY <1>9, <2>3
    <3>2. QED BY <2>1, <2>3, <3>1
  <2>4. QED BY <1>10, <2>2, <2>3
<1> HIDE DEF Waiting
<1>17. ASSUME NEW c \in Range(found)
       PROVE  /\ c \in CyclesOf /\ c[1].token_in = start /\ Starts(p, c) /\ c \in Seq(PoolSwaps)
              /\ \E e \in PoolSwaps : c = Append(p, e) /\ e.token_out = start
  <2>1. PICK e \in Nexts(p, start) : e.token_out = start /\ c = Append(p, e) /\ Matches(c)
    BY <1>2 DEF Finds
  <2>2. e \in PoolSwaps
    BY DEF Nexts
  <2>3. /\ IsCycle(Append(p, e)) /\ Append(p, e)[1].token_in = start
        /\ Append(p, e) \in Seq(PoolSwaps)
        /\ Append(p, e) \in UNION {[1..n -> PoolSwaps] : n \in 1..max_length}
    BY <1>1, <2>1, ClosedIs DEF p
  <2>4. Starts(p, Append(p, e))
    BY <1>8, <2>2, AppendIs DEF Starts
  <2>5. QED BY <2>1, <2>2, <2>3, <2>4 DEF CyclesOf
<1>18. start \in Begun
  BY <1>5 DEF FoundInv
<1>19. /\ cycles \in Seq(Seq(PoolSwaps)) /\ found \in Seq(Seq(PoolSwaps))
       /\ IsInjective(cycles) /\ IsInjective(found)
  BY <1>2 DEF FoundInv, Finds
<1>20. \A c \in Range(found) : Pending(c)
  BY <1>6, <1>17 DEF Pending, L
<1>21. \A c \in Range(found) : c \notin Range(cycles)
  BY <1>20 DEF FoundInv
<1>22. (cycles \in Seq(Seq(PoolSwaps)))' /\ IsInjective(cycles)' /\ Range(cycles)' = Range(cycles) \cup Range(found)
  <2> DEFINE S == Seq(PoolSwaps)
  <2> HIDE DEF S
  <2>1. cycles \in Seq(S) /\ found \in Seq(S)
    BY <1>19 DEF S
  <2>2. cycles \o found \in Seq(S) /\ Range(cycles \o found) = Range(cycles) \cup Range(found)
        /\ IsInjective(cycles \o found)
    BY <1>19, <1>21, <2>1, JoinIs
  <2>3. Range(cycles)' = Range(cycles \o found) /\ IsInjective(cycles)' = IsInjective(cycles \o found)
    BY <1>2 DEF Range, IsInjective
  <2>4. QED BY <1>2, <1>4, <2>2, <2>3 DEF S
<1>23. ASSUME NEW c \in Range(cycles) PROVE c \in CyclesOf /\ c[1].token_in \in Begun /\ ~Pending(c)'
  <2>1. c \in CyclesOf /\ c[1].token_in \in Begun /\ ~Pending(c)
    BY DEF FoundInv
  <2>2. c \in Seq(PoolSwaps)
    BY <1>19, <1>23 DEF Range
  <2> SUFFICES ASSUME Pending(c)' PROVE FALSE
    BY <2>1
  <2>3. c[1].token_in = start /\ Waiting(c)
    BY <1>15
  <2>4. \A i \in 1..L : ~Starts(queue[i].path, c)
    BY <2>1, <2>3 DEF Pending, L
  <2>5. PICK e \in PoolSwaps : Starts(Append(p, e), c)
    BY <1>6, <1>16, <2>3, <2>4
  <2>6. Starts(p, c)
    BY <1>8, <2>2, <2>5, StartsIs
  <2>7. QED BY <1>6, <2>4, <2>6
<1>24. ASSUME NEW c \in Range(found) PROVE ~Pending(c)'
  <2> SUFFICES ASSUME Waiting(c) PROVE FALSE
    BY <1>15
  <2>1. PICK e \in PoolSwaps : c = Append(p, e) /\ e.token_out = start
    BY <1>17
  <2>2. \A i \in 2..L : ~Starts(queue[i].path, c)
    BY <1>12, <2>1
  <2>3. PICK f \in PoolSwaps : f.token_out # start /\ Starts(Append(p, f), c)
    BY <1>16, <2>2
  <2>4. QED BY <1>13, <2>1, <2>3
<1>25. ASSUME NEW c \in CyclesOf, c[1].token_in \in Begun PROVE c \in Range(cycles) \/ c \in Range(found) \/ Pending(c)'
  <2> SUFFICES ASSUME c \notin Range(cycles) PROVE c \in Range(found) \/ Pending(c)'
    OBVIOUS
  <2>1. c[1].token_in = start /\ \E i \in 1..L : Starts(queue[i].path, c)
    BY <1>25 DEF FoundInv, Pending, L
  <2>2. PICK i \in 1..L : Starts(queue[i].path, c)
    BY <2>1
  <2>3. CASE i # 1
    <3>1. i \in 2..L
      BY <1>6, <2>3
    <3>2. i - 1 \in 1..Len(u) /\ u[i - 1] = queue[i]
      BY <1>10, <3>1
    <3>3. Waiting(c)
      BY <2>2, <3>2 DEF Waiting
    <3>4. QED BY <1>15, <2>1, <3>3
  <2>4. CASE i = 1
    <3>1. Starts(p, c)
      BY <1>6, <2>2, <2>4
    <3>2. PICK e \in Nexts(p, start) : /\ Starts(Append(p, e), c)
                                       /\ e.token_out = start => c = Append(p, e)
      BY <1>1, <2>1, <3>1, CycleExtends DEF p
    <3>3. CASE e.token_out = start
      <4>1. c = Append(p, e) /\ Matches(c)
        BY <3>2, <3>3 DEF CyclesOf
      <4>2. QED BY <1>2, <3>3, <4>1 DEF Finds
    <3>4. CASE e.token_out # start
      <4>1. PICK j \in 1..Len(new) : new[j].path = Append(p, e)
        BY <1>2, <3>4 DEF Enters
      <4>2. Waiting(c)
        BY <1>10, <3>2, <4>1 DEF Waiting
      <4>3. QED BY <1>15, <2>1, <4>2
    <3>5. QED BY <3>3, <3>4
  <2>5. QED BY <2>3, <2>4
<1>26. FoundInv'
  <2>1. (queue # <<>> => start \in Begun)'
    BY <1>3, <1>4, <1>18
  <2>2. \A c \in Range(cycles)' : c \in CyclesOf /\ c[1].token_in \in Begun /\ ~Pending(c)'
    <3> TAKE c \in Range(cycles)'
    <3>1. CASE c \in Range(cycles)
      BY <1>23, <3>1
    <3>2. CASE c \in Range(found)
      BY <1>17, <1>18, <1>24, <3>2
    <3>3. QED BY <1>22, <3>1, <3>2
  <2>3. \A c \in CyclesOf : c[1].token_in \in Begun => c \in Range(cycles)' \/ Pending(c)'
    BY <1>22, <1>25
  <2>4. QED BY <1>4, <1>22, <2>1, <2>2, <2>3 DEF FoundInv
<1>27. QED BY <1>14, <1>26

-----------------------------------------------------------------------------
(* The invariant.                                                           *)

\* The pairs of swaps the first n nodes give.
PairsUpTo(n) == {route \in UNION {PairsThrough(nodes[k]) : k \in 1..n} : Matches(route)}

\* What holds before each step: the graph is that of the pools, the search of the
\* tokens begun is exact up to what is pending, and then the pairs are those of
\* the nodes visited.
FinderInv ==
    /\ PoolTypes
    /\ constraints \in Constraints
    /\ start \in Tokens \cup {NoToken}
    /\ stage \in {"graph", "cycles", "misprices", "done"}
    /\ stage = "graph" => /\ edges = <<>> /\ nodes = <<>> /\ queue = <<>> /\ cycles = <<>>
                          /\ next_node = 1 /\ misprices = {}
    /\ stage # "graph" => GraphIs
    /\ next_node \in 1..Len(nodes) + 1
    /\ stage = "cycles" => QueueInv /\ FoundInv /\ misprices = {}
    /\ stage \in {"misprices", "done"} =>
          /\ queue = <<>>
          /\ cycles \in Seq(Seq(PoolSwaps))
          /\ IsInjective(cycles)
          /\ Range(cycles) = CyclesOf
          /\ misprices = PairsUpTo(next_node - 1)
    /\ stage = "done" => next_node = Len(nodes) + 1

\* It holds at the start.
LEMMA FinderInits == FinderInit => FinderInv
<1> SUFFICES ASSUME FinderInit PROVE FinderInv
  OBVIOUS
<1>1. Len(<<>>) + 1 = 1 /\ 1 \in 1..1
  OBVIOUS
<1>2. QED BY <1>1 DEF FinderInit, FinderInv, PoolTypes

\* The graph's facts are kept while the pools and the graph are.
LEMMA GraphKept ==
    ASSUME GraphIs, pools' = pools, constraints' = constraints, edges' = edges, nodes' = nodes
    PROVE  GraphIs'
<1>1. PoolSwaps' = PoolSwaps
  BY PoolsKept
<1>2. Range(edges)' = Range(edges) /\ Range(nodes)' = Range(nodes)
      /\ IsInjective(edges)' = IsInjective(edges) /\ IsInjective(nodes)' = IsInjective(nodes)
  BY DEF Range, IsInjective
<1>3. QED BY <1>1, <1>2 DEF GraphIs

\* build_graph gives the graph of the pools.
LEMMA BuildGraphKeeps ==
    ASSUME FinderInv, BuildGraph, max_length \in Nat
    PROVE  FinderInv'
<1> DEFINE es == FlattenSeq([p \in 1..NumPools |-> EdgesOf(p)])
<1>1. /\ stage = "graph" /\ stage' = "cycles" /\ edges' = es /\ nodes' = NodesOf(es)
      /\ pools' = pools /\ constraints' = constraints /\ next_node' = next_node
      /\ start' = start /\ queue' = queue /\ cycles' = cycles /\ misprices' = misprices
  BY DEF BuildGraph
<1>2. PoolTypes /\ queue = <<>> /\ cycles = <<>> /\ next_node = 1 /\ misprices = {}
  BY <1>1 DEF FinderInv
<1>3. es \in Seq(Edge) /\ Range(es) = PoolSwaps /\ IsInjective(es)
  BY <1>2, EdgesAre
<1> HIDE DEF es
<1>4. /\ NodesOf(es) \in Seq(Tokens)
      /\ Range(NodesOf(es)) = {e.token_in : e \in Range(es)}
      /\ IsInjective(NodesOf(es))
  BY <1>3, NodesAre
<1>5. es \in Seq(PoolSwaps)
  <2>1. \A i \in 1..Len(es) : es[i] \in PoolSwaps
    BY <1>3 DEF Range
  <2>2. es \in [1..Len(es) -> PoolSwaps]
    <3>1. es \in [1..Len(es) -> Edge]
      BY <1>3
    <3>2. QED BY <2>1, <3>1
  <2>3. Len(es) \in Nat
    BY <1>3
  <2>4. QED BY <2>2, <2>3
<1>6. PoolSwaps' = PoolSwaps /\ CyclesOf' = CyclesOf
  BY <1>1, PoolsKept
<1>7. GraphIs'
  <2>1. Range(edges)' = Range(es) /\ Range(nodes)' = Range(NodesOf(es))
        /\ IsInjective(edges)' = IsInjective(es) /\ IsInjective(nodes)' = IsInjective(NodesOf(es))
    BY <1>1 DEF Range, IsInjective
  <2>2. QED BY <1>1, <1>3, <1>4, <1>5, <1>6, <2>1 DEF GraphIs
<1>8. QueueInv'
  <2>1. <<>> \in Seq({EntryOf(p, start) : p \in Seq(PoolSwaps)})' /\ Len(<<>>) = 0
    OBVIOUS
  <2>2. QED BY <1>1, <1>2, <2>1 DEF QueueInv
<1>9. FoundInv'
  <2>1. Begun' = {}
    <3>1. 1..next_node' - 1 = {}
      BY <1>1, <1>2
    <3>2. QED BY <3>1 DEF Begun
  <2>2. <<>> \in Seq(Seq(PoolSwaps)) /\ IsInjective(<<>>) /\ Range(<<>>) = {}
    BY DEF Range, IsInjective
  <2>3. (cycles \in Seq(Seq(PoolSwaps)))' /\ IsInjective(cycles)' /\ Range(cycles)' = {}
    BY <1>1, <1>2, <1>6, <2>2 DEF Range, IsInjective
  <2>4. QED BY <1>1, <1>2, <2>1, <2>3 DEF FoundInv
<1>10. next_node' \in 1..Len(nodes') + 1
  <2>1. Len(NodesOf(es)) \in Nat
    BY <1>4
  <2>2. QED BY <1>1, <1>2, <2>1
<1>11. PoolTypes' /\ constraints' \in Constraints /\ start' \in Tokens \cup {NoToken}
  BY <1>1 DEF FinderInv, PoolTypes
<1>12. QED BY <1>1, <1>2, <1>7, <1>8, <1>9, <1>10, <1>11 DEF FinderInv

\* The pairs of the nodes visited are those of the pools and the graph.
LEMMA PairsKept ==
    ASSUME pools' = pools, constraints' = constraints, edges' = edges, nodes' = nodes
    PROVE  /\ \A n : PairsUpTo(n)' = PairsUpTo(n)
           /\ \A token : PairsThrough(token)' = PairsThrough(token)
<1>1. \A token : EdgesFrom(token)' = EdgesFrom(token)
  BY DEF EdgesFrom, Filter
<1>2. \A a, b : FindEdge(a, b)' = FindEdge(a, b)
  BY <1>1 DEF FindEdge, Filter
<1>3. \A token : Neighbors(token)' = Neighbors(token)
  BY <1>1 DEF Neighbors
<1>4. \A token : PairsThrough(token)' = PairsThrough(token)
  BY <1>2, <1>3 DEF PairsThrough
<1>5. \A route : Matches(route)' <=> Matches(route)
  BY PoolsKept
<1>6. \A n : PairsUpTo(n)' = PairsUpTo(n)
  BY <1>4, <1>5 DEF PairsUpTo
<1>7. QED BY <1>4, <1>6

\* One more node adds its pairs.
LEMMA PairsNext ==
    ASSUME NEW n \in Nat
    PROVE  /\ PairsUpTo(n + 1) = PairsUpTo(n) \cup {route \in PairsThrough(nodes[n + 1]) : Matches(route)}
           /\ PairsUpTo(0) = {}
<1>1. \A k \in 1..n + 1 : k \in 1..n \/ k = n + 1
  OBVIOUS
<1>2. \A k \in 1..n : k \in 1..n + 1
  OBVIOUS
<1>3. n + 1 \in 1..n + 1 /\ 1..0 = {}
  OBVIOUS
<1>4. UNION {PairsThrough(nodes[k]) : k \in 1..n + 1} = (UNION {PairsThrough(nodes[k]) : k \in 1..n}) \cup PairsThrough(nodes[n + 1])
  BY <1>1, <1>2, <1>3
<1>5. PairsUpTo(0) = {}
  BY <1>3 DEF PairsUpTo
<1>6. QED BY <1>4, <1>5 DEF PairsUpTo

\* Every step keeps the invariant.
LEMMA FinderSteps == FinderInv /\ [FinderNext]_finderVars => FinderInv'
<1> SUFFICES ASSUME FinderInv, [FinderNext]_finderVars PROVE FinderInv'
  OBVIOUS
<1>1. max_length \in Nat
  BY FinderAssumption
<1>2. CASE BuildGraph
  BY <1>1, <1>2, BuildGraphKeeps
<1>3. CASE StartSearch
  <2>1. /\ stage = "cycles" /\ stage' = stage /\ pools' = pools /\ constraints' = constraints
        /\ edges' = edges /\ nodes' = nodes /\ misprices' = misprices
        /\ next_node' = next_node + 1 /\ next_node <= Len(nodes)
    BY <1>3 DEF StartSearch, graph
  <2>2. GraphIs /\ QueueInv /\ FoundInv /\ misprices = {} /\ next_node \in 1..Len(nodes) + 1
    BY <2>1 DEF FinderInv
  <2>3. QueueInv' /\ FoundInv'
    <3>1. next_node \in Nat \ {0}
      BY <2>2
    <3>2. QED BY <1>1, <1>3, <2>2, <3>1, StartSearchKeeps
  <2>4. GraphIs'
    BY <2>1, <2>2, GraphKept
  <2>5. next_node' \in 1..Len(nodes') + 1
    <3>1. Len(nodes) \in Nat
      BY <2>2 DEF GraphIs
    <3>2. QED BY <2>1, <2>2, <3>1
  <2>6. start' \in Tokens \cup {NoToken}
    <3>1. nodes[next_node] \in Tokens
      BY <2>1, <2>2 DEF GraphIs
    <3>2. start' = nodes[next_node] \/ start' = start
      BY <1>3 DEF StartSearch
    <3>3. QED BY <3>1, <3>2 DEF FinderInv
  <2>7. PoolTypes' /\ constraints' \in Constraints
    BY <2>1 DEF FinderInv, PoolTypes
  <2>8. QED BY <2>1, <2>2, <2>3, <2>4, <2>5, <2>6, <2>7 DEF FinderInv
<1>4. CASE Visit
  <2>1. /\ stage = "cycles" /\ stage' = stage /\ pools' = pools /\ constraints' = constraints
        /\ edges' = edges /\ nodes' = nodes /\ misprices' = misprices
        /\ next_node' = next_node /\ start' = start
    BY <1>4 DEF Visit, graph
  <2>2. GraphIs /\ QueueInv /\ FoundInv /\ misprices = {} /\ next_node \in 1..Len(nodes) + 1
    BY <2>1 DEF FinderInv
  <2>3. QueueInv' /\ FoundInv'
    BY <1>1, <1>4, <2>2, VisitKeeps
  <2>4. GraphIs'
    BY <2>1, <2>2, GraphKept
  <2>5. PoolTypes' /\ constraints' \in Constraints /\ start' \in Tokens \cup {NoToken}
    BY <2>1 DEF FinderInv, PoolTypes
  <2>6. QED BY <2>1, <2>2, <2>3, <2>4, <2>5 DEF FinderInv
<1>5. CASE CyclesDone
  <2>1. /\ stage = "cycles" /\ stage' = "misprices" /\ pools' = pools /\ constraints' = constraints
        /\ edges' = edges /\ nodes' = nodes /\ misprices' = misprices
        /\ next_node' = 1 /\ next_node > Len(nodes) /\ start' = start
        /\ queue = <<>> /\ queue' = queue /\ cycles' = cycles
    BY <1>5 DEF CyclesDone, graph
  <2>2. GraphIs /\ QueueInv /\ FoundInv /\ misprices = {} /\ next_node \in 1..Len(nodes) + 1
    BY <2>1 DEF FinderInv
  <2>3. Len(nodes) \in Nat /\ DOMAIN nodes = 1..Len(nodes)
    BY <2>2 DEF GraphIs
  <2>4. Begun = Range(nodes)
    <3>1. next_node - 1 = Len(nodes)
      BY <2>1, <2>2, <2>3
    <3>2. QED BY <2>3, <3>1 DEF Begun, Range
  <2>5. \A c \in CyclesOf : c[1].token_in \in Begun
    <3> TAKE c \in CyclesOf
    <3>1. c[1] \in PoolSwaps
      <4>1. PICK n \in 1..max_length : c \in [1..n -> PoolSwaps]
        BY DEF CyclesOf
      <4>2. 1 \in 1..n
        BY <1>1
      <4>3. QED BY <4>1, <4>2
    <3>2. QED BY <2>2, <2>4, <3>1 DEF GraphIs
  <2>6. \A c : ~Pending(c)
    BY <2>1 DEF Pending
  <2>7. Range(cycles) = CyclesOf
    BY <2>2, <2>5, <2>6 DEF FoundInv
  <2>8. CyclesOf' = CyclesOf /\ PoolSwaps' = PoolSwaps /\ Range(cycles)' = Range(cycles)
        /\ IsInjective(cycles)' = IsInjective(cycles)
    BY <2>1, PoolsKept DEF Range, IsInjective
  <2>9. (misprices = PairsUpTo(next_node - 1))'
    <3>1. PairsUpTo(0)' = {}
      BY <2>1, PairsKept, PairsNext
    <3>2. next_node' - 1 = 0
      BY <2>1
    <3>3. PairsUpTo(next_node - 1)' = {}
      BY <3>2 DEF PairsUpTo
    <3>4. QED BY <2>1, <2>2, <3>3
  <2>10. GraphIs'
    BY <2>1, <2>2, GraphKept
  <2>11. next_node' \in 1..Len(nodes') + 1
    BY <2>1, <2>3
  <2>12. PoolTypes' /\ constraints' \in Constraints /\ start' \in Tokens \cup {NoToken}
    BY <2>1 DEF FinderInv, PoolTypes
  <2>13. cycles \in Seq(Seq(PoolSwaps)) /\ IsInjective(cycles)
    BY <2>2 DEF FoundInv
  <2>14. QED BY <2>1, <2>7, <2>8, <2>9, <2>10, <2>11, <2>12, <2>13 DEF FinderInv
<1>6. CASE VisitPairs
  <2>1. /\ stage = "misprices" /\ stage' = stage /\ pools' = pools /\ constraints' = constraints
        /\ edges' = edges /\ nodes' = nodes /\ start' = start /\ queue' = queue /\ cycles' = cycles
        /\ next_node' = next_node + 1 /\ next_node <= Len(nodes)
        /\ misprices' = misprices \cup {route \in PairsThrough(nodes[next_node]) : Matches(route)}
    BY <1>6 DEF VisitPairs, graph
  <2>2. /\ GraphIs /\ next_node \in 1..Len(nodes) + 1 /\ misprices = PairsUpTo(next_node - 1)
        /\ queue = <<>> /\ cycles \in Seq(Seq(PoolSwaps)) /\ IsInjective(cycles) /\ Range(cycles) = CyclesOf
    BY <2>1 DEF FinderInv
  <2>3. next_node - 1 \in Nat /\ (next_node - 1) + 1 = next_node /\ next_node' - 1 = next_node
    BY <2>1, <2>2
  <2>4. misprices' = PairsUpTo(next_node)
    <3> DEFINE n == next_node - 1
    <3>1. n \in Nat /\ n + 1 = next_node /\ misprices = PairsUpTo(n)
      BY <2>2, <2>3
    <3> HIDE DEF n
    <3>2. PairsUpTo(n + 1) = PairsUpTo(n) \cup {route \in PairsThrough(nodes[n + 1]) : Matches(route)}
      BY <3>1, PairsNext
    <3>3. QED BY <2>1, <3>1, <3>2
  <2>5. (misprices = PairsUpTo(next_node - 1))'
    <3>1. \A m : PairsUpTo(m)' = PairsUpTo(m)
      BY <2>1, PairsKept
    <3>2. ASSUME NEW m, m = next_node PROVE PairsUpTo(next_node - 1)' = PairsUpTo(m)'
      BY <2>3, <3>2 DEF PairsUpTo
    <3>3. PairsUpTo(next_node - 1)' = PairsUpTo(next_node)
      BY <3>1, <3>2
    <3>4. QED BY <2>4, <3>3
  <2>6. CyclesOf' = CyclesOf /\ PoolSwaps' = PoolSwaps /\ Range(cycles)' = Range(cycles)
        /\ IsInjective(cycles)' = IsInjective(cycles)
    BY <2>1, PoolsKept DEF Range, IsInjective
  <2>7. GraphIs'
    BY <2>1, <2>2, GraphKept
  <2>8. next_node' \in 1..Len(nodes') + 1
    <3>1. Len(nodes) \in Nat
      BY <2>2 DEF GraphIs
    <3>2. QED BY <2>1, <2>2, <3>1
  <2>9. PoolTypes' /\ constraints' \in Constraints /\ start' \in Tokens \cup {NoToken}
    BY <2>1 DEF FinderInv, PoolTypes
  <2>10. QED BY <2>1, <2>2, <2>5, <2>6, <2>7, <2>8, <2>9 DEF FinderInv
<1>7. ASSUME (MispricesDone \/ UNCHANGED finderVars) PROVE FinderInv'
  <2>1. /\ pools' = pools /\ constraints' = constraints /\ edges' = edges /\ nodes' = nodes
        /\ start' = start /\ queue' = queue /\ cycles' = cycles /\ next_node' = next_node
        /\ misprices' = misprices
        /\ \/ stage' = stage
           \/ stage = "misprices" /\ stage' = "done" /\ next_node > Len(nodes)
    BY <1>7 DEF MispricesDone, finderVars, graph
  <2>2. /\ CyclesOf' = CyclesOf /\ PoolSwaps' = PoolSwaps /\ Range(cycles)' = Range(cycles)
        /\ IsInjective(cycles)' = IsInjective(cycles)
    BY <2>1, PoolsKept DEF Range, IsInjective
  <2>3. (misprices = PairsUpTo(next_node - 1))' <=> misprices = PairsUpTo(next_node - 1)
    <3>1. \A m : PairsUpTo(m)' = PairsUpTo(m)
      BY <2>1, PairsKept
    <3>2. ASSUME NEW m, m = next_node - 1 PROVE PairsUpTo(next_node - 1)' = PairsUpTo(m)'
      BY <2>1, <3>2 DEF PairsUpTo
    <3>3. PairsUpTo(next_node - 1)' = PairsUpTo(next_node - 1)
      BY <3>1, <3>2
    <3>4. QED BY <2>1, <3>3
  <2>4. GraphIs => GraphIs'
    BY <2>1, GraphKept
  <2>5. stage' = "cycles" /\ QueueInv => QueueInv'
    <3>1. \A p, s : Trail(p, s)' <=> Trail(p, s)
      BY <2>1, PoolsKept
    <3>2. ASSUME QueueInv PROVE QueueInv'
      <4>1. (queue \in Seq({EntryOf(q, start) : q \in Seq(PoolSwaps)}))'
        BY <2>1, <2>2, <3>2 DEF QueueInv
      <4>2. \A i \in 1..Len(queue) : Trail(queue[i].path, start)
        BY <3>2 DEF QueueInv
      <4>3. (\A i \in 1..Len(queue) : Trail(queue[i].path, start))'
        BY <2>1, <2>2, <4>2 DEF Trail, Joined
      <4>4. (\A i, j \in 1..Len(queue) : Starts(queue[i].path, queue[j].path) => i = j)'
        BY <2>1, <3>2 DEF QueueInv
      <4>5. QED BY <4>1, <4>3, <4>4 DEF QueueInv
    <3>3. QED BY <3>2
  <2>6. stage' = "cycles" /\ FoundInv => FoundInv'
    <3>1. Begun' = Begun /\ \A c : Pending(c)' <=> Pending(c)
      BY <2>1 DEF Begun, Pending
    <3>2. QED BY <2>1, <2>2, <3>1 DEF FoundInv
  <2>7. PoolTypes' /\ constraints' \in Constraints /\ start' \in Tokens \cup {NoToken}
    BY <2>1 DEF FinderInv, PoolTypes
  <2>8. CASE stage' = stage
    BY <2>1, <2>2, <2>3, <2>4, <2>5, <2>6, <2>7, <2>8 DEF FinderInv
  <2>9. CASE stage = "misprices" /\ stage' = "done" /\ next_node > Len(nodes)
    <3>1. next_node = Len(nodes) + 1
      <4>1. GraphIs /\ next_node \in 1..Len(nodes) + 1
        BY <2>9 DEF FinderInv
      <4>2. Len(nodes) \in Nat
        BY <4>1 DEF GraphIs
      <4>3. QED BY <2>9, <4>1, <4>2
    <3>2. QED BY <2>1, <2>2, <2>3, <2>4, <2>7, <2>9, <3>1 DEF FinderInv
  <2>10. QED BY <2>1, <2>8, <2>9
<1>8. QED BY <1>2, <1>3, <1>4, <1>5, <1>6, <1>7 DEF FinderNext

\* The inductive invariant of build_graph, find_cycles and find_two_pool_misprices, for
\* any tokens, pools, lengths and constraints: the graph is that of the pools, and of the
\* cycles from the tokens begun each is found once or starts with a path of the queue.
THEOREM FinderCorrect == FinderSpec => []FinderInv
BY FinderInits, FinderSteps, PTL DEF FinderSpec

-----------------------------------------------------------------------------
(* What the invariant gives.                                                *)

\* An injective sequence is as long as it has elements.
LEMMA InjectiveCounts ==
    ASSUME NEW T, NEW s \in Seq(T), IsInjective(s)
    PROVE  ToSet(s) = Range(s) /\ IsFiniteSet(Range(s)) /\ Cardinality(ToSet(s)) = Len(s)
<1>1. DOMAIN s = 1..Len(s) /\ Len(s) \in Nat
  OBVIOUS
<1>2. ToSet(s) = Range(s) /\ Range(s) = {s[i] : i \in 1..Len(s)}
  BY <1>1 DEF ToSet, Range
<1>3. s \in Bijection(1..Len(s), Range(s))
  <2>1. s \in [1..Len(s) -> Range(s)]
    <3>1. s = [i \in 1..Len(s) |-> s[i]]
      BY <1>1
    <3>2. QED BY <1>2, <3>1
  <2>2. \A y \in Range(s) : \E i \in 1..Len(s) : s[i] = y
    BY <1>2
  <2>3. QED BY <1>1, <2>1, <2>2 DEF Bijection, Injection, Surjection, IsInjective
<1>4. ExistsBijection(1..Len(s), Range(s))
  BY <1>3 DEF ExistsBijection
<1>5. Cardinality(Range(s)) = Len(s)
  BY <1>1, <1>4, FS_CountingElements
<1>6. IsFiniteSet(Range(s))
  BY <1>1, <1>4, FS_NatBijection
<1>7. QED BY <1>2, <1>5, <1>6

\* PathFinder.CyclesExact, for any tokens, pools, lengths and constraints: find_cycles
\* finds every cycle that meets the constraints, nothing else, and none twice.
THEOREM CyclesExactHolds == FinderSpec => []CyclesExact
<1>1. FinderInv => CyclesExact
  <2> SUFFICES ASSUME FinderInv, stage = "misprices", next_node = 1
               PROVE  ToSet(cycles) = CyclesOf /\ Cardinality(ToSet(cycles)) = Len(cycles)
    BY DEF CyclesExact, CyclesOf
  <2>1. cycles \in Seq(Seq(PoolSwaps)) /\ IsInjective(cycles) /\ Range(cycles) = CyclesOf
    BY DEF FinderInv
  <2> DEFINE S == Seq(PoolSwaps)
  <2> HIDE DEF S
  <2>2. cycles \in Seq(S)
    BY <2>1 DEF S
  <2>3. QED BY <2>1, <2>2, InjectiveCounts
<1>2. QED BY <1>1, FinderCorrect, PTL

-----------------------------------------------------------------------------
(* The pairs of swaps.                                                      *)

\* There is a swap from a to b.
Linked(a, b) == \E e \in PoolSwaps : e.token_in = a /\ e.token_out = b

\* Every pool swaps both ways, between two tokens.
LEMMA SwapsBothWays ==
    ASSUME PoolTypes, NEW a, NEW b, Linked(a, b)
    PROVE  Linked(b, a) /\ a # b /\ a \in Tokens /\ b \in Tokens
<1>1. PICK e \in PoolSwaps : e.token_in = a /\ e.token_out = b
  BY DEF Linked
<1>2. e \in Edge /\ pools[e.pool] # Unsupported /\ {a, b} = ToSet(pools[e.pool])
  BY <1>1 DEF PoolSwaps
<1>3. e.pool \in 1..NumPools /\ a \in Tokens /\ b \in Tokens
  BY <1>1, <1>2 DEF Edge
<1> DEFINE f == [pool |-> e.pool, token_in |-> b, token_out |-> a]
<1>4. f \in Edge /\ f.pool = e.pool /\ f.token_in = b /\ f.token_out = a
  BY <1>3 DEF Edge
<1>5. {f.token_in, f.token_out} = ToSet(pools[f.pool]) /\ pools[f.pool] # Unsupported
  BY <1>2, <1>4
<1> HIDE DEF f
<1>6. f \in PoolSwaps
  BY <1>4, <1>5 DEF PoolSwaps
<1>7. Linked(b, a)
  BY <1>4, <1>6 DEF Linked
<1>8. a # b
  <2> DEFINE ab == pools[e.pool]
  <2>1. ab \in Tokens \X Tokens /\ ab[1] # ab[2]
    BY <1>2, <1>3 DEF PoolTypes, Pairs
  <2>2. DOMAIN ab = 1..2 /\ 1 \in 1..2 /\ 2 \in 1..2
    BY <2>1
  <2> HIDE DEF ab
  <2>3. ab[1] \in ToSet(ab) /\ ab[2] \in ToSet(ab)
    BY <2>2 DEF ToSet
  <2>4. ToSet(ab) = {a, b}
    BY <1>2 DEF ab
  <2>5. QED BY <2>1, <2>3, <2>4
<1>9. QED BY <1>3, <1>7, <1>8

\* find_edge gives an edge between the two tokens, if there is one.
LEMMA FindEdgeIs ==
    ASSUME GraphIs, NEW a, NEW b, Linked(a, b)
    PROVE  /\ FindEdge(a, b) \in PoolSwaps
           /\ FindEdge(a, b).token_in = a /\ FindEdge(a, b).token_out = b
<1> DEFINE es == EdgesFrom(a)
           S == {x \in Range(es) : x.token_out = b}
           t == Sift(es, S)
<1>1. es \in Seq(PoolSwaps) /\ Range(es) = {e \in PoolSwaps : e.token_in = a}
  BY EdgesFromIs
<1>2. FindEdge(a, b) = t[1]
  BY DEF FindEdge, Filter
<1> HIDE DEF es
<1>3. Range(es) \cap S = S
  OBVIOUS
<1>4. \A x \in S : x \in PoolSwaps /\ x.token_in = a /\ x.token_out = b
  BY <1>1
<1>5. S # {}
  <2>1. PICK e \in PoolSwaps : e.token_in = a /\ e.token_out = b
    BY DEF Linked
  <2>2. e \in S
    BY <1>1, <2>1
  <2>3. QED BY <2>2
<1> HIDE DEF S
<1>6. t \in Seq(PoolSwaps) /\ Range(t) = S
  BY <1>1, <1>3, SiftIs
<1> HIDE DEF t
<1>7. t[1] \in S
  <2>1. t # <<>>
    <3>1. Range(<<>>) = {}
      BY DEF Range
    <3>2. QED BY <1>5, <1>6, <3>1
  <2>2. 1 \in DOMAIN t
    BY <1>6, <2>1
  <2>3. QED BY <1>6, <2>2 DEF Range
<1>8. QED BY <1>2, <1>4, <1>7

\* The pairs through a token, by the tokens on both sides.
LEMMA PairsThroughIs ==
    ASSUME GraphIs, PoolTypes, NEW t
    PROVE  PairsThrough(t) = {<<FindEdge(ab[1], t), FindEdge(t, ab[2])>> :
                                 ab \in {nn \in Tokens \X Tokens :
                                            Linked(nn[1], t) /\ Linked(t, nn[2]) /\ nn[1] # nn[2]}}
<1>1. EdgesFrom(t) \in Seq(PoolSwaps) /\ Range(EdgesFrom(t)) = {e \in PoolSwaps : e.token_in = t}
  BY EdgesFromIs
<1>2. ToSet(EdgesFrom(t)) = Range(EdgesFrom(t))
  BY DEF ToSet, Range
<1>3. \A b : b \in Neighbors(t) <=> b \in Tokens /\ Linked(t, b) /\ Linked(b, t)
  <2> TAKE b
  <2>1. b \in Neighbors(t) <=> Linked(t, b)
    BY <1>1, <1>2 DEF Neighbors, Linked
  <2>2. Linked(t, b) => b \in Tokens /\ Linked(b, t)
    BY SwapsBothWays
  <2>3. QED BY <2>1, <2>2
<1>4. \A b : Linked(b, t) => Linked(t, b)
  BY SwapsBothWays
<1>5. {nn \in Neighbors(t) \X Neighbors(t) : nn[1] # nn[2]}
         = {nn \in Tokens \X Tokens : Linked(nn[1], t) /\ Linked(t, nn[2]) /\ nn[1] # nn[2]}
  <2> DEFINE N == Neighbors(t)
  <2> HIDE DEF N
  <2>1. \A b : b \in N <=> b \in Tokens /\ Linked(t, b) /\ Linked(b, t)
    BY <1>3 DEF N
  <2>2. {nn \in N \X N : nn[1] # nn[2]}
           = {nn \in Tokens \X Tokens : Linked(nn[1], t) /\ Linked(t, nn[2]) /\ nn[1] # nn[2]}
    <3> DEFINE A == {nn \in N \X N : nn[1] # nn[2]}
               B == {nn \in Tokens \X Tokens : Linked(nn[1], t) /\ Linked(t, nn[2]) /\ nn[1] # nn[2]}
    <3>1. ASSUME NEW x \in A PROVE x \in B
      <4>1. x[1] \in N /\ x[2] \in N /\ x[1] # x[2] /\ x = <<x[1], x[2]>>
        OBVIOUS
      <4>2. x[1] \in Tokens /\ x[2] \in Tokens /\ Linked(x[1], t) /\ Linked(t, x[2])
        BY <2>1, <4>1
      <4>3. x \in Tokens \X Tokens
        BY <4>1, <4>2
      <4>4. QED BY <4>1, <4>2, <4>3
    <3>2. ASSUME NEW x \in B PROVE x \in A
      <4>1. /\ x[1] \in Tokens /\ x[2] \in Tokens /\ x[1] # x[2] /\ x = <<x[1], x[2]>>
            /\ Linked(x[1], t) /\ Linked(t, x[2])
        OBVIOUS
      <4>2. Linked(t, x[1]) /\ Linked(x[2], t)
        <5>1. Linked(t, x[1])
          BY <4>1, SwapsBothWays
        <5>2. Linked(x[2], t)
          BY <4>1, SwapsBothWays
        <5>3. QED BY <5>1, <5>2
      <4>3. x[1] \in N /\ x[2] \in N
        BY <2>1, <4>1, <4>2
      <4>4. x \in N \X N
        BY <4>1, <4>3
      <4>5. QED BY <4>1, <4>4
    <3> HIDE DEF A, B
    <3>3. A = B
      BY <3>1, <3>2
    <3>4. QED BY <3>3 DEF A, B
  <2>3. QED BY <2>2 DEF N
<1>6. QED BY <1>5 DEF PairsThrough

\* Whether two swaps match the constraints is up to the first and the last token.
LEMMA MatchesByEnds ==
    ASSUME NEW e, NEW f, NEW g, NEW h, e.token_in = g.token_in, f.token_out = h.token_out
    PROVE  Matches(<<e, f>>) <=> Matches(<<g, h>>)
<1>1. /\ <<e, f>>[1] = e /\ <<e, f>>[2] = f /\ Len(<<e, f>>) = 2
      /\ <<g, h>>[1] = g /\ <<g, h>>[2] = h /\ Len(<<g, h>>) = 2
  OBVIOUS
<1>2. QED BY <1>1 DEF Matches

\* Three tokens are three if they differ.
LEMMA ThreeTokens ==
    ASSUME NEW a, NEW b, NEW c
    PROVE  Cardinality(ToSet(<<a, b, c>>)) = 3 <=> a # b /\ b # c /\ a # c
<1>1. ToSet(<<a, b, c>>) = {a, b, c}
  <2>1. DOMAIN <<a, b, c>> = 1..3 /\ 1..3 = {1, 2, 3}
    OBVIOUS
  <2>2. ToSet(<<a, b, c>>) = {<<a, b, c>>[i] : i \in {1, 2, 3}}
    BY <2>1 DEF ToSet
  <2>3. QED BY <2>2
<1>2. IsFiniteSet({a}) /\ Cardinality({a}) = 1
  BY FS_Singleton
<1>3. {a} \cup {b} = {a, b} /\ {a, b} \cup {c} = {a, b, c}
  OBVIOUS
<1>4. IsFiniteSet({a, b}) /\ Cardinality({a, b}) = IF b = a THEN 1 ELSE 2
  <2>1. /\ IsFiniteSet({a} \cup {b})
        /\ Cardinality({a} \cup {b}) = IF b \in {a} THEN Cardinality({a}) ELSE Cardinality({a}) + 1
    BY <1>2, FS_AddElement
  <2>2. QED BY <1>2, <1>3, <2>1
<1>5. Cardinality({a, b, c}) = IF c \in {a, b} THEN Cardinality({a, b}) ELSE Cardinality({a, b}) + 1
  <2>1. Cardinality({a, b} \cup {c}) = IF c \in {a, b} THEN Cardinality({a, b}) ELSE Cardinality({a, b}) + 1
    BY <1>4, FS_AddElement
  <2>2. QED BY <1>3, <2>1
<1>6. Cardinality({a, b, c}) = 3 <=> a # b /\ b # c /\ a # c
  BY <1>4, <1>5
<1>7. QED BY <1>1, <1>6

\* The three tokens of a pair of swaps.
EndsOf(route) == <<route[1].token_in, route[1].token_out, route[2].token_out>>

\* find_two_pool_misprices gives one path for every three tokens joined by pools.
LEMMA OnePathStep == FinderInv => OnePathPerTriple
<1> SUFFICES ASSUME FinderInv, stage = "done" PROVE OnePathPerTriple
  BY DEF OnePathPerTriple
<1>1. /\ PoolTypes /\ GraphIs /\ next_node = Len(nodes) + 1
      /\ misprices = PairsUpTo(next_node - 1)
  BY DEF FinderInv
<1>2. Len(nodes) \in Nat /\ DOMAIN nodes = 1..Len(nodes) /\ next_node - 1 = Len(nodes)
  BY <1>1 DEF GraphIs
<1>3. misprices = {route \in UNION {PairsThrough(nodes[k]) : k \in 1..Len(nodes)} : Matches(route)}
  BY <1>1, <1>2 DEF PairsUpTo
<1> DEFINE Between(a, t, b) == Linked(a, t) /\ Linked(t, b) /\ a # b
           Path(a, t, b) == <<FindEdge(a, t), FindEdge(t, b)>>
<1>4. ASSUME NEW a, NEW t, NEW b, Between(a, t, b)
      PROVE  /\ Path(a, t, b) \in PoolSwaps \X PoolSwaps
             /\ EndsOf(Path(a, t, b)) = <<a, t, b>>
             /\ Joined(Path(a, t, b))
             /\ ToSet(Path(a, t, b)) \subseteq PoolSwaps
             /\ a \in Tokens /\ t \in Tokens /\ b \in Tokens /\ a # t /\ t # b
             /\ Path(a, t, b)[1].token_in = a /\ Path(a, t, b)[1].token_out = t
             /\ Path(a, t, b)[2].token_in = t /\ Path(a, t, b)[2].token_out = b
  <2> DEFINE e == FindEdge(a, t)
             f == FindEdge(t, b)
  <2>1. /\ e \in PoolSwaps /\ e.token_in = a /\ e.token_out = t
        /\ f \in PoolSwaps /\ f.token_in = t /\ f.token_out = b
    BY <1>1, <1>4, FindEdgeIs
  <2>2. a \in Tokens /\ t \in Tokens /\ b \in Tokens /\ a # t /\ t # b
    BY <1>1, <1>4, SwapsBothWays
  <2> HIDE DEF e, f
  <2>3. <<e, f>>[1] = e /\ <<e, f>>[2] = f /\ Len(<<e, f>>) = 2 /\ DOMAIN <<e, f>> = 1..2
    OBVIOUS
  <2>4. EndsOf(<<e, f>>) = <<a, t, b>>
    BY <2>1, <2>3 DEF EndsOf
  <2>5. Joined(<<e, f>>)
    <3>1. \A i \in 1..2 - 1 : i = 1 /\ i + 1 = 2
      OBVIOUS
    <3>2. QED BY <2>1, <2>3, <3>1 DEF Joined
  <2>6. ToSet(<<e, f>>) \subseteq PoolSwaps
    <3>1. \A i \in 1..2 : i = 1 \/ i = 2
      OBVIOUS
    <3>2. QED BY <2>1, <2>3, <3>1 DEF ToSet
  <2>7. Path(a, t, b) = <<e, f>>
    BY DEF e, f
  <2>8. QED BY <2>1, <2>2, <2>3, <2>4, <2>5, <2>6, <2>7
<1>5. \A route : route \in misprices <=>
          \E a, t, b : Between(a, t, b) /\ route = Path(a, t, b) /\ Matches(route)
  <2> TAKE route
  <2>1. ASSUME route \in misprices PROVE \E a, t, b : Between(a, t, b) /\ route = Path(a, t, b) /\ Matches(route)
    <3>1. PICK k \in 1..Len(nodes) : route \in PairsThrough(nodes[k])
      BY <1>3, <2>1
    <3> DEFINE t == nodes[k]
    <3> HIDE DEF t
    <3>2. route \in {<<FindEdge(ab[1], t), FindEdge(t, ab[2])>> :
                      ab \in {nn \in Tokens \X Tokens :
                                 Linked(nn[1], t) /\ Linked(t, nn[2]) /\ nn[1] # nn[2]}}
      BY <1>1, <3>1, PairsThroughIs DEF t
    <3>3. PICK ab \in Tokens \X Tokens : /\ Linked(ab[1], t) /\ Linked(t, ab[2]) /\ ab[1] # ab[2]
                                         /\ route = <<FindEdge(ab[1], t), FindEdge(t, ab[2])>>
      BY <3>2
    <3>4. Between(ab[1], t, ab[2]) /\ route = Path(ab[1], t, ab[2]) /\ Matches(route)
      BY <1>3, <2>1, <3>3
    <3> HIDE DEF Between, Path
    <3>5. QED BY <3>4
  <2>2. ASSUME NEW a, NEW t, NEW b, Between(a, t, b), route = Path(a, t, b), Matches(route)
        PROVE  route \in misprices
    <3>1. a \in Tokens /\ t \in Tokens /\ b \in Tokens
      BY <1>4, <2>2
    <3>2. t \in Range(nodes)
      <4>1. PICK e \in PoolSwaps : e.token_in = t
        BY <2>2 DEF Linked
      <4>2. QED BY <1>1, <4>1 DEF GraphIs
    <3>3. PICK k \in 1..Len(nodes) : t = nodes[k]
      BY <1>2, <3>2 DEF Range
    <3>4. route \in PairsThrough(t)
      <4> DEFINE ab == <<a, b>>
      <4>1. ab[1] = a /\ ab[2] = b /\ ab \in Tokens \X Tokens
        BY <3>1
      <4> HIDE DEF ab
      <4>2. route = <<FindEdge(ab[1], t), FindEdge(t, ab[2])>> /\ Linked(ab[1], t) /\ Linked(t, ab[2]) /\ ab[1] # ab[2]
        BY <2>2, <4>1
      <4>3. route \in {<<FindEdge(xy[1], t), FindEdge(t, xy[2])>> :
                      xy \in {nn \in Tokens \X Tokens :
                                 Linked(nn[1], t) /\ Linked(t, nn[2]) /\ nn[1] # nn[2]}}
        BY <4>1, <4>2
      <4>4. QED BY <1>1, <4>3, PairsThroughIs
    <3>5. QED BY <1>3, <2>2, <3>3, <3>4
  <2>3. QED BY <2>1, <2>2
<1> DEFINE ends == {EndsOf(route) : route \in misprices}
<1>6. \A route \in misprices : Joined(route) /\ ToSet(route) \subseteq PoolSwaps /\ route \in PoolSwaps \X PoolSwaps
  BY <1>4, <1>5
<1>7. ASSUME NEW p \in misprices, NEW q \in misprices, EndsOf(p) = EndsOf(q) PROVE p = q
  <2>1. PICK a, t, b : Between(a, t, b) /\ p = Path(a, t, b)
    BY <1>5
  <2>2. PICK c, u, d : Between(c, u, d) /\ q = Path(c, u, d)
    BY <1>5
  <2> HIDE DEF Between, Path
  <2>3. <<a, t, b>> = <<c, u, d>>
    BY <1>4, <1>7, <2>1, <2>2
  <2>4. a = c /\ t = u /\ b = d
    BY <2>3
  <2>5. QED BY <2>1, <2>2, <2>4
<1>8. IsFiniteSet(misprices)
  <2>1. IsFiniteSet(PoolSwaps)
    <3>1. edges \in Seq(PoolSwaps) /\ IsInjective(edges) /\ Range(edges) = PoolSwaps
      BY <1>1 DEF GraphIs
    <3> DEFINE S == PoolSwaps
    <3> HIDE DEF S
    <3>2. edges \in Seq(S) /\ Range(edges) = S
      BY <3>1 DEF S
    <3>3. IsFiniteSet(S)
      BY <3>1, <3>2, InjectiveCounts
    <3>4. QED BY <3>3 DEF S
  <2>2. IsFiniteSet(PoolSwaps \X PoolSwaps)
    BY <2>1, FS_Product
  <2>3. misprices \in SUBSET (PoolSwaps \X PoolSwaps)
    BY <1>6
  <2>4. QED BY <2>2, <2>3, FS_Subset
<1>9. Cardinality(misprices) = Cardinality(ends)
  <2> DEFINE h == [p \in misprices |-> EndsOf(p)]
  <2>1. h \in Bijection(misprices, ends)
    <3>1. h \in [misprices -> ends] /\ DOMAIN h = misprices /\ \A p \in misprices : h[p] = EndsOf(p)
      OBVIOUS
    <3>2. \A x \in ends : \E p \in misprices : h[p] = x
      OBVIOUS
    <3> HIDE DEF h, ends
    <3>3. IsInjective(h)
      BY <1>7, <3>1 DEF IsInjective
    <3>4. QED BY <3>1, <3>2, <3>3 DEF Bijection, Injection, Surjection
  <2>2. ExistsBijection(misprices, ends)
    BY <2>1 DEF ExistsBijection
  <2> HIDE DEF ends
  <2>3. QED BY <1>8, <2>2, FS_Bijection
<1> DEFINE Triples == {t \in Tokens \X Tokens \X Tokens :
                          /\ Cardinality(ToSet(t)) = 3
                          /\ \E e, f \in PoolSwaps : /\ <<e.token_in, e.token_out>> = <<t[1], t[2]>>
                                                     /\ <<f.token_in, f.token_out>> = <<t[2], t[3]>>
                                                     /\ Matches(<<e, f>>)}
<1>10. ASSUME NEW x \in ends PROVE x \in Triples
  <2>1. PICK p \in misprices : x = EndsOf(p)
    OBVIOUS
  <2>2. PICK a, t, b : Between(a, t, b) /\ p = Path(a, t, b) /\ Matches(p)
    BY <1>5, <2>1
  <2>3. x = <<a, t, b>> /\ a \in Tokens /\ t \in Tokens /\ b \in Tokens /\ a # t /\ t # b /\ a # b
    BY <1>4, <2>1, <2>2
  <2>4. x[1] = a /\ x[2] = t /\ x[3] = b /\ x \in Tokens \X Tokens \X Tokens
    BY <2>3
  <2>5. Cardinality(ToSet(x)) = 3
    BY <2>3, ThreeTokens
  <2> DEFINE e == FindEdge(a, t)
             f == FindEdge(t, b)
  <2>6. /\ e \in PoolSwaps /\ e.token_in = a /\ e.token_out = t
        /\ f \in PoolSwaps /\ f.token_in = t /\ f.token_out = b
    BY <1>1, <2>2, FindEdgeIs
  <2>7. Matches(<<e, f>>)
    BY <2>2
  <2> HIDE DEF e, f, ends, Between, Path
  <2>8. \E g, h \in PoolSwaps : /\ <<g.token_in, g.token_out>> = <<x[1], x[2]>>
                                /\ <<h.token_in, h.token_out>> = <<x[2], x[3]>>
                                /\ Matches(<<g, h>>)
    BY <2>4, <2>6, <2>7
  <2>9. QED BY <2>4, <2>5, <2>8
<1>11. ASSUME NEW x \in Triples PROVE x \in ends
  <2>1. x \in Tokens \X Tokens \X Tokens /\ Cardinality(ToSet(x)) = 3
    OBVIOUS
  <2>2. PICK e \in PoolSwaps, f \in PoolSwaps : /\ <<e.token_in, e.token_out>> = <<x[1], x[2]>>
                                                /\ <<f.token_in, f.token_out>> = <<x[2], x[3]>>
                                                /\ Matches(<<e, f>>)
    OBVIOUS
  <2> DEFINE a == x[1]
             t == x[2]
             b == x[3]
             p == Path(a, t, b)
  <2>3. x = <<a, t, b>>
    BY <2>1
  <2>4. e.token_in = a /\ e.token_out = t /\ f.token_in = t /\ f.token_out = b
    BY <2>2
  <2> HIDE DEF a, t, b, Triples
  <2>5. a # b
    BY <2>1, <2>3, ThreeTokens
  <2>6. Between(a, t, b)
    BY <2>4, <2>5 DEF Linked
  <2>7. EndsOf(p) = x
    BY <1>4, <2>3, <2>6
  <2>8. Matches(p)
    <3> DEFINE g == FindEdge(a, t)
               h == FindEdge(t, b)
    <3>1. g.token_in = e.token_in /\ h.token_out = f.token_out
      BY <1>1, <2>4, <2>6, FindEdgeIs
    <3> HIDE DEF g, h
    <3>2. Matches(<<g, h>>)
      BY <2>2, <3>1, MatchesByEnds
    <3>3. QED BY <3>2 DEF g, h
  <2>9. p \in misprices
    <3> HIDE DEF Between, Path
    <3>1. QED BY <1>5, <2>6, <2>8 DEF p
  <2> HIDE DEF p, Path, Between
  <2>10. QED BY <2>7, <2>9
<1>12. ends = Triples
  <2> HIDE DEF ends, Triples
  <2>1. QED BY <1>10, <1>11
<1>13. QED BY <1>6, <1>9, <1>12 DEF OnePathPerTriple, EndsOf

\* PathFinder.OnePathPerTriple, for any tokens, pools and constraints:
\* find_two_pool_misprices gives one path for every three tokens joined by pools.
THEOREM OnePathPerTripleHolds == FinderSpec => []OnePathPerTriple
BY OnePathStep, FinderCorrect, PTL

\* PathFinder.FinderTypeOK: graph, queue and results of a search keep their types, and
\* no path of the queue is longer than max_length.
THEOREM FinderTypes == FinderSpec => []FinderTypeOK
<1>1. FinderInv => FinderTypeOK
  <2> SUFFICES ASSUME FinderInv PROVE FinderTypeOK
    OBVIOUS
  <2>1. \A e \in PoolSwaps : e \in Edge /\ e.token_in \in Tokens /\ e.token_out \in Tokens
    BY SwapTypes
  <2>2. stage # "graph" => GraphIs
    BY DEF FinderInv
  <2>3. \A s \in Seq(PoolSwaps) : s \in Seq(Edge)
    BY <2>1
  <2>4. edges \in Seq(Edge)
    <3>1. <<>> \in Seq(Edge)
      OBVIOUS
    <3>2. GraphIs => edges \in Seq(PoolSwaps)
      BY DEF GraphIs
    <3>3. QED BY <2>2, <2>3, <3>1, <3>2 DEF FinderInv
  <2>5. nodes \in Seq(Tokens)
    <3>1. <<>> \in Seq(Tokens)
      OBVIOUS
    <3>2. QED BY <2>2, <3>1 DEF FinderInv, GraphIs
  <2>6. ASSUME NEW i \in DOMAIN queue
        PROVE  /\ queue[i].node \in Tokens
               /\ queue[i].path \in Seq(Edge) /\ Len(queue[i].path) <= max_length
               /\ queue[i].tokens_seen \subseteq Tokens
    <3>1. queue # <<>>
      BY <2>6
    <3>2. stage = "cycles" /\ QueueInv /\ FoundInv
      BY <3>1 DEF FinderInv
    <3> DEFINE E == {EntryOf(p, start) : p \in Seq(PoolSwaps)}
    <3>3. queue \in Seq(E) /\ \A j \in 1..Len(queue) : Trail(queue[j].path, start)
      BY <3>2 DEF QueueInv
    <3>4. i \in 1..Len(queue) /\ queue[i] \in E
      <4> HIDE DEF E
      <4>1. QED BY <2>6, <3>3
    <3>5. PICK p \in Seq(PoolSwaps) : queue[i] = EntryOf(p, start)
      BY <3>4
    <3>6. queue[i].path = p
      BY <3>5 DEF EntryOf
    <3>7. Len(p) <= max_length
      BY <3>3, <3>4, <3>6 DEF Trail
    <3>8. start \in Tokens
      <4>1. start \in Begun
        BY <3>1, <3>2 DEF FoundInv
      <4>2. GraphIs /\ next_node \in 1..Len(nodes) + 1
        BY <3>2 DEF FinderInv
      <4>3. PICK k \in 1..next_node - 1 : start = nodes[k]
        BY <4>1 DEF Begun
      <4>4. k \in 1..Len(nodes)
        BY <2>5, <4>2
      <4>5. QED BY <2>5, <4>3, <4>4
    <3>9. \A k \in 1..Len(p) : p[k].token_out \in Tokens
      BY <2>1
    <3>10. p # <<>> => Len(p) \in 1..Len(p)
      OBVIOUS
    <3>11. queue[i].node \in Tokens /\ queue[i].tokens_seen \subseteq Tokens
      BY <3>5, <3>8, <3>9, <3>10 DEF EntryOf
    <3>12. QED BY <2>3, <3>6, <3>7, <3>11
  <2>7. cycles \in Seq(Seq(Edge))
    <3>1. cycles = <<>> \/ cycles \in Seq(Seq(PoolSwaps))
      BY DEF FinderInv, FoundInv
    <3>2. <<>> \in Seq(Seq(Edge))
      OBVIOUS
    <3>3. \A s \in Seq(Seq(PoolSwaps)) : s \in Seq(Seq(Edge))
      BY <2>3
    <3>4. QED BY <3>1, <3>2, <3>3
  <2>8. ASSUME NEW route \in misprices PROVE route \in Edge \X Edge
    <3>1. PoolTypes /\ GraphIs /\ misprices = PairsUpTo(next_node - 1)
      BY <2>8 DEF FinderInv
    <3>2. PICK k \in 1..next_node - 1 : route \in PairsThrough(nodes[k])
      BY <2>8, <3>1 DEF PairsUpTo
    <3> DEFINE t == nodes[k]
    <3>3. route \in PairsThrough(t)
      BY <3>2
    <3> HIDE DEF t
    <3>4. route \in {<<FindEdge(ab[1], t), FindEdge(t, ab[2])>> :
                       ab \in {nn \in Tokens \X Tokens :
                                  Linked(nn[1], t) /\ Linked(t, nn[2]) /\ nn[1] # nn[2]}}
      BY <3>1, <3>3, PairsThroughIs
    <3>5. PICK ab \in Tokens \X Tokens : /\ Linked(ab[1], t) /\ Linked(t, ab[2])
                                         /\ route = <<FindEdge(ab[1], t), FindEdge(t, ab[2])>>
      BY <3>4
    <3>6. FindEdge(ab[1], t) \in PoolSwaps /\ FindEdge(t, ab[2]) \in PoolSwaps
      BY <3>1, <3>5, FindEdgeIs
    <3>7. QED BY <2>1, <3>5, <3>6
  <2>9. QED BY <2>4, <2>5, <2>6, <2>7, <2>8 DEF FinderInv, FinderTypeOK, PoolTypes
<1>2. QED BY <1>1, FinderCorrect, PTL
=============================================================================
