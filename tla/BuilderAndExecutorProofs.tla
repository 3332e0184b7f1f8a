---------------------- MODULE BuilderAndExecutorProofs ----------------------
(***************************************************************************)
(* Proofs about the two ends of a run: how the state space is built, and    *)
(* what is decided of a transaction.                                        *)
(*                                                                         *)
(* Of src/execution, the nonce (NonceManager), for any set of threads, and  *)
(* input, limits and fees (HillClimb, FeePlan, Opportunity), for every      *)
(* range of inputs, every curve of profits and every table of gas and fees. *)
(* Of the building (UniswapV3Factory, StateSpaceBuilder), the pools found,  *)
(* the ticks read of them and the state space handed out, for any pools,    *)
(* limits of the requests and filters.  The three machines run on their     *)
(* own; each theorem is about the specification that it names.              *)
(***************************************************************************)
EXTENDS NonceManager, Opportunity, StateSpaceBuilder, FiniteSetTheorems, SequenceTheorems,
        CommonFacts, TLAPS

-----------------------------------------------------------------------------
(* Nonces.                                                                  *)

\* The later of two nonces.
LEMMA LaterIs ==
    ASSUME NEW m \in Nat, NEW n \in Nat
    PROVE  /\ Later(m, n) \in {m, n}
           /\ Later(m, n) >= m
           /\ Later(m, n) >= n
BY DEF Later

\* Type correctness, whatever threads do in between a load and its exchange.
THEOREM NonceTypesCorrect == NonceSpec => []NonceTypeOK
<1>1. NonceInit => NonceTypeOK
  BY NonceAssumption DEF NonceInit, NonceTypeOK
<1>2. NonceTypeOK /\ [NonceNext]_nonceVars => NonceTypeOK'
  <2> SUFFICES ASSUME NonceTypeOK, [NonceNext]_nonceVars
               PROVE  NonceTypeOK'
    OBVIOUS
  <2>1. ASSUME NEW t \in Threads, Reserve(t)
        PROVE  NonceTypeOK'
    BY <2>1, NonceAssumption DEF Reserve, NonceTypeOK
  <2>2. ASSUME NEW t \in Threads, NEW n \in Nonces, Load(t, n)
        PROVE  NonceTypeOK'
    BY <2>2, NonceAssumption DEF Load, NonceTypeOK
  <2>3. ASSUME NEW t \in Threads, Finish(t)
        PROVE  floor' \in 0..MaxNonce
    <3>1. floor \in Nat /\ chain_next_nonce[t] \in Nat
      BY NonceAssumption DEF NonceTypeOK
    <3>2. Later(floor, chain_next_nonce[t]) \in {floor, chain_next_nonce[t]}
      BY <3>1, LaterIs
    <3>3. QED BY <2>3, <3>2 DEF Finish, NonceTypeOK
  <2>4. ASSUME NEW t \in Threads, LeaveLoop(t)
        PROVE  NonceTypeOK'
    <3>1. floor' \in 0..MaxNonce
      BY <2>3, <2>4 DEF LeaveLoop
    <3>2. QED BY <2>4, <3>1 DEF LeaveLoop, Finish, NonceTypeOK
  <2>5. ASSUME NEW t \in Threads, Exchange(t)
        PROVE  NonceTypeOK'
    <3>1. floor' \in 0..MaxNonce
      BY <2>3, <2>5 DEF Exchange
    <3>2. QED BY <2>5, <3>1 DEF Exchange, Finish, NonceTypeOK
  <2>6. ASSUME NEW t \in Threads, Retry(t)
        PROVE  NonceTypeOK'
    BY <2>6 DEF Retry, NonceTypeOK
  <2>7. CASE UNCHANGED nonceVars
    BY <2>7 DEF nonceVars, NonceTypeOK
  <2>8. QED BY <2>1, <2>2, <2>4, <2>5, <2>6, <2>7 DEF NonceNext
<1>3. QED BY <1>1, <1>2, PTL DEF NonceSpec

\* What a step does to the counter: it never goes back, reserve moves it past
\* the nonce it returns, and a finished sync_at_least left it high enough.
LEMMA NonceStepBounds ==
    ASSUME NonceTypeOK, NonceInv, [NonceNext]_nonceVars
    PROVE  /\ next_nonce' >= next_nonce
           /\ floor' <= next_nonce'
           /\ \A n \in 0..MaxNonce :
                 \/ given'[n] = given[n]
                 \/ n = next_nonce /\ n < next_nonce' /\ given'[n] = given[n] + 1
<1>1. /\ next_nonce \in Nat /\ floor \in Nat /\ floor <= next_nonce
      /\ next_nonce \in 0..MaxNonce
  BY NonceAssumption DEF NonceTypeOK, NonceInv, FloorHolds
<1>2. ASSUME NEW t \in Threads, Reserve(t)
      PROVE  /\ next_nonce' >= next_nonce
             /\ floor' <= next_nonce'
             /\ \A n \in 0..MaxNonce :
                   \/ given'[n] = given[n]
                   \/ n = next_nonce /\ n < next_nonce' /\ given'[n] = given[n] + 1
  <2>1. \A n \in 0..MaxNonce :
           given'[n] = IF n = next_nonce THEN given[n] + 1 ELSE given[n]
    BY <1>2 DEF Reserve, NonceTypeOK
  <2>2. QED BY <1>1, <1>2, <2>1 DEF Reserve
<1>3. ASSUME NEW t \in Threads, LeaveLoop(t) \/ Exchange(t)
      PROVE  given' = given /\ next_nonce' >= next_nonce /\ floor' <= next_nonce'
  <2>1. /\ chain_next_nonce[t] \in Nat /\ current[t] \in Nat
        /\ floor' = Later(floor, chain_next_nonce[t])
        /\ sync_pc[t] = "loop"
    BY <1>3, NonceAssumption DEF NonceTypeOK, LeaveLoop, Exchange, Finish
  <2>2. current[t] <= next_nonce
    BY <2>1 DEF NonceInv, CounterAhead
  <2>3. floor' \in {floor, chain_next_nonce[t]}
    BY <1>1, <2>1, LaterIs
  <2>4. CASE LeaveLoop(t)
    <3>1. next_nonce' = next_nonce /\ given' = given /\ ~(chain_next_nonce[t] > current[t])
      BY <2>4 DEF LeaveLoop
    <3>2. chain_next_nonce[t] <= next_nonce
      BY <1>1, <2>1, <2>2, <3>1
    <3>3. QED BY <1>1, <2>3, <3>1, <3>2
  <2>5. CASE Exchange(t)
    <3>1. /\ next_nonce' = chain_next_nonce[t] /\ given' = given
          /\ chain_next_nonce[t] > current[t] /\ next_nonce = current[t]
      BY <2>5 DEF Exchange
    <3>2. QED BY <1>1, <2>1, <2>3, <3>1
  <2>6. QED BY <1>3, <2>4, <2>5
<1>4. ASSUME \/ \E t \in Threads : (\E n \in Nonces : Load(t, n)) \/ Retry(t)
             \/ UNCHANGED nonceVars
      PROVE  given' = given /\ next_nonce' = next_nonce /\ floor' = floor
  BY <1>4 DEF Load, Retry, nonceVars
<1>5. QED BY <1>1, <1>2, <1>3, <1>4 DEF NonceNext

\* The invariant: threads never see more than the counter, and nothing from
\* the counter on was given out.
THEOREM NonceCorrect == NonceSpec => []NonceInv
<1>1. NonceInit => NonceInv
  <2> SUFFICES ASSUME NonceInit PROVE NonceInv
    OBVIOUS
  <2>1. initial_nonce \in Nat /\ next_nonce = initial_nonce /\ floor = initial_nonce
    BY NonceAssumption DEF NonceInit
  <2>2. CounterAhead /\ FloorHolds /\ ReservedOnce
    BY <2>1 DEF NonceInit, CounterAhead, FloorHolds, ReservedOnce
  <2>3. QED BY <2>2 DEF NonceInv
<1>2. NonceTypeOK /\ NonceInv /\ NonceTypeOK' /\ [NonceNext]_nonceVars => NonceInv'
  <2> SUFFICES ASSUME NonceTypeOK, NonceInv, NonceTypeOK', [NonceNext]_nonceVars
               PROVE  NonceInv'
    OBVIOUS
  <2>1. /\ next_nonce' >= next_nonce
        /\ floor' <= next_nonce'
        /\ \A n \in 0..MaxNonce :
              \/ given'[n] = given[n]
              \/ n = next_nonce /\ n < next_nonce' /\ given'[n] = given[n] + 1
    BY NonceStepBounds
  <2>2. /\ next_nonce \in Nat /\ next_nonce' \in Nat /\ initial_nonce \in Nat
        /\ initial_nonce <= next_nonce
        /\ \A t \in Threads : current[t] \in Nat /\ current'[t] \in Nat
        /\ \A n \in 0..MaxNonce : given[n] \in Nat /\ n \in Nat
    BY NonceAssumption DEF NonceTypeOK, NonceInv, CounterAhead
  <2>3. initial_nonce' = initial_nonce
    BY DEF NonceNext, nonceVars, Reserve, Load, LeaveLoop, Exchange, Retry
  <2>4. ASSUME NEW t \in Threads, sync_pc'[t] = "loop"
        PROVE  current'[t] <= next_nonce'
    <3>1. sync_pc[t] = "loop" => current[t] <= next_nonce
      BY DEF NonceInv, CounterAhead
    <3>2. current'[t] = next_nonce \/ (sync_pc[t] = "loop" /\ current'[t] = current[t])
      <4>1. ASSUME NEW u \in Threads, Reserve(u)
            PROVE  sync_pc'[t] = sync_pc[t] /\ current'[t] = current[t]
        BY <4>1 DEF Reserve
      <4>2. ASSUME NEW u \in Threads, NEW n \in Nonces, Load(u, n)
            PROVE  current'[t] = next_nonce \/ (sync_pc'[t] = sync_pc[t] /\ current'[t] = current[t])
        BY <4>2 DEF Load, NonceTypeOK
      <4>3. ASSUME NEW u \in Threads, LeaveLoop(u) \/ Exchange(u)
            PROVE  sync_pc'[t] \in {sync_pc[t], "idle"} /\ current'[t] = current[t]
        BY <4>3 DEF LeaveLoop, Exchange, Finish, NonceTypeOK
      <4>4. ASSUME NEW u \in Threads, Retry(u)
            PROVE  current'[t] = next_nonce \/ (sync_pc'[t] = sync_pc[t] /\ current'[t] = current[t])
        BY <4>4 DEF Retry, NonceTypeOK
      <4>5. CASE UNCHANGED nonceVars
        BY <2>4, <4>5 DEF nonceVars
      <4>6. QED BY <2>4, <4>1, <4>2, <4>3, <4>4, <4>5 DEF NonceNext
    <3>3. QED BY <2>1, <2>2, <3>1, <3>2
  <2>5. ASSUME NEW n \in 0..MaxNonce, n >= next_nonce'
        PROVE  given'[n] = 0
    <3>1. n >= next_nonce /\ ~(n < next_nonce')
      BY <2>1, <2>2, <2>5
    <3>2. given[n] = 0
      BY <3>1 DEF NonceInv, CounterAhead
    <3>3. QED BY <2>1, <3>1, <3>2
  <2>6. CounterAhead'
    <3>1. initial_nonce' <= next_nonce'
      BY <2>1, <2>2, <2>3
    <3>2. QED BY <2>4, <2>5, <3>1 DEF CounterAhead
  <2>7. FloorHolds'
    BY <2>1 DEF FloorHolds
  <2>8. ReservedOnce'
    <3> SUFFICES ASSUME NEW n \in 0..MaxNonce
                 PROVE  /\ given'[n] <= 1
                        /\ given'[n] = 1 => initial_nonce' <= n /\ n < next_nonce'
      BY DEF ReservedOnce
    <3>1. CASE given'[n] = given[n]
      <4>1. given[n] <= 1 /\ (given[n] = 1 => initial_nonce <= n /\ n < next_nonce)
        BY DEF NonceInv, ReservedOnce
      <4>2. QED BY <2>1, <2>2, <2>3, <3>1, <4>1
    <3>2. CASE n = next_nonce /\ n < next_nonce' /\ given'[n] = given[n] + 1
      <4>1. given[n] = 0
        BY <2>2, <3>2 DEF NonceInv, CounterAhead
      <4>2. QED BY <2>2, <2>3, <3>2, <4>1
    <3>3. QED BY <2>1, <3>1, <3>2
  <2>9. QED BY <2>6, <2>7, <2>8 DEF NonceInv
<1>3. QED BY <1>1, <1>2, NonceTypesCorrect, PTL DEF NonceSpec

\* No nonce is given out twice or below the initial one (ReservedOnce).
THEOREM NoDoubleNonce == NonceSpec => []ReservedOnce
<1>1. NonceInv => ReservedOnce
  BY DEF NonceInv
<1>2. QED BY <1>1, NonceCorrect, PTL

\* A compare-exchange with a stale value never takes the counter back
\* (NeverBack).
THEOREM CounterMonotonic == NonceSpec => NeverBack
<1>1. NonceTypeOK /\ NonceInv /\ [NonceNext]_nonceVars => [next_nonce' >= next_nonce]_nonceVars
  BY NonceStepBounds
<1>2. QED BY <1>1, NonceTypesCorrect, NonceCorrect, PTL DEF NonceSpec, NeverBack

\* reserve never returns a nonce below what a finished sync_at_least asked for
\* (NoStaleNonce).
THEOREM NoNonceBelowFloor == NonceSpec => NoStaleNonce
<1>1. NonceTypeOK /\ NonceInv /\ [NonceNext]_nonceVars
        => [\A n \in 0..MaxNonce : given'[n] # given[n] => n >= floor]_nonceVars
  <2> SUFFICES ASSUME NonceTypeOK, NonceInv, [NonceNext]_nonceVars,
                      NEW n \in 0..MaxNonce, given'[n] # given[n]
               PROVE  n >= floor
    OBVIOUS
  <2>1. n = next_nonce
    BY NonceStepBounds
  <2>2. floor <= next_nonce /\ floor \in Nat /\ n \in Nat
    BY DEF NonceInv, FloorHolds, NonceTypeOK
  <2>3. QED BY <2>1, <2>2
<1>2. QED BY <1>1, NonceTypesCorrect, NonceCorrect, PTL DEF NonceSpec, NoStaleNonce

-----------------------------------------------------------------------------
(* The search.                                                              *)

ClimbInv == ClimbTypeOK /\ PeakWithinReach

\* A curve has a profit, or a failure, for each input.
LEMMA CurveTypes ==
    ASSUME curve \in Curves
    PROVE  curve \in [profit : [Inputs -> Int], fails : SUBSET Inputs]
BY ClimbAssumption

\* A curve with a peak falls towards both of its sides.
LEMMA PeakSides ==
    ASSUME curve \in Curves, NEW k \in Inputs, PeaksAt(k), NEW x \in Inputs, NEW y \in Inputs, x < y
    PROVE  /\ k <= x => Gain(y) < Gain(x)
           /\ y <= k => Gain(x) < Gain(y)
           /\ Evaluates(x) /\ Evaluates(y)
           /\ Gain(x) \in Int /\ Gain(y) \in Int
BY CurveTypes DEF PeaksAt, Evaluates, Gain

\* What the better of two inputs tells of where the peak is.
LEMMA PeakIsBeyond ==
    ASSUME curve \in Curves, NEW k \in Inputs, PeaksAt(k), NEW x \in Inputs, NEW y \in Inputs, x < y
    PROVE  /\ Gain(y) >= Gain(x) => k > x
           /\ Gain(y) <= Gain(x) => k < y
<1>1. x \in Int /\ y \in Int /\ k \in Int
  BY ClimbAssumption DEF Inputs
<1>2. QED BY <1>1, PeakSides

\* Peaks, gains and improvements are those of the curve.
LEMMA SameCurve ==
    ASSUME curve' = curve
    PROVE  /\ \A k : PeaksAt(k)' <=> PeaksAt(k)
           /\ \A x, y : Improves(x, y)' <=> Improves(x, y)
           /\ \A x : Gain(x)' = Gain(x)
BY DEF PeaksAt, Improves, Evaluates, Gain

\* The first three simulations of the search keep the invariant of the climb.
LEMMA StartStep ==
    ASSUME ClimbInv, Start
    PROVE  ClimbInv'
<1> DEFINE R == MaxInput - MinInput
           m == MinInput + R \div 2
           q == R \div 4
<1>1. /\ MinInput \in Nat /\ MaxInput \in Nat /\ R \in Nat /\ m \in MinInput..MaxInput
      /\ q \in Nat /\ 4 * q <= R /\ R < 4 * q + 4
      /\ 2 * (R \div 2) <= R /\ R <= 2 * (R \div 2) + 1 /\ R \div 2 \in Nat
      /\ m = Middle
  BY ClimbAssumption DEF Middle
<1>2. PICK x \in Inputs : FirstBest(x) /\ best' = x
  BY DEF Start
<1>3. curve \in Curves /\ curve' = curve /\ iterations' = iterations /\ iterations \in 0..MAX_ITERATIONS
  BY DEF Start, ClimbInv, ClimbTypeOK
<1>4. /\ (R = 0 => at' = "found" /\ step' = 0)
      /\ (R > 0 => at' = "climb" /\ step' = IF q = 0 THEN 1 ELSE q)
  BY <1>1 DEF Start, FirstStep
<1>5. ClimbTypeOK'
  BY <1>1, <1>2, <1>3, <1>4 DEF ClimbTypeOK
<1>6. PeakWithinReach'
  <2> SUFFICES ASSUME NEW k \in Inputs, PeaksAt(k)
               PROVE  /\ R = 0 => x = k
                      /\ R > 0 => LET s == IF q = 0 THEN 1 ELSE q
                                  IN  x - (2 * s + 1) <= k /\ k <= x + 2 * s + 1
    BY <1>1, <1>2, <1>3, <1>4, SameCurve DEF PeakWithinReach
  <2>1. k \in MinInput..MaxInput /\ x \in {MinInput, m, MaxInput}
    BY <1>1, <1>2 DEF Inputs, FirstBest
  <2>2. \A y \in Inputs : Evaluates(y) /\ Gain(y) \in Int
    BY <1>3, CurveTypes DEF PeaksAt, Evaluates, Gain
  <2>3. {MinInput, m, MaxInput} \subseteq Inputs
    BY <1>1 DEF Inputs
  <2>4. \A y \in {MinInput, m, MaxInput} : Gain(x) >= Gain(y)
    BY <1>1, <1>2, <2>2, <2>3 DEF FirstBest, Improves
  <2>5. CASE x = MinInput
    <3>1. x < m => k < m
      BY <1>1, <1>3, <2>2, <2>3, <2>4, <2>5, PeakIsBeyond
    <3>2. x < MaxInput => k < MaxInput
      BY <1>1, <1>3, <2>2, <2>3, <2>4, <2>5, PeakIsBeyond
    <3>3. QED BY <1>1, <2>1, <2>5, <3>1, <3>2
  <2>6. CASE x = MaxInput /\ x # MinInput
    <3>1. k > MinInput
      BY <1>1, <1>3, <2>2, <2>3, <2>4, <2>6, PeakIsBeyond
    <3>2. m # MaxInput => k > m
      BY <1>1, <1>3, <2>2, <2>3, <2>4, <2>6, PeakIsBeyond
    <3>3. QED BY <1>1, <2>1, <2>6, <3>1, <3>2
  <2>7. CASE x = m /\ x # MinInput /\ x # MaxInput
    <3>2. k > MinInput
      BY <1>1, <1>3, <2>2, <2>3, <2>4, <2>7, PeakIsBeyond
    <3>3. k < MaxInput
      BY <1>1, <1>3, <2>2, <2>3, <2>4, <2>7, PeakIsBeyond
    <3>4. QED BY <1>1, <2>1, <2>7, <3>2, <3>3
  <2>8. QED BY <2>1, <2>5, <2>6, <2>7
<1>7. QED BY <1>5, <1>6 DEF ClimbInv

\* The better neighbour at a step's distance is on the side of the peak.
LEMMA UpStep ==
    ASSUME ClimbInv, Up
    PROVE  ClimbInv'
<1>1. /\ best \in Inputs /\ best + step \in Inputs /\ step \in Nat /\ step > 0 /\ curve \in Curves
      /\ Gain(best + step) > Gain(best)
      /\ best' = best + step /\ step' = step /\ curve' = curve /\ at' \in {"found", "climb"}
      /\ iterations' \in 0..MAX_ITERATIONS /\ (at' = "climb" => step' > 0)
  BY ClimbAssumption DEF ClimbInv, ClimbTypeOK, Up, Improves, Evaluates, Iterated
<1>2. ClimbTypeOK'
  BY <1>1 DEF ClimbTypeOK
<1>3. PeakWithinReach'
  <2> SUFFICES ASSUME NEW k \in Inputs, PeaksAt(k)
               PROVE  best' - (2 * step + 1) <= k /\ k <= best' + 2 * step + 1
    BY <1>1, SameCurve DEF PeakWithinReach
  <2>1. best - (2 * step + 1) <= k /\ k <= best + 2 * step + 1
    BY <1>1 DEF Up, ClimbInv, PeakWithinReach
  <2>2. best \in Int /\ best + step \in Int /\ k \in Int /\ best < best + step
    BY <1>1, ClimbAssumption DEF Inputs
  <2>3. Gain(best) \in Int /\ Gain(best + step) \in Int
    BY <1>1, CurveTypes DEF Gain
  <2>4. k > best
    BY <1>1, <2>2, <2>3, PeakIsBeyond
  <2>5. QED BY <1>1, <2>1, <2>2, <2>4
<1>4. QED BY <1>2, <1>3 DEF ClimbInv

\* A step down keeps it.
LEMMA DownStep ==
    ASSUME ClimbInv, Down
    PROVE  ClimbInv'
<1>1. /\ best \in Inputs /\ best - step \in Inputs /\ step \in Nat /\ step > 0 /\ curve \in Curves
      /\ Gain(best - step) > Gain(best)
      /\ best' = best - step /\ step' = step /\ curve' = curve /\ at' \in {"found", "climb"}
      /\ iterations' \in 0..MAX_ITERATIONS /\ (at' = "climb" => step' > 0)
  BY ClimbAssumption DEF ClimbInv, ClimbTypeOK, Down, Improves, Evaluates, Iterated
<1>2. ClimbTypeOK'
  BY <1>1 DEF ClimbTypeOK
<1>3. PeakWithinReach'
  <2> SUFFICES ASSUME NEW k \in Inputs, PeaksAt(k)
               PROVE  best' - (2 * step + 1) <= k /\ k <= best' + 2 * step + 1
    BY <1>1, SameCurve DEF PeakWithinReach
  <2>1. best - (2 * step + 1) <= k /\ k <= best + 2 * step + 1
    BY <1>1 DEF Down, ClimbInv, PeakWithinReach
  <2>2. best \in Int /\ best - step \in Int /\ k \in Int /\ best - step < best
    BY <1>1, ClimbAssumption DEF Inputs
  <2>3. Gain(best) \in Int /\ Gain(best - step) \in Int
    BY <1>1, CurveTypes DEF Gain
  <2>4. k < best
    BY <1>1, <2>2, <2>3, PeakIsBeyond
  <2>5. QED BY <1>1, <2>1, <2>2, <2>4
<1>4. QED BY <1>2, <1>3 DEF ClimbInv

\* When neither neighbour is better the peak is strictly between them, so half
\* of the step, rounded down, reaches it still.
LEMMA HalveStep ==
    ASSUME ClimbInv, Halve
    PROVE  ClimbInv'
<1>1. /\ best \in Inputs /\ step \in Nat /\ step > 0 /\ curve \in Curves
      /\ ~Improves(best + step, best) /\ ~Improves(best - step, best)
      /\ best' = best /\ step' = step \div 2 /\ curve' = curve /\ at' \in {"found", "climb"}
      /\ iterations' \in 0..MAX_ITERATIONS /\ (at' = "climb" => step' # 0)
  BY ClimbAssumption DEF ClimbInv, ClimbTypeOK, Halve, Iterated
<1>2. /\ step' \in Nat /\ 2 * step' <= step /\ step <= 2 * step' + 1
      /\ best \in MinInput..MaxInput /\ MinInput \in Int /\ MaxInput \in Int
  BY <1>1, ClimbAssumption DEF Inputs
<1>3. ClimbTypeOK'
  BY <1>1, <1>2 DEF ClimbTypeOK
<1>4. PeakWithinReach'
  <2> SUFFICES ASSUME NEW k \in Inputs, PeaksAt(k)
               PROVE  best - step < k /\ k < best + step
    <3>1. ASSUME NEW k \in Inputs, PeaksAt(k), best - step < k, k < best + step
          PROVE  IF step' = 0 THEN best = k
                 ELSE best - (2 * step' + 1) <= k /\ k <= best + 2 * step' + 1
      <4>1. k \in Int
        BY ClimbAssumption DEF Inputs
      <4>2. QED BY <1>1, <1>2, <3>1, <4>1
    <3>2. QED BY <1>1, <3>1, SameCurve DEF PeakWithinReach
  <2>1. \A y \in Inputs : Evaluates(y) /\ Gain(y) \in Int
    BY <1>1, CurveTypes DEF PeaksAt, Evaluates, Gain
  <2>2. k \in MinInput..MaxInput
    BY DEF Inputs
  <2>3. k < best + step
    <3>1. CASE best + step \in Inputs
      <4>1. Gain(best + step) <= Gain(best) /\ best < best + step
        BY <1>1, <1>2, <2>1, <3>1 DEF Improves
      <4>2. QED BY <1>1, <2>1, <3>1, <4>1, PeakIsBeyond
    <3>2. CASE best + step \notin Inputs
      BY <1>1, <1>2, <2>2, <3>2 DEF Inputs
    <3>3. QED BY <3>1, <3>2
  <2>4. best - step < k
    <3>1. CASE best - step \in Inputs
      <4>1. Gain(best) >= Gain(best - step) /\ best - step < best
        BY <1>1, <1>2, <2>1, <3>1 DEF Improves
      <4>2. QED BY <1>1, <2>1, <3>1, <4>1, PeakIsBeyond
    <3>2. CASE best - step \notin Inputs
      BY <1>1, <1>2, <2>2, <3>2 DEF Inputs
    <3>3. QED BY <3>1, <3>2
  <2>5. QED BY <2>3, <2>4
<1>5. QED BY <1>3, <1>4 DEF ClimbInv

\* It holds before the search.
LEMMA ClimbInit_ClimbInv == ClimbInit => ClimbInv
BY ClimbAssumption DEF ClimbInit, ClimbInv, ClimbTypeOK, PeakWithinReach, Inputs

\* Every iteration of the search keeps it.
LEMMA ClimbStep ==
    ASSUME ClimbInv, Climb
    PROVE  ClimbInv'
<1>1. CASE StartFails
  BY <1>1, SameCurve DEF StartFails, ClimbInv, ClimbTypeOK, PeakWithinReach
<1>2. CASE NoIteration
  <2>1. step > 0 /\ step \in Nat /\ step' = step /\ best' = best /\ curve' = curve
        /\ at' = "found" /\ at = "climb" /\ iterations' = iterations
    BY <1>2 DEF NoIteration, ClimbInv, ClimbTypeOK
  <2>2. ClimbTypeOK'
    BY <2>1 DEF ClimbInv, ClimbTypeOK
  <2>3. PeakWithinReach'
    BY <2>1, SameCurve DEF ClimbInv, PeakWithinReach
  <2>4. QED BY <2>2, <2>3 DEF ClimbInv
<1>3. QED BY <1>1, <1>2, StartStep, UpStep, DownStep, HalveStep DEF Climb

\* So does what leaves the search alone.
LEMMA ClimbUnchanged ==
    ASSUME ClimbInv, UNCHANGED climbVars
    PROVE  ClimbInv'
BY SameCurve DEF climbVars, ClimbInv, ClimbTypeOK, PeakWithinReach

\* So does the next opportunity.
LEMMA LeaveStep ==
    ASSUME ClimbInv, Leave, UNCHANGED best
    PROVE  ClimbInv'
<1>1. curve' \in Curves
  BY DEF Leave, AnyCurve, ClimbInv, ClimbTypeOK
<1>2. QED BY <1>1, ClimbAssumption DEF Leave, ClimbInv, ClimbTypeOK, PeakWithinReach

\* Every step of an opportunity keeps the invariant of the climb.
LEMMA NextClimbInv ==
    ASSUME ClimbInv, [Next]_vars
    PROVE  ClimbInv'
<1>1. CASE Search
  BY <1>1, ClimbStep DEF Search
<1>2. ASSUME NEW c \in Configs, NEW h \in Hops, Offer(c, h) \/ FilterOut(c, h)
      PROVE  ClimbInv'
  BY <1>2, LeaveStep DEF Offer, FilterOut
<1>3. QED BY <1>1, <1>2, ClimbUnchanged
      DEF Next, vars, BuildParams, BelowMinimum, Execute, LacksBalance, AttemptAgniFees,
          AttemptAgni, AttemptPair, AttemptMoe, Mined, Reverted, Drop, Send

\* Where the gain has one peak the search closes in on it.
THEOREM SearchReachesPeak == Spec => []PeakWithinReach
<1>1. Init => ClimbInv
  BY ClimbInit_ClimbInv DEF Init
<1>2. ClimbInv => PeakWithinReach
  BY DEF ClimbInv
<1>3. QED BY <1>1, <1>2, NextClimbInv, PTL DEF Spec

-----------------------------------------------------------------------------
(* The fee plan.                                                            *)

LEMMA ProductMonotonic ==
    ASSUME NEW a \in Nat, NEW b \in Nat, NEW c \in Nat, b <= c
    PROVE  a * b <= a * c /\ a * b \in Nat
<1>1. a * c = a * b + a * (c - b)
  OBVIOUS
<1>2. a * (c - b) >= 0 /\ a * b >= 0
  OBVIOUS
<1>3. QED BY <1>1, <1>2

\* What is divided up among the gas is not more than there is.
LEMMA SharesFit ==
    ASSUME NEW n \in Nat, NEW limit \in Nat, limit > 0
    PROVE  n \div limit \in Nat /\ limit * (n \div limit) <= n
OBVIOUS

\* The gas limit is a number.
LEMMA LimitIs ==
    ASSUME NEW c \in Configs, NEW h
    PROVE  GasLimit(c, h) \in Nat
BY FeeAssumption, ConfigAssumption DEF GasLimit

\* The fee cap is the profit's share per gas, or the base fee and the default tip.
LEMMA FeeCases ==
    ASSUME NEW c \in Configs, NEW net \in Nat, NEW limit \in Nat
    PROVE  /\ TotalCap(net, limit) \in Nat
           /\ MaxFee(c, net, limit) \in Nat
           /\ \/ MaxFee(c, net, limit) <= TotalCap(net, limit)
              \/ MaxFee(c, net, limit) <= MANTLE_BASE_FEE_WEI + c.default_priority_fee_wei
           /\ MaxPriority(c, net, limit) \in Nat
           /\ MaxPriority(c, net, limit) <= MaxFee(c, net, limit)
<1> DEFINE share == IF limit > 0 THEN NetAsU128(net) \div limit ELSE 0
<1>1. NetAsU128(net) \in Nat /\ c.default_priority_fee_wei \in Nat
  BY FeeAssumption, ConfigAssumption DEF NetAsU128
<1>2. share \in Nat
  BY <1>1, SharesFit
<1>3. SaturatingU128(share * 3) \in Nat
  <2> HIDE DEF share
  <2> QED BY <1>2, FeeAssumption DEF SaturatingU128
<1>4. TotalCap(net, limit) \in Nat
  BY <1>2, <1>3 DEF TotalCap
<1>5. /\ CapPriority(net, limit) \in Nat
      /\ \/ CapPriority(net, limit) = 0
         \/ MANTLE_BASE_FEE_WEI + CapPriority(net, limit) = TotalCap(net, limit)
  BY <1>4, FeeAssumption DEF CapPriority, SaturatingSub
<1>6. /\ InitialPriority(c, net, limit) \in Nat
      /\ \/ InitialPriority(c, net, limit) = c.default_priority_fee_wei
         \/ MANTLE_BASE_FEE_WEI + InitialPriority(c, net, limit) = TotalCap(net, limit)
  BY <1>1, <1>5 DEF InitialPriority, Higher
<1>7. /\ MaxFee(c, net, limit) \in Nat
      /\ MaxFee(c, net, limit) <= MANTLE_BASE_FEE_WEI + InitialPriority(c, net, limit)
  BY <1>6, FeeAssumption DEF MaxFee, Lower, SaturatingU128, GlobalCap
<1>8. MaxPriority(c, net, limit) \in Nat /\ MaxPriority(c, net, limit) <= MaxFee(c, net, limit)
  BY <1>6, <1>7, FeeAssumption DEF MaxPriority, Lower, SaturatingSub
<1>9. QED BY <1>4, <1>6, <1>7, <1>8

\* The share of a profit, over all the gas, is not more than the profit, and
\* of a small one not more than half as much again.
LEMMA TotalFits ==
    ASSUME NEW net \in Nat, NEW limit \in Nat
    PROVE  /\ ~IsSmall(net) => limit * TotalCap(net, limit) <= NetAsU128(net)
           /\ IsSmall(net) => limit * TotalCap(net, limit) <= (3 * NetAsU128(net)) \div 2
<1> DEFINE n == NetAsU128(net)
           share == IF limit > 0 THEN n \div limit ELSE 0
<1>1. n \in Nat
  BY FeeAssumption DEF NetAsU128
<1>2. share \in Nat /\ limit * share <= n
  BY <1>1, SharesFit
<1>3. CASE ~IsSmall(net)
  BY <1>2, <1>3 DEF TotalCap
<1>4. CASE IsSmall(net)
  <2> DEFINE cap == SaturatingU128(share * 3) \div 2
  <2>1. SaturatingU128(share * 3) \in Nat /\ SaturatingU128(share * 3) <= 3 * share
    <3> HIDE DEF share
    <3> QED BY <1>2, FeeAssumption DEF SaturatingU128
  <2>2. cap \in Nat /\ 2 * cap <= 3 * share
    <3> HIDE DEF share
    <3> QED BY <1>2, <2>1
  <2>3. limit * (2 * cap) <= limit * (3 * share)
    <3> HIDE DEF share, cap
    <3> QED BY <1>2, <2>2, ProductMonotonic
  <2>4. 2 * (limit * cap) <= 3 * n
    <3> HIDE DEF share, cap, n
    <3>1. limit * (2 * cap) = 2 * (limit * cap) /\ limit * (3 * share) = 3 * (limit * share)
      BY <1>2, <2>2
    <3>2. limit * cap \in Nat /\ limit * share \in Nat
      BY <1>2, <2>2
    <3>3. QED BY <1>1, <1>2, <2>3, <3>1, <3>2
  <2>5. limit * cap <= (3 * n) \div 2
    <3> HIDE DEF share, cap, n
    <3>1. limit * cap \in Nat
      BY <2>2
    <3>2. QED BY <1>1, <2>4, <3>1
  <2>6. TotalCap(net, limit) = cap
    BY <1>4 DEF TotalCap
  <2>7. QED BY <1>4, <2>5, <2>6
<1>5. QED BY <1>3, <1>4

-----------------------------------------------------------------------------
(* The trade.                                                               *)

TradeInv == TypeOK /\ FeePaidByProfit

\* The gas of a path is a number.
LEMMA GasCostIs == \A h \in Hops : GasCost(h) \in Nat
BY FeeAssumption, ProductMonotonic DEF GasCost

\* What is known of every configuration.
LEMMA ConfigIs ==
    ASSUME NEW c \in Configs
    PROVE  /\ c.slippage \in Nat /\ c.slippage <= 100
           /\ c.service \in SERVICES \cup {"library"}
BY ConfigAssumption

\* Stages before and after the trade is sent leave nothing to show of its fee.
LEMMA QuietStage ==
    ASSUME stage' # "sent"
    PROVE  FeePaidByProfit'
BY DEF FeePaidByProfit

\* An opportunity that is dropped keeps the invariant of the trade.
LEMMA DropStep ==
    ASSUME TradeInv, Drop
    PROVE  TradeInv'
<1>1. TypeOK'
  BY DEF Drop, TradeInv, TypeOK
<1>2. QED BY <1>1, QuietStage DEF Drop, TradeInv

\* One that is offered keeps it.
LEMMA OfferStep ==
    ASSUME TradeInv, ClimbInv, NEW c \in Configs, NEW h \in Hops, Offer(c, h)
    PROVE  TradeInv'
<1>1. best \in Nat /\ Gain(best) \in Int
  <2>1. best \in Inputs
    BY DEF ClimbInv, ClimbTypeOK
  <2>2. best \in Nat
    BY <2>1, ClimbAssumption DEF Inputs
  <2>3. Gain(best) \in Int
    BY <2>1, CurveTypes DEF ClimbInv, ClimbTypeOK, Gain
  <2>4. QED BY <2>2, <2>3
<1>2. GasCost(h) \in Nat
  BY GasCostIs
<1>3. Gain(best) > 0 /\ Gain(best) >= GasCost(h)
  BY DEF Offer, Passes
<1>4. offer' \in [hops : Hops, input : Nat, output : Nat, net : Nat]
      /\ offer'.output - offer'.input = offer'.net + GasCost(offer'.hops)
  BY <1>1, <1>2, <1>3 DEF Offer
<1>5. TypeOK'
  BY <1>4 DEF Offer, TradeInv, TypeOK
<1>6. QED BY <1>5, QuietStage DEF Offer, TradeInv

\* build_params keeps it.
LEMMA BuildStep ==
    ASSUME TradeInv, NEW d \in Drifts, BuildParams(d)
    PROVE  TradeInv'
<1> DEFINE out == Higher(offer.output + d, 0)
           gain == SaturatingSub(out, offer.input)
           loss == (gain * config.slippage) \div 100
<1>1. config \in Configs /\ offer \in [hops : Hops, input : Nat, output : Nat, net : Nat]
  BY DEF BuildParams, TradeInv, TypeOK
<1>2. GasCost(offer.hops) \in Nat
  BY <1>1, GasCostIs
<1>3. out \in Nat /\ gain \in Nat /\ gain <= out
  BY <1>1, ConfigAssumption DEF Higher, SaturatingSub
<1>4. loss \in Nat /\ loss <= gain
  <2>1. gain * config.slippage <= gain * 100 /\ gain * config.slippage \in Nat
    <3> HIDE DEF gain
    <3> QED BY <1>1, <1>3, ConfigIs, ProductMonotonic
  <2>2. QED
    <3> HIDE DEF gain
    <3> QED BY <1>3, <2>1
<1>5. out - loss \in Nat
  <2> HIDE DEF out, gain, loss
  <2> QED BY <1>3, <1>4
<1>6. Higher(out - loss, offer.input + GasCost(offer.hops)) \in Nat
  <2> HIDE DEF out, gain, loss
  <2> QED BY <1>1, <1>2, <1>5 DEF Higher
<1>7. params' \in [last : Nat, min_amount_out : Nat]
  <2>1. params' = [last |-> out,
                   min_amount_out |-> IF CoversGas
                                      THEN Higher(out - loss, offer.input + GasCost(offer.hops))
                                      ELSE out - loss]
    BY DEF BuildParams
  <2> HIDE DEF out, gain, loss
  <2>2. QED BY <1>3, <1>5, <1>6, <2>1
<1>8. TypeOK'
  BY <1>7 DEF BuildParams, TradeInv, TypeOK
<1>9. QED BY <1>8, QuietStage DEF BuildParams, TradeInv

\* execute keeps it.
LEMMA ExecuteStep ==
    ASSUME TradeInv, Execute
    PROVE  TradeInv'
<1> DEFINE net == NetExpected(params.min_amount_out)
           limit == GasLimit(config, offer.hops)
           fee == MaxFee(config, net, limit)
           required == RequiredOut(net, limit)
<1>1. CASE Drop
  BY <1>1, DropStep
<1>2. CASE ~Drop
  <2>1. /\ config \in Configs /\ offer \in [hops : Hops, input : Nat, output : Nat, net : Nat]
        /\ params \in [last : Nat, min_amount_out : Nat]
    BY DEF Execute, TradeInv, TypeOK
  <2>2. net \in Nat /\ limit \in Nat
    BY <2>1, LimitIs DEF NetExpected, SaturatingSub
  <2>3. fee \in Nat /\ MaxPriority(config, net, limit) \in Nat
        /\ MaxPriority(config, net, limit) <= fee
    <3> HIDE DEF net, limit
    <3> QED BY <2>1, <2>2, FeeCases
  <2>4. required \in Nat
    <3>1. limit * fee \in Nat
      <4> HIDE DEF limit, fee
      <4>1. QED BY <2>2, <2>3, ProductMonotonic
    <3>2. SaturatingU128(limit * fee) \in Nat
      <4> HIDE DEF limit, fee
      <4>1. QED BY <3>1, FeeAssumption DEF SaturatingU128
    <3>3. required = IF CoversGas /\ ~IsSmall(net) THEN offer.input + SaturatingU128(limit * fee)
                     ELSE params.min_amount_out
      BY Zenon DEF RequiredOut
    <3> HIDE DEF required, limit, fee, net
    <3>4. QED BY <2>1, <3>2, <3>3
  <2>5. /\ tx' = [input |-> offer.input,
                  min_out |-> Higher(SaturatingSub(params.last, 1), required),
                  gas |-> limit,
                  max_fee |-> fee,
                  max_priority |-> MaxPriority(config, net, limit)]
        /\ stage' = "sent" /\ UNCHANGED <<config, offer, params, result>>
    BY <1>2 DEF Execute
  <2>6. Higher(SaturatingSub(params.last, 1), required) \in Nat
    <3> HIDE DEF required
    <3> QED BY <2>1, <2>4 DEF Higher, SaturatingSub
  <2>7. tx' \in [input : Nat, min_out : Nat, gas : Nat, max_fee : Nat, max_priority : Nat]
        /\ tx'.max_priority <= tx'.max_fee
    <3> HIDE DEF required, net, limit, fee
    <3> QED BY <2>1, <2>2, <2>3, <2>5, <2>6
  <2>8. TypeOK'
    <3>1. result' \in Int /\ config' = config /\ offer' = offer /\ stage' = "sent"
      BY <2>5 DEF TradeInv, TypeOK
    <3>2. offer.output - offer.input = offer.net + GasCost(offer.hops)
      BY DEF Execute, TradeInv, TypeOK
    <3>3. QED BY <2>1, <2>7, <3>1, <3>2 DEF TypeOK, GasCost
  <2>9. FeePaidByProfit'
    <3>1. config.service = "library"
      BY DEF Execute, TradeInv, TypeOK
    <3>2. QED BY <2>5, <3>1 DEF FeePaidByProfit
  <2>10. QED BY <2>8, <2>9 DEF TradeInv
<1>3. QED BY <1>1, <1>2

\* What slippage leaves of an output is a number.
LEMMA SlippedIs ==
    ASSUME TypeOK, stage = "offered"
    PROVE  Slipped \in Nat
<1>1. config \in Configs /\ offer.output \in Nat
  BY DEF TypeOK
<1>2. 100 - config.slippage \in Nat
  BY <1>1, ConfigIs
<1>3. offer.output * (100 - config.slippage) \in Nat
  BY <1>1, <1>2, ProductMonotonic
<1>4. QED BY <1>3 DEF Slipped

\* A trade of the services that have no fee plan.
LEMMA SendStep ==
    ASSUME TradeInv, stage = "offered", config.service \in {"moe", "v3", "v2"},
           NEW input \in Nat, NEW min_out \in Nat, NEW gas \in Nat, NEW price \in Nat,
           Send(input, min_out, gas, price, 0)
    PROVE  TradeInv'
<1>1. /\ tx' = [input |-> input, min_out |-> min_out, gas |-> gas,
                max_fee |-> price, max_priority |-> 0]
      /\ stage' = "sent" /\ UNCHANGED <<config, offer, params, result>>
  BY DEF Send
<1>2. tx' \in [input : Nat, min_out : Nat, gas : Nat, max_fee : Nat, max_priority : Nat]
      /\ tx'.max_priority <= tx'.max_fee
  BY <1>1
<1>3. TypeOK'
  BY <1>1, <1>2 DEF TradeInv, TypeOK, GasCost
<1>4. FeePaidByProfit'
  BY <1>1 DEF FeePaidByProfit
<1>5. QED BY <1>3, <1>4 DEF TradeInv

\* The attempt of the 1559 service keeps the invariant of the trade.
LEMMA AgniFeesStep ==
    ASSUME TradeInv, NEW b \in Balances, AttemptAgniFees(b)
    PROVE  TradeInv'
<1> DEFINE net == NetExpected(offer.output)
           limit == GasLimit(config, offer.hops)
           fee == MaxFee(config, net, limit)
           tip == MaxPriority(config, net, limit)
           least == Higher(Slipped, offer.input)
<1>1. CASE Drop
  BY <1>1, DropStep
<1>2. CASE ~Drop
  <2>1. /\ config \in Configs /\ offer \in [hops : Hops, input : Nat, output : Nat, net : Nat]
        /\ Slipped \in Nat
    BY SlippedIs DEF AttemptAgniFees, TradeInv, TypeOK
  <2>2. net \in Nat /\ limit \in Nat
    BY <2>1, LimitIs DEF NetExpected, SaturatingSub
  <2>3. /\ fee \in Nat /\ TotalCap(net, limit) \in Nat
        /\ \/ fee <= TotalCap(net, limit)
           \/ fee <= MANTLE_BASE_FEE_WEI + config.default_priority_fee_wei
        /\ tip \in Nat /\ tip <= fee
    <3> HIDE DEF net, limit
    <3> QED BY <2>1, <2>2, FeeCases
  <2>4. least \in Nat
    BY <2>1 DEF Higher
  <2>5. /\ tx' = [input |-> offer.input, min_out |-> least, gas |-> limit,
                  max_fee |-> fee, max_priority |-> tip]
        /\ stage' = "sent" /\ UNCHANGED <<config, offer, params, result>>
        /\ config.service = "v3_1559"
    BY <1>2 DEF AttemptAgniFees, Send
  <2>6. tx' \in [input : Nat, min_out : Nat, gas : Nat, max_fee : Nat, max_priority : Nat]
        /\ tx'.max_priority <= tx'.max_fee
    <3> HIDE DEF net, limit, fee, tip, least
    <3> QED BY <2>1, <2>2, <2>3, <2>4, <2>5
  <2>7. TypeOK'
    <3>1. offer.output - offer.input = offer.net + GasCost(offer.hops) /\ result \in Int
      BY DEF AttemptAgniFees, TradeInv, TypeOK
    <3>2. QED BY <2>1, <2>5, <2>6, <3>1 DEF TypeOK, GasCost
  <2>8. FeePaidByProfit'
    <3>1. \/ limit * fee <= IF IsSmall(net) THEN (3 * net) \div 2 ELSE net
          \/ fee <= MANTLE_BASE_FEE_WEI + config.default_priority_fee_wei
      <4>1. CASE fee <= TotalCap(net, limit)
        <5>1. limit * fee <= limit * TotalCap(net, limit) /\ limit * fee \in Nat
              /\ limit * TotalCap(net, limit) \in Nat
          <6> HIDE DEF net, limit, fee
          <6> QED BY <2>2, <2>3, <4>1, ProductMonotonic
        <5>2. NetAsU128(net) \in Nat /\ NetAsU128(net) <= net
          <6> HIDE DEF net
          <6> QED BY <2>2, FeeAssumption DEF NetAsU128
        <5>3. (3 * NetAsU128(net)) \div 2 <= (3 * net) \div 2
          <6> HIDE DEF net
          <6> QED BY <2>2, <5>2
        <5>4. /\ ~IsSmall(net) => limit * TotalCap(net, limit) <= NetAsU128(net)
              /\ IsSmall(net) => limit * TotalCap(net, limit) <= (3 * NetAsU128(net)) \div 2
          BY <2>2, TotalFits
        <5> HIDE DEF net, limit, fee
        <5>5. QED BY <2>2, <5>1, <5>2, <5>3, <5>4
      <4>2. QED BY <2>3, <4>1
    <3>2. /\ tx'.gas * tx'.max_fee = limit * fee /\ tx'.max_fee = fee
          /\ NetExpected(offer.output)' = net /\ config' = config
      BY <2>5 DEF NetExpected
    <3>3. QED BY <3>1, <3>2 DEF FeePaidByProfit, IsSmall
  <2>9. QED BY <2>7, <2>8 DEF TradeInv
<1>3. QED BY <1>1, <1>2

\* A trade that is mined keeps it.
LEMMA MinedStep ==
    ASSUME TradeInv, NEW extra \in {0, 1}, NEW share \in {1, 2}, Mined(extra, share)
    PROVE  TradeInv'
<1> DEFINE fee == tx.gas * tx.max_fee
<1>1. /\ tx \in [input : Nat, min_out : Nat, gas : Nat, max_fee : Nat, max_priority : Nat]
      /\ stage = "sent" /\ stage' = "mined" /\ UNCHANGED <<config, offer, params, tx>>
  BY DEF Mined, TradeInv, TypeOK
<1>2. fee \in Nat
  BY <1>1, ProductMonotonic
<1>3. result' = tx.min_out + extra - tx.input - fee \div share
  BY DEF Mined
<1>4. fee \div share \in Nat
  <2> HIDE DEF fee
  <2> QED BY <1>2
<1>5. result' \in Int
  <2> HIDE DEF fee
  <2> QED BY <1>1, <1>2, <1>3, <1>4
<1>6. TypeOK'
  BY <1>1, <1>5 DEF TradeInv, TypeOK, GasCost
<1>7. QED BY <1>1, <1>6, QuietStage DEF TradeInv

\* A trade that is reverted keeps it.
LEMMA RevertedStep ==
    ASSUME TradeInv, Reverted
    PROVE  TradeInv'
<1>1. /\ tx \in [input : Nat, min_out : Nat, gas : Nat, max_fee : Nat, max_priority : Nat]
      /\ stage' = "reverted" /\ UNCHANGED <<config, offer, params, tx>>
  BY DEF Reverted, TradeInv, TypeOK
<1>2. result' \in Int
  <2>1. tx.gas * tx.max_fee \in Nat
    BY <1>1, ProductMonotonic
  <2>2. QED BY <2>1 DEF Reverted
<1>3. TypeOK'
  BY <1>1, <1>2 DEF Reverted, TradeInv, TypeOK, GasCost
<1>4. QED BY <1>1, <1>3, QuietStage DEF TradeInv

\* Every step of an opportunity keeps the invariant of the trade.
LEMMA NextTradeInv ==
    ASSUME TradeInv, ClimbInv, [Next]_vars
    PROVE  TradeInv'
<1>1. CASE Search \/ UNCHANGED vars
  <2>1. UNCHANGED tradeVars
    BY <1>1 DEF Search, vars
  <2>2. QED BY <2>1 DEF tradeVars, TradeInv, TypeOK, FeePaidByProfit, GasCost, NetExpected,
             IsSmall
<1>2. ASSUME NEW c \in Configs, NEW h \in Hops, Offer(c, h)
      PROVE  TradeInv'
  BY <1>2, OfferStep
<1>3. ASSUME NEW c \in Configs, NEW h \in Hops, FilterOut(c, h)
      PROVE  TradeInv'
  <2>1. TypeOK'
    BY <1>3 DEF FilterOut, TradeInv, TypeOK
  <2>2. QED BY <1>3, <2>1, QuietStage DEF FilterOut, TradeInv
<1>4. ASSUME NEW d \in Drifts, BuildParams(d)
      PROVE  TradeInv'
  BY <1>4, BuildStep
<1>5. CASE BelowMinimum \/ \E b \in Balances : LacksBalance(b)
  BY <1>5, DropStep DEF BelowMinimum, LacksBalance
<1>6. ASSUME NEW b \in Balances, AttemptAgniFees(b)
      PROVE  TradeInv'
  BY <1>6, AgniFeesStep
<1>7. ASSUME NEW b \in Balances, NEW p \in NodePrices,
             AttemptAgni(b, p) \/ AttemptPair(b, p) \/ AttemptMoe(b, p)
      PROVE  TradeInv'
  <2>1. stage = "offered" /\ config \in Configs /\ offer.input \in Nat /\ offer.hops \in Hops
    BY <1>7 DEF AttemptAgni, AttemptPair, AttemptMoe, TradeInv, TypeOK
  <2>2. /\ Slipped \in Nat /\ GasLimitForHops[offer.hops] \in Nat
        /\ Higher(Slipped, offer.input) \in Nat /\ Lower(b, offer.input) \in Nat
        /\ p \in Nat
    BY <2>1, SlippedIs, FeeAssumption, ConfigAssumption DEF TradeInv, Higher, Lower
  <2>3. CASE AttemptAgni(b, p)
    BY <2>1, <2>2, <2>3, SendStep DEF AttemptAgni
  <2>4. CASE AttemptPair(b, p)
    BY <2>1, <2>2, <2>4, SendStep DEF AttemptPair
  <2>5. CASE AttemptMoe(b, p)
    BY <2>1, <2>2, <2>5, SendStep DEF AttemptMoe
  <2>6. QED BY <1>7, <2>3, <2>4, <2>5
<1>8. ASSUME NEW extra \in {0, 1}, NEW share \in {1, 2}, Mined(extra, share)
      PROVE  TradeInv'
  BY <1>8, MinedStep
<1>9. QED BY <1>1, <1>2, <1>3, <1>4, <1>5, <1>6, <1>7, <1>8, ExecuteStep, RevertedStep DEF Next

Inv == ClimbInv /\ TradeInv

\* Both invariants hold at first.
LEMMA InitInv == Init => Inv
<1> SUFFICES ASSUME Init PROVE Inv
  OBVIOUS
<1>1. ClimbInv
  BY ClimbInit_ClimbInv DEF Init
<1>2. TypeOK
  BY DEF Init, TypeOK
<1>3. FeePaidByProfit
  BY DEF Init, FeePaidByProfit
<1>4. QED BY <1>1, <1>2, <1>3 DEF Inv, TradeInv

\* Both invariants hold always.
LEMMA InvHolds == Spec => []Inv
<1>1. Inv /\ [Next]_vars => Inv'
  BY NextClimbInv, NextTradeInv DEF Inv
<1>2. QED BY <1>1, InitInv, PTL DEF Spec

\* The offer and the trade keep their types, and the tip is within the fee.
THEOREM TypeCorrect == Spec => []TypeOK
<1>1. Inv => TypeOK
  BY DEF Inv, TradeInv
<1>2. QED BY <1>1, InvHolds, PTL

\* The 1559 service's fees are paid by the profit, or are the default fee.
THEOREM FeesAreBounded == Spec => []FeePaidByProfit
<1>1. Inv => FeePaidByProfit
  BY DEF Inv, TradeInv
<1>2. QED BY <1>1, InvHolds, PTL

-----------------------------------------------------------------------------
(* Sequences of requests and of pools.                                      *)

\* Two sequences one after the other have the elements of both.
LEMMA RangeJoin ==
    ASSUME NEW T, NEW s \in Seq(T), NEW t \in Seq(T)
    PROVE  s \o t \in Seq(T) /\ Range(s \o t) = Range(s) \cup Range(t)
<1> DEFINE u == s \o t
           L == Len(s)
           M == Len(t)
<1>1. /\ u \in Seq(T) /\ Len(u) = L + M /\ L \in Nat /\ M \in Nat
      /\ DOMAIN s = 1..L /\ DOMAIN t = 1..M
      /\ \A i \in 1..L + M : u[i] = IF i <= L THEN s[i] ELSE t[i - L]
  BY ConcatProperties
<1> HIDE DEF u, L, M
<1>2. DOMAIN u = 1..L + M
  BY <1>1
<1>3. \A i \in 1..L + M : \/ i \in 1..L /\ u[i] = s[i]
                          \/ i - L \in 1..M /\ u[i] = t[i - L]
  BY <1>1
<1>4. \A i \in 1..L : i \in 1..L + M /\ u[i] = s[i]
  BY <1>1
<1>5. \A i \in 1..M : i + L \in 1..L + M /\ u[i + L] = t[i]
  <2> TAKE i \in 1..M
  <2>1. i + L \in 1..L + M /\ ~(i + L <= L) /\ (i + L) - L = i
    BY <1>1
  <2>2. u[i + L] = t[(i + L) - L]
    BY <1>1, <2>1
  <2>3. QED BY <2>1, <2>2
<1>6. /\ Range(u) = {u[i] : i \in 1..L + M}
      /\ Range(s) = {s[i] : i \in 1..L}
      /\ Range(t) = {t[i] : i \in 1..M}
  BY <1>1, <1>2 DEF Range
<1>7. Range(u) = Range(s) \cup Range(t)
  <2>1. \A x \in Range(u) : x \in Range(s) \cup Range(t)
    BY <1>3, <1>6
  <2>2. \A x \in Range(s) : x \in Range(u)
    BY <1>4, <1>6
  <2>3. \A x \in Range(t) : x \in Range(u)
    BY <1>5, <1>6
  <2>4. QED BY <2>1, <2>2, <2>3
<1>8. QED BY <1>1, <1>7 DEF u

\* Where the k-th element of a sequence was before the i-th was removed.
Before(k, i) == IF k < i THEN k ELSE k + 1

\* One request less, the others in their order.
LEMMA RemoveAtIs ==
    ASSUME NEW T, NEW s \in Seq(T), NEW i \in 1..Len(s)
    PROVE  /\ RemoveAt(s, i) \in Seq(T)
           /\ Len(RemoveAt(s, i)) = Len(s) - 1
           /\ \A k \in 1..Len(s) - 1 :
                 RemoveAt(s, i)[k] = s[Before(k, i)] /\ Before(k, i) \in 1..Len(s) /\ Before(k, i) # i
           /\ \A k \in 1..Len(s) : k # i => \E j \in 1..Len(s) - 1 : k = Before(j, i) /\ RemoveAt(s, i)[j] = s[k]
           /\ \A j, k \in 1..Len(s) - 1 : Before(j, i) = Before(k, i) => j = k
<1> DEFINE a == SubSeq(s, 1, i - 1)
           b == SubSeq(s, i + 1, Len(s))
           u == a \o b
           L == Len(s)
<1>1. /\ a \in Seq(T) /\ Len(a) = i - 1 /\ \A k \in 1..i - 1 : a[k] = s[k]
      /\ b \in Seq(T) /\ Len(b) = L - i /\ \A k \in 1..L - i : b[k] = s[i + k]
      /\ L \in Nat /\ i \in 1..L
  OBVIOUS
<1> HIDE DEF a, b, L
<1>2. /\ u \in Seq(T) /\ Len(u) = L - 1
      /\ \A k \in 1..L - 1 : u[k] = IF k <= i - 1 THEN a[k] ELSE b[k - (i - 1)]
  <2>1. /\ u \in Seq(T) /\ Len(u) = Len(a) + Len(b)
        /\ \A k \in 1..Len(a) + Len(b) : u[k] = IF k <= Len(a) THEN a[k] ELSE b[k - Len(a)]
    BY <1>1, ConcatProperties
  <2>2. Len(a) + Len(b) = L - 1
    BY <1>1
  <2> HIDE DEF u
  <2>3. QED BY <1>1, <2>1, <2>2
<1> HIDE DEF u
<1>3. \A k \in 1..L - 1 : u[k] = s[IF k < i THEN k ELSE k + 1]
                          /\ (IF k < i THEN k ELSE k + 1) \in 1..L \ {i}
  <2> TAKE k \in 1..L - 1
  <2>1. CASE k < i
    <3>1. k <= i - 1 /\ k \in 1..i - 1 /\ k \in 1..L \ {i}
      BY <1>1, <2>1
    <3>2. QED BY <1>1, <1>2, <2>1, <3>1
  <2>2. CASE ~(k < i)
    <3>1. ~(k <= i - 1) /\ k - (i - 1) \in 1..L - i /\ i + (k - (i - 1)) = k + 1 /\ k + 1 \in 1..L \ {i}
      BY <1>1, <2>2
    <3>2. u[k] = b[k - (i - 1)]
      BY <1>2, <3>1
    <3>3. b[k - (i - 1)] = s[i + (k - (i - 1))]
      BY <1>1, <3>1
    <3>4. QED BY <2>2, <3>1, <3>2, <3>3
  <2>3. QED BY <2>1, <2>2
<1>4. ASSUME NEW k \in 1..L \ {i}
      PROVE  \E j \in 1..L - 1 : k = (IF j < i THEN j ELSE j + 1) /\ u[j] = s[k]
  <2>1. CASE k < i
    <3>1. k \in 1..L - 1
      BY <1>1, <2>1
    <3>2. QED BY <1>3, <2>1, <3>1
  <2>2. CASE ~(k < i)
    <3>1. k - 1 \in 1..L - 1 /\ ~(k - 1 < i) /\ (k - 1) + 1 = k
      BY <1>1, <2>2
    <3>2. u[k - 1] = s[IF k - 1 < i THEN k - 1 ELSE (k - 1) + 1]
      BY <1>3, <3>1
    <3>3. QED BY <3>1, <3>2
  <2>3. QED BY <2>1, <2>2
<1>5. ASSUME NEW j \in 1..L - 1, NEW k \in 1..L - 1, Before(j, i) = Before(k, i) PROVE j = k
  BY <1>1, <1>5 DEF Before
<1>6. RemoveAt(s, i) = u
  BY DEF u, a, b, L, RemoveAt
<1>7. /\ \A k \in 1..L - 1 : u[k] = s[Before(k, i)] /\ Before(k, i) \in 1..L /\ Before(k, i) # i
      /\ \A k \in 1..L : k # i => \E j \in 1..L - 1 : k = Before(j, i) /\ u[j] = s[k]
  BY <1>3, <1>4 DEF Before
<1>8. QED BY <1>2, <1>5, <1>6, <1>7 DEF L

\* Every other request stays.
LEMMA RemoveAtKeeps ==
    ASSUME NEW T, NEW s \in Seq(T), NEW i \in 1..Len(s), NEW k \in 1..Len(s), k # i
    PROVE  \E j \in 1..Len(RemoveAt(s, i)) : k = Before(j, i) /\ RemoveAt(s, i)[j] = s[k]
<1>1. Len(RemoveAt(s, i)) = Len(s) - 1
  BY RemoveAtIs
<1>2. \E j \in 1..Len(s) - 1 : k = Before(j, i) /\ RemoveAt(s, i)[j] = s[k]
  BY RemoveAtIs
<1>3. QED BY <1>1, <1>2

\* A set in some order, each element once: what a list of it is.
LEMMA ListsOf ==
    ASSUME NEW S, IsFiniteSet(S), NEW f \in [1..Cardinality(S) -> S], IsInjective(f)
    PROVE  f \in Seq(S) /\ Range(f) = S
<1>1. Cardinality(S) \in Nat
  BY FS_CardinalityType
<1>2. f \in Seq(S) /\ DOMAIN f = 1..Cardinality(S)
  BY <1>1
<1>3. f \in Injection(1..Cardinality(S), S)
  BY DEF Injection
<1>4. Cardinality(1..Cardinality(S)) = Cardinality(S)
  <2>1. \A n \in Nat : Cardinality(1..n) = n
    <3> TAKE n \in Nat
    <3>1. Cardinality(1..n) = IF 1 > n THEN 0 ELSE n - 1 + 1
      BY FS_Interval
    <3>2. QED BY <3>1
  <2>2. QED BY <1>1, <2>1
<1>5. f \in Surjection(1..Cardinality(S), S)
  BY <1>3, <1>4, FS_Injection
<1>6. Range(f) = S
  BY <1>2, <1>5 DEF Surjection, Range
<1>7. QED BY <1>2, <1>6

\* SetToSeq gives one.
LEMMA SetToSeqIs ==
    ASSUME NEW S, IsFiniteSet(S)
    PROVE  SetToSeq(S) \in Seq(S) /\ Range(SetToSeq(S)) = S
<1>1. ExistsBijection(1..Cardinality(S), S)
  BY FS_CardinalityType
<1>2. PICK f : f \in Bijection(1..Cardinality(S), S)
  BY <1>1 DEF ExistsBijection
<1>3. f \in [1..Cardinality(S) -> S] /\ IsInjective(f)
  BY <1>2 DEF Bijection, Injection
<1>4. SetToSeq(S) \in [1..Cardinality(S) -> S] /\ IsInjective(SetToSeq(S))
  BY <1>3 DEF SetToSeq
<1>5. QED BY <1>4, ListsOf

\* SetToSeqs gives some.
LEMMA SetToSeqsAre ==
    ASSUME NEW S, IsFiniteSet(S), NEW f \in SetToSeqs(S)
    PROVE  f \in Seq(S) /\ Range(f) = S /\ IsInjective(f)
<1>1. f \in [1..Cardinality(S) -> S] /\ IsInjective(f)
  BY DEF SetToSeqs, IsInjective
<1>2. QED BY <1>1, ListsOf

\* A finite set of integers has a greatest.
LEMMA GreatestInt ==
    ASSUME NEW S, S \subseteq Int, IsFiniteSet(S), S # {}
    PROVE  \E m \in S : \A x \in S : x <= m
<1> DEFINE X == {T \in SUBSET S : T # {} => \E m \in T : \A x \in T : x <= m}
<1>1. {} \in X
  OBVIOUS
<1>2. ASSUME NEW T \in SUBSET S, T # {}, \A x \in T : T \ {x} \in X PROVE T \in X
  <2>1. PICK x \in T : TRUE
    BY <1>2
  <2>2. CASE T \ {x} = {}
    <3>1. \A y \in T : y = x
      BY <2>2
    <3>2. x \in Int
      OBVIOUS
    <3>3. QED BY <3>1, <3>2
  <2>3. CASE T \ {x} # {}
    <3>1. PICK m \in T \ {x} : \A y \in T \ {x} : y <= m
      BY <1>2, <2>3
    <3>2. \A y \in T : y = x \/ y <= m
      BY <3>1
    <3>3. x \in Int /\ m \in Int /\ \A y \in T : y \in Int
      OBVIOUS
    <3>4. CASE x <= m
      <4>1. \A y \in T : y <= m
        BY <3>2, <3>4
      <4>2. QED BY <4>1
    <3>5. CASE ~(x <= m)
      <4>1. \A y \in T : y <= x
        BY <3>2, <3>3, <3>5
      <4>2. QED BY <4>1
    <3>6. QED BY <3>4, <3>5
  <2>4. QED BY <2>2, <2>3
<1>3. \A T \in SUBSET S : T \in X
  <2> HIDE DEF X
  <2>1. QED BY <1>1, <1>2, SubsetInduction
<1>4. S \in X
  BY <1>3
<1>5. QED BY <1>4

\* Ascending gives the elements of a finite set of integers.
LEMMA AscendingIs ==
    ASSUME NEW S, S \subseteq Int, IsFiniteSet(S)
    PROVE  /\ Ascending(S) \in [1..Cardinality(S) -> S]
           /\ Ascending(S) \in Seq(S) /\ Range(Ascending(S)) = S
<1> DEFINE Sorted(T, s) == s \in [1..Cardinality(T) -> T] /\ \A i, j \in DOMAIN s : i < j => s[i] < s[j]
           X == {T \in SUBSET S : \E s : Sorted(T, s)}
           N == Cardinality(S)
           G == {n \in 0..N : \A T \in SUBSET S : Cardinality(T) = n => T \in X}
<1>1. N \in Nat /\ \A T \in SUBSET S : IsFiniteSet(T) /\ Cardinality(T) \in Nat /\ Cardinality(T) <= N
  BY FS_CardinalityType, FS_Subset
<1>2. 0 \in G
  <2>1. ASSUME NEW T \in SUBSET S, Cardinality(T) = 0 PROVE T \in X
    <3>1. T = {} /\ 1..Cardinality(T) = {}
      BY <1>1, <2>1, FS_EmptySet
    <3>2. <<>> \in [1..Cardinality(T) -> T] /\ DOMAIN <<>> = {}
      BY <3>1
    <3>3. Sorted(T, <<>>)
      BY <3>2
    <3> HIDE DEF Sorted
    <3>4. QED BY <3>3
  <2> HIDE DEF X
  <2>2. QED BY <1>1, <2>1
<1>3. ASSUME NEW n \in 0..N - 1, n \in G PROVE n + 1 \in G
  <2>1. ASSUME NEW T \in SUBSET S, Cardinality(T) = n + 1 PROVE T \in X
    <3>1. n \in Nat /\ T # {} /\ IsFiniteSet(T) /\ T \subseteq Int
      BY <1>1, <2>1, FS_EmptySet
    <3>2. PICK m \in T : \A x \in T : x <= m
      BY <3>1, GreatestInt
    <3> DEFINE U == T \ {m}
    <3>3. Cardinality(U) = n /\ U \in SUBSET S
      <4>1. Cardinality(U) = Cardinality(T) - 1
        BY <3>1, FS_RemoveElement
      <4>2. QED BY <2>1, <3>1, <4>1
    <3>4. U \in X
      BY <1>3, <3>3
    <3>5. PICK s : Sorted(U, s)
      BY <3>4
    <3> DEFINE t == [i \in 1..n + 1 |-> IF i = n + 1 THEN m ELSE s[i]]
    <3>6. /\ DOMAIN s = 1..n /\ \A i \in 1..n : s[i] \in U
          /\ \A i, j \in 1..n : i < j => s[i] < s[j]
      BY <3>3, <3>5
    <3>7. \A x \in U : x < m /\ x \in T
      BY <3>1, <3>2
    <3>8. \A i \in 1..n + 1 : i = n + 1 \/ (i \in 1..n /\ i # n + 1)
      BY <3>1
    <3>9. t \in [1..n + 1 -> T]
      <4>1. \A i \in 1..n + 1 : t[i] \in T
        BY <3>6, <3>7, <3>8
      <4>2. QED BY <4>1
    <3>10. \A i, j \in 1..n + 1 : i < j => t[i] < t[j]
      <4> TAKE i, j \in 1..n + 1
      <4> HAVE i < j
      <4>1. i \in 1..n /\ i # n + 1
        BY <3>8
      <4>2. t[i] = s[i]
        BY <4>1
      <4>3. CASE j = n + 1
        BY <3>6, <3>7, <4>1, <4>2, <4>3
      <4>4. CASE j \in 1..n /\ j # n + 1
        BY <3>6, <4>1, <4>2, <4>4
      <4>5. QED BY <3>8, <4>3, <4>4
    <3>11. Sorted(T, t)
      <4> HIDE DEF t
      <4>1. DOMAIN t = 1..n + 1
        BY <3>9
      <4>2. QED BY <2>1, <3>9, <3>10, <4>1
    <3> HIDE DEF Sorted, t
    <3>12. QED BY <3>11
  <2> HIDE DEF X
  <2>2. n + 1 \in 0..N
    BY <1>1
  <2>3. QED BY <2>1, <2>2
<1>4. N \in G
  <2> HIDE DEF G, N
  <2>1. \A n \in 0..N : n \in G
    BY <1>1, <1>2, <1>3, UpTo
  <2>2. QED BY <1>1, <2>1
<1>5. \E s : Sorted(S, s)
  BY <1>4
<1> DEFINE r == Ascending(S)
<1>6. Sorted(S, r)
  BY <1>5 DEF Ascending
<1> HIDE DEF r
<1>7. r \in [1..N -> S] /\ DOMAIN r = 1..N /\ \A i, j \in 1..N : i < j => r[i] < r[j]
  BY <1>6
<1> HIDE DEF Sorted, N, G, X
<1>8. IsInjective(r)
  <2> SUFFICES ASSUME NEW i \in 1..N, NEW j \in 1..N, r[i] = r[j], i # j PROVE FALSE
    BY <1>7 DEF IsInjective
  <2>1. i < j \/ j < i
    BY <1>1
  <2>2. r[i] \in Int /\ r[j] \in Int
    BY <1>7
  <2>3. QED BY <1>7, <2>1, <2>2
<1>9. r \in Seq(S) /\ Range(r) = S
  BY <1>7, <1>8, ListsOf DEF N
<1>10. QED BY <1>7, <1>9 DEF r, N

\* Of several copies of a pool the last is kept, so every pool is.
LEMMA LastCopiesAre ==
    ASSUME NEW T, NEW s \in Seq(T)
    PROVE  LastCopies(s) \in Seq(T) /\ Range(LastCopies(s)) = Range(s)
<1> DEFINE last == {i \in DOMAIN s : \A j \in DOMAIN s : s[j] = s[i] => j <= i}
           C == Cardinality(last)
           t == LastCopies(s)
<1>1. DOMAIN s = 1..Len(s) /\ Len(s) \in Nat
  OBVIOUS
<1>2. last \in SUBSET (1..Len(s)) /\ last \subseteq Int
  BY <1>1
<1>3. IsFiniteSet(1..Len(s))
  BY <1>1, FS_Interval
<1>4. IsFiniteSet(last) /\ C \in Nat
  <2> HIDE DEF last
  <2>1. IsFiniteSet(last)
    BY <1>2, <1>3, FS_Subset
  <2>2. QED BY <2>1, FS_CardinalityType
<1>5. Ascending(last) \in [1..C -> last] /\ Range(Ascending(last)) = last
  <2> HIDE DEF last
  <2>1. QED BY <1>2, <1>4, AscendingIs
<1>6. t = [k \in 1..C |-> s[Ascending(last)[k]]]
  BY DEF LastCopies
<1>7. \A x \in Range(s) : \E i \in last : s[i] = x
  <2> TAKE x \in Range(s)
  <2> DEFINE I == {i \in 1..Len(s) : s[i] = x}
  <2>1. I # {} /\ I \subseteq Nat /\ \A i \in I : i <= Len(s)
    BY <1>1 DEF Range
  <2> HIDE DEF I
  <2>2. PICK m \in I : \A i \in I : i <= m
    BY <1>1, <2>1, GreatestNat
  <2>3. m \in last /\ s[m] = x
    BY <1>1, <2>2 DEF I
  <2>4. QED BY <2>3
<1> HIDE DEF last, C, t
<1>8. \A k \in 1..C : Ascending(last)[k] \in 1..Len(s) /\ t[k] = s[Ascending(last)[k]]
  BY <1>2, <1>5, <1>6
<1>9. t \in [1..C -> T] /\ DOMAIN t = 1..C
  <2>1. \A k \in 1..C : s[Ascending(last)[k]] \in T
    BY <1>1, <1>8
  <2>2. QED BY <1>6, <2>1
<1>10. Range(t) = Range(s)
  <2>1. Range(t) = {t[k] : k \in 1..C} /\ Range(s) = {s[i] : i \in 1..Len(s)}
    BY <1>1, <1>9 DEF Range
  <2>2. \A x \in Range(t) : x \in Range(s)
    BY <1>8, <2>1
  <2>3. ASSUME NEW x \in Range(s) PROVE x \in Range(t)
    <3>1. PICK i \in last : s[i] = x
      BY <1>7
    <3>2. DOMAIN Ascending(last) = 1..C
      BY <1>5
    <3>3. PICK k \in 1..C : Ascending(last)[k] = i
      BY <1>5, <3>2 DEF Range
    <3>4. QED BY <1>8, <2>1, <3>1, <3>3
  <2>4. QED BY <2>2, <2>3
<1>11. QED BY <1>4, <1>9, <1>10 DEF t

-----------------------------------------------------------------------------
(* The windows of get_all_pools.                                            *)

\* A number that is r past a multiple of m leaves r.
LEMMA Residue ==
    ASSUME NEW m \in Nat \ {0}, NEW k \in Nat, NEW r \in 0..m - 1
    PROVE  (m * k + r) % m = r
<1> DEFINE a == m * k + r
           q == a \div m
           x == a % m
<1>1. a \in Nat
  <2>1. m * k \in Nat
    OBVIOUS
  <2>2. QED BY <2>1
<1> HIDE DEF a
<1>2. q \in Nat /\ x \in 0..m - 1 /\ a = m * q + x
  BY <1>1
<1> HIDE DEF q, x
<1>3. ASSUME q > k PROVE FALSE
  <2>1. q >= k + 1
    BY <1>2, <1>3
  <2>2. m * q >= m * (k + 1)
    BY <1>2, <2>1
  <2>3. m * (k + 1) = m * k + m
    OBVIOUS
  <2>4. m * k \in Int /\ m * q \in Int
    BY <1>2
  <2>5. m * k + r = m * q + x
    BY <1>2 DEF a
  <2>6. QED BY <1>2, <2>2, <2>3, <2>4, <2>5
<1>4. ASSUME q < k PROVE FALSE
  <2>1. k >= q + 1
    BY <1>2, <1>4
  <2>2. m * k >= m * (q + 1)
    BY <1>2, <2>1
  <2>3. m * (q + 1) = m * q + m
    BY <1>2
  <2>4. m * k \in Int /\ m * q \in Int
    BY <1>2
  <2>5. m * k + r = m * q + x
    BY <1>2 DEF a
  <2>6. QED BY <1>2, <2>2, <2>3, <2>4, <2>5
<1>5. q = k
  BY <1>2, <1>3, <1>4
<1>6. x = r
  <2>1. m * k + r = m * k + x
    BY <1>2, <1>5 DEF a
  <2>2. m * k \in Int
    OBVIOUS
  <2>3. QED BY <1>2, <2>1, <2>2
<1>7. QED BY <1>6 DEF a, x

\* What the steps leave of the types.
BuildTypes ==
    /\ block_number \in Nat /\ creation_block <= block_number
    /\ created \in [Pools -> creation_block..block_number]
    /\ filters \in Filters /\ amms \in SUBSET Listed /\ fresh \in SUBSET amms
    /\ pools \in Seq(Pools)

\* The next window starts where a window may start, or behind the last block.
WindowsEnd ==
    \/ latest_block = block_number + 1 /\ ~LastBlockMissed
    \/ latest_block <= block_number /\ \E k \in Nat : latest_block = creation_block + (sync_step + 1) * k

\* The windows of a factory.
Windows == [from : Nat, to : Nat]

\* The windows asked for have no block in common and end before the next one;
\* each pool created so far is found, once, or in a window not answered yet.
DiscoveryInv ==
    /\ latest_block \in creation_block..block_number + 1
    /\ requests \in Seq(Windows)
    /\ \A i \in 1..Len(requests) : requests[i].to < latest_block
    /\ \A i, j \in 1..Len(requests) : \A b \in Nat :
          b \in requests[i].from..requests[i].to /\ b \in requests[j].from..requests[j].to => i = j
    /\ IsInjective(pools)
    /\ \A p \in Range(pools) :
          /\ created[p] < latest_block
          /\ \A i \in 1..Len(requests) : created[p] \notin requests[i].from..requests[i].to
    /\ \A p \in Pools :
          created[p] < latest_block =>
              \/ p \in Range(pools)
              \/ \E i \in 1..Len(requests) : created[p] \in requests[i].from..requests[i].to
    /\ WindowsEnd
    /\ phase = "logs" => latest_block >= block_number

\* It holds before the first window.
LEMMA DiscoveryInits == BuilderInit => BuildTypes /\ DiscoveryInv
<1> SUFFICES ASSUME BuilderInit PROVE BuildTypes /\ DiscoveryInv
  OBVIOUS
<1>1. /\ block_number \in creation_block..MaxTip /\ creation_block \in Nat /\ MaxTip \in Nat /\ sync_step \in Nat
      /\ created \in [Pools -> creation_block..block_number]
      /\ latest_block = creation_block /\ requests = <<>> /\ pools = <<>> /\ phase = "windows"
  BY FactoryAssumption DEF BuilderInit, FactoryInit
<1>2. BuildTypes
  BY <1>1 DEF BuildTypes, BuilderInit
<1>3. WindowsEnd
  <2>1. 0 \in Nat /\ creation_block = creation_block + (sync_step + 1) * 0
    BY <1>1
  <2>2. QED BY <1>1, <2>1 DEF WindowsEnd
<1>4. <<>> \in Seq(Windows) /\ Len(<<>>) = 0 /\ Range(<<>>) = {} /\ IsInjective(<<>>)
  BY DEF Range, IsInjective
<1>5. DiscoveryInv
  BY <1>1, <1>3, <1>4 DEF DiscoveryInv
<1>6. QED BY <1>2, <1>5

\* A window starts where the one before it ended.
LEMMA WindowKeeps ==
    ASSUME BuildTypes, DiscoveryInv, Window, UNCHANGED builderVars
    PROVE  DiscoveryInv'
<1> DEFINE to == Min({latest_block + sync_step, block_number})
           w == [from |-> latest_block, to |-> to]
           L == Len(requests)
<1>1. /\ latest_block < block_number /\ requests' = Append(requests, w) /\ latest_block' = to + 1
      /\ block_number' = block_number /\ created' = created /\ pools' = pools
      /\ phase = "windows" /\ phase' = phase
  BY DEF Window, chainVars
<1>2. /\ creation_block \in Nat /\ sync_step \in Nat /\ block_number \in Nat
      /\ latest_block \in creation_block..block_number + 1 /\ latest_block \in Nat
      /\ created \in [Pools -> creation_block..block_number]
  BY FactoryAssumption DEF BuildTypes, DiscoveryInv
<1>3. to = IF latest_block + sync_step <= block_number THEN latest_block + sync_step ELSE block_number
  <2> DEFINE x == latest_block + sync_step
             y == block_number
             m == IF x <= y THEN x ELSE y
  <2>1. x \in Nat /\ y \in Nat
    BY <1>2
  <2> HIDE DEF x, y
  <2>2. m \in {x, y} /\ \A z \in {x, y} : m <= z
    BY <2>1
  <2>3. \A n \in {x, y} : (\A z \in {x, y} : n <= z) => n = m
    BY <2>1
  <2>4. Min({x, y}) = m
    <3> HIDE DEF m
    <3>1. QED BY <2>2, <2>3 DEF Min
  <2>5. QED BY <2>4 DEF x, y
<1> HIDE DEF to
<1>4. to \in Nat /\ latest_block <= to /\ to <= block_number
  BY <1>1, <1>2, <1>3
<1>5. /\ requests \in Seq(Windows)
      /\ \A i \in 1..L : requests[i].to < latest_block /\ requests[i].to \in Nat
  <2>1. requests \in Seq(Windows) /\ \A i \in 1..L : requests[i].to < latest_block
    BY DEF DiscoveryInv
  <2>2. \A i \in 1..L : requests[i] \in Windows
    BY <2>1
  <2>3. \A v \in Windows : v.to \in Nat
    BY DEF Windows
  <2> HIDE DEF L
  <2>4. QED BY <2>1, <2>2, <2>3
<1>6. /\ requests' \in Seq(Windows) /\ L \in Nat /\ Len(requests') = L + 1
      /\ requests'[L + 1] = w /\ \A i \in 1..L : requests'[i] = requests[i] /\ i \in 1..L + 1
      /\ \A i \in 1..L + 1 : i \in 1..L \/ i = L + 1
      /\ L + 1 \in 1..L + 1
  <2>1. w \in Windows
    BY <1>2, <1>4 DEF Windows
  <2> HIDE DEF w
  <2>2. QED BY <1>1, <1>5, <2>1
<1>7. w.from = latest_block /\ w.to = to
  OBVIOUS
<1> HIDE DEF w, L
<1>8. \A i \in 1..L + 1 : requests'[i].to < to + 1
  <2> TAKE i \in 1..L + 1
  <2>1. CASE i \in 1..L
    <3>1. requests[i].to \in Nat /\ requests[i].to < latest_block /\ requests'[i] = requests[i]
      BY <1>5, <1>6, <2>1
    <3>2. QED BY <1>2, <1>4, <3>1
  <2>2. CASE i = L + 1
    BY <1>4, <1>6, <1>7, <2>2
  <2>3. QED BY <1>6, <2>1, <2>2
\* No earlier window has a block of the new one.
<1>9. \A i \in 1..L : \A b \in Nat : b \in requests[i].from..requests[i].to => b \notin latest_block..to
  <2> TAKE i \in 1..L
  <2>1. requests[i].to \in Nat /\ requests[i].to < latest_block
    BY <1>5
  <2>2. QED BY <1>2, <2>1
<1>10. ASSUME NEW i \in 1..L + 1, NEW j \in 1..L + 1, NEW b \in Nat,
              b \in requests'[i].from..requests'[i].to, b \in requests'[j].from..requests'[j].to
       PROVE  i = j
  <2>1. CASE i \in 1..L /\ j \in 1..L
    BY <1>6, <1>10, <2>1 DEF DiscoveryInv, L
  <2>2. CASE i \in 1..L /\ j = L + 1
    BY <1>6, <1>7, <1>9, <1>10, <2>2
  <2>3. CASE i = L + 1 /\ j \in 1..L
    BY <1>6, <1>7, <1>9, <1>10, <2>3
  <2>4. QED BY <1>6, <2>1, <2>2, <2>3
<1>11. \A p \in Range(pools) : p \in Pools
  BY DEF BuildTypes, Range
<1>12. ASSUME NEW p \in Range(pools)
       PROVE  /\ created[p] < to + 1
              /\ \A i \in 1..L + 1 : created[p] \notin requests'[i].from..requests'[i].to
  <2>1. created[p] < latest_block /\ \A i \in 1..L : created[p] \notin requests[i].from..requests[i].to
    BY DEF DiscoveryInv, L
  <2>2. created[p] \in Nat
    BY <1>2, <1>11
  <2>3. created[p] \notin latest_block..to
    BY <1>2, <2>1, <2>2
  <2>4. \A i \in 1..L + 1 : created[p] \notin requests'[i].from..requests'[i].to
    BY <1>6, <1>7, <2>1, <2>3
  <2>5. QED BY <1>2, <1>4, <2>1, <2>2, <2>4
<1>13. ASSUME NEW p \in Pools, created[p] < to + 1
       PROVE  \/ p \in Range(pools)
              \/ \E i \in 1..L + 1 : created[p] \in requests'[i].from..requests'[i].to
  <2>1. created[p] \in Nat
    BY <1>2
  <2>2. CASE created[p] < latest_block
    <3>1. p \in Range(pools) \/ \E i \in 1..L : created[p] \in requests[i].from..requests[i].to
      BY <2>2 DEF DiscoveryInv, L
    <3>2. QED BY <1>6, <3>1
  <2>3. CASE ~(created[p] < latest_block)
    <3>1. created[p] \in latest_block..to
      BY <1>2, <1>4, <1>13, <2>1, <2>3
    <3>2. QED BY <1>6, <1>7, <3>1
  <2>4. QED BY <2>2, <2>3
<1>14. WindowsEnd'
  <2> DEFINE m == sync_step + 1
  <2>1. m \in Nat \ {0}
    BY <1>2
  <2>2. PICK k \in Nat : latest_block = creation_block + m * k
    BY <1>1, <1>2 DEF DiscoveryInv, WindowsEnd
  <2>3. CASE to < block_number
    <3>1. to = latest_block + sync_step
      BY <1>2, <1>3, <2>3
    <3>2. latest_block' = latest_block + m
      BY <1>1, <1>2, <3>1
    <3>3. m * (k + 1) = m * k + m /\ m * k \in Nat /\ k + 1 \in Nat
      BY <2>1
    <3>4. latest_block' = creation_block + m * (k + 1)
      BY <1>2, <2>1, <2>2, <3>2, <3>3
    <3>5. latest_block' <= block_number
      BY <1>1, <1>2, <1>4, <2>3
    <3>6. QED BY <1>1, <3>3, <3>4, <3>5 DEF WindowsEnd
  <2>4. CASE to = block_number
    <3> DEFINE r == block_number - latest_block
    <3>1. r \in 1..m - 1
      BY <1>1, <1>2, <1>3, <2>4
    <3>2. m * k \in Nat
      BY <2>1
    <3>3. block_number - creation_block = m * k + r
      BY <1>2, <2>2, <3>2
    <3> HIDE DEF r, m
    <3>4. (m * k + r) % m = r
      <4>1. r \in 0..m - 1
        BY <2>1, <3>1
      <4>2. QED BY <2>1, <4>1, Residue
    <3>5. ~LastBlockMissed
      BY <3>1, <3>3, <3>4 DEF LastBlockMissed, m
    <3>6. LastBlockMissed' <=> LastBlockMissed
      BY <1>1 DEF LastBlockMissed
    <3>7. QED BY <1>1, <2>4, <3>5, <3>6 DEF WindowsEnd
  <2>5. QED BY <1>2, <1>4, <2>3, <2>4
<1>15. Range(pools)' = Range(pools) /\ IsInjective(pools)' /\ Len(requests') = L + 1
  BY <1>1, <1>6 DEF DiscoveryInv, Range, IsInjective
<1>16. latest_block' \in creation_block..block_number' + 1
  BY <1>1, <1>2, <1>4
<1>17. QED BY <1>1, <1>6, <1>8, <1>10, <1>12, <1>13, <1>14, <1>15, <1>16 DEF DiscoveryInv

\* The pools of a window are found when it is answered, whichever is.
LEMMA WindowLogsKeeps ==
    ASSUME BuildTypes, DiscoveryInv, NEW i \in DOMAIN requests, WindowLogs(i), UNCHANGED builderVars
    PROVE  DiscoveryInv' /\ BuildTypes'
<1> DEFINE F == {p \in Pools : created[p] \in requests[i].from..requests[i].to}
           L == Len(requests)
<1>1. PICK found \in SetToSeqs(F) : pools' = pools \o found
  BY DEF WindowLogs
<1>2. /\ requests' = RemoveAt(requests, i) /\ latest_block' = latest_block /\ phase' = phase
      /\ block_number' = block_number /\ created' = created
      /\ filters' = filters /\ amms' = amms /\ fresh' = fresh
  BY DEF WindowLogs, chainVars, builderVars
<1>3. requests \in Seq(Windows) /\ DOMAIN requests = 1..L /\ L \in Nat /\ i \in 1..L
  BY DEF DiscoveryInv
<1>4. IsFiniteSet(F)
  <2>1. IsFiniteSet(Pools) /\ F \in SUBSET Pools
    BY FactoryAssumption
  <2>2. QED BY <2>1, FS_Subset
<1>5. found \in Seq(F) /\ Range(found) = F /\ IsInjective(found)
  <2> HIDE DEF F
  <2>1. QED BY <1>1, <1>4, SetToSeqsAre
<1>6. found \in Seq(Pools)
  BY <1>5
<1>7. \A p \in F : p \notin Range(pools)
  BY <1>3 DEF DiscoveryInv
<1> HIDE DEF F
<1>8. /\ pools' \in Seq(Pools) /\ Range(pools') = Range(pools) \cup F /\ IsInjective(pools')
  <2>1. pools \in Seq(Pools) /\ IsInjective(pools)
    BY DEF BuildTypes, DiscoveryInv
  <2>2. QED BY <1>1, <1>5, <1>6, <1>7, <2>1, JoinIs
<1>9. /\ requests' \in Seq(Windows) /\ Len(requests') = L - 1
      /\ \A k \in 1..L - 1 : requests'[k] = requests[Before(k, i)] /\ Before(k, i) \in 1..L /\ Before(k, i) # i
      /\ \A k \in 1..L : k # i => \E j \in 1..L - 1 : k = Before(j, i) /\ requests'[j] = requests[k]
  <2>1. i \in 1..Len(requests)
    BY <1>3
  <2> HIDE DEF L
  <2>2. RemoveAt(requests, i) \in Seq(Windows) /\ Len(RemoveAt(requests, i)) = Len(requests) - 1
    BY <1>3, <2>1, RemoveAtIs
  <2>3. \A k \in 1..Len(requests) - 1 :
           RemoveAt(requests, i)[k] = requests[Before(k, i)] /\ Before(k, i) \in 1..Len(requests) /\ Before(k, i) # i
    BY <1>3, <2>1, RemoveAtIs
  <2>4. \A k \in 1..Len(requests) : k # i =>
           \E j \in 1..Len(requests) - 1 : k = Before(j, i) /\ RemoveAt(requests, i)[j] = requests[k]
    <3> TAKE k \in 1..Len(requests)
    <3> HAVE k # i
    <3>1. requests \in Seq(Windows)
      BY <1>3
    <3>2. \E j \in 1..Len(RemoveAt(requests, i)) : k = Before(j, i) /\ RemoveAt(requests, i)[j] = requests[k]
      BY ONLY <2>1, <3>1, k # i, k \in 1..Len(requests), RemoveAtKeeps
    <3>3. QED BY <2>2, <3>2
  <2>5. QED BY <1>2, <2>2, <2>3, <2>4 DEF L
<1>10. \A j, k \in 1..L - 1 : Before(j, i) = Before(k, i) => j = k
  <2>1. i \in 1..Len(requests)
    BY <1>3
  <2>2. QED BY <1>3, <2>1, RemoveAtIs
<1> HIDE DEF L
<1>11. \A k \in 1..L - 1 : requests'[k].to < latest_block
  BY <1>9 DEF DiscoveryInv, L
<1>12. ASSUME NEW j \in 1..L - 1, NEW k \in 1..L - 1, NEW b \in Nat,
              b \in requests'[j].from..requests'[j].to, b \in requests'[k].from..requests'[k].to
       PROVE  j = k
  <2>1. /\ Before(j, i) \in 1..L /\ Before(k, i) \in 1..L
        /\ b \in requests[Before(j, i)].from..requests[Before(j, i)].to /\ b \in requests[Before(k, i)].from..requests[Before(k, i)].to
    BY <1>9, <1>12
  <2>2. \A x, y \in 1..L : b \in requests[x].from..requests[x].to /\ b \in requests[y].from..requests[y].to => x = y
    BY <1>12 DEF DiscoveryInv, L
  <2>3. Before(j, i) = Before(k, i)
    BY <2>1, <2>2
  <2>4. QED BY <1>10, <2>3
<1>13. \A p \in Pools : created[p] \in Nat
  BY FactoryAssumption DEF BuildTypes
<1>14. ASSUME NEW p \in Range(pools')
       PROVE  created[p] < latest_block /\ \A k \in 1..L - 1 : created[p] \notin requests'[k].from..requests'[k].to
  <2>1. CASE p \in Range(pools)
    <3>1. created[p] < latest_block /\ \A k \in 1..L : created[p] \notin requests[k].from..requests[k].to
      BY <2>1 DEF DiscoveryInv, L
    <3>2. QED BY <1>9, <3>1
  <2>2. CASE p \in F
    <3>1. p \in Pools /\ created[p] \in requests[i].from..requests[i].to /\ created[p] \in Nat
      BY <1>13, <2>2 DEF F
    <3>2. requests[i].to \in Nat /\ requests[i].from \in Nat
      <4>1. requests[i] \in Windows
        BY <1>3
      <4>2. QED BY <4>1 DEF Windows
    <3>3. requests[i].to < latest_block /\ latest_block \in Nat
      <4>1. latest_block \in creation_block..block_number + 1 /\ block_number \in Nat /\ creation_block \in Nat
        BY FactoryAssumption DEF DiscoveryInv, BuildTypes
      <4>2. requests[i].to < latest_block
        BY <1>3 DEF DiscoveryInv, L
      <4>3. QED BY <4>1, <4>2
    <3>4. \A x \in 1..L : created[p] \in requests[x].from..requests[x].to => x = i
      BY <1>3, <3>1 DEF DiscoveryInv, L
    <3>5. \A k \in 1..L - 1 : created[p] \notin requests[Before(k, i)].from..requests[Before(k, i)].to
      BY <1>9, <3>4
    <3>6. \A k \in 1..L - 1 : created[p] \notin requests'[k].from..requests'[k].to
      BY <1>9, <3>5
    <3>7. QED BY <3>1, <3>2, <3>3, <3>6
  <2>3. QED BY <1>8, <2>1, <2>2
<1>15. ASSUME NEW p \in Pools, created[p] < latest_block
       PROVE  p \in Range(pools') \/ \E k \in 1..L - 1 : created[p] \in requests'[k].from..requests'[k].to
  <2>1. p \in Range(pools) \/ \E k \in 1..L : created[p] \in requests[k].from..requests[k].to
    BY <1>15 DEF DiscoveryInv, L
  <2>2. CASE p \in Range(pools)
    BY <1>8, <2>2
  <2>3. CASE \E k \in 1..L : created[p] \in requests[k].from..requests[k].to
    <3>1. PICK k \in 1..L : created[p] \in requests[k].from..requests[k].to
      BY <2>3
    <3>2. CASE k = i
      BY <1>8, <3>1, <3>2 DEF F
    <3>3. CASE k # i
      BY <1>9, <3>1, <3>3
    <3>4. QED BY <3>2, <3>3
  <2>4. QED BY <2>1, <2>2, <2>3
<1>16. WindowsEnd'
  BY <1>2 DEF DiscoveryInv, WindowsEnd, LastBlockMissed
<1>17. Range(pools)' = Range(pools') /\ IsInjective(pools)'
  BY <1>8 DEF Range, IsInjective
<1>18. DiscoveryInv'
  BY <1>2, <1>9, <1>11, <1>12, <1>14, <1>15, <1>16, <1>17 DEF DiscoveryInv
<1>19. BuildTypes'
  BY <1>2, <1>8 DEF BuildTypes
<1>20. QED BY <1>18, <1>19

-----------------------------------------------------------------------------
(* The filters.                                                             *)

\* What is said of a pool by the filters of a stage.
PassesAt(p, turn) == \A f \in filters : FilterStage(f) = turn => Keeps(f, p)

\* The filters of a stage keep the pools they let pass.
LEMMA PassingIs ==
    ASSUME NEW s \in Seq(Pools), NEW turn
    PROVE  Passing(s, turn) \in Seq(Pools) /\ Range(Passing(s, turn)) = {p \in Range(s) : PassesAt(p, turn)}
<1> DEFINE S == {p \in Range(s) : \A f \in filters : FilterStage(f) = turn => Keeps(f, p)}
<1>1. Passing(s, turn) = Sift(s, S)
  BY DEF Passing, Filter
<1>2. S = {p \in Range(s) : PassesAt(p, turn)} /\ S \subseteq Range(s)
  BY DEF PassesAt
<1> HIDE DEF S
<1>3. Sift(s, S) \in Seq(Pools) /\ Range(Sift(s, S)) = Range(s) \cap S
  BY SiftIs
<1>4. QED BY <1>1, <1>2, <1>3

\* A pool that passes in both stages passes.
LEMMA BothStages ==
    ASSUME NEW p
    PROVE  (\A f \in filters : Keeps(f, p)) <=> PassesAt(p, "Discovery") /\ PassesAt(p, "Sync")
<1>1. \A f \in filters : FilterStage(f) \in {"Discovery", "Sync"}
  BY DEF FilterStage
<1>2. QED BY <1>1 DEF PassesAt

-----------------------------------------------------------------------------
(* From the discovered pools to the state space.                            *)

\* The pools that discovery and the caller's list account for.
Known(p) ==
    \/ created[p] < block_number
    \/ ~LastBlockMissed
    \/ p \in amms \ fresh

\* Those of them the task of the factory goes on with.
Chosen == {p \in Pools : Known(p) /\ PassesAt(p, "Discovery")}

\* The phases of discovery, of reading the pools found, and of what comes then.
Discovering == {"windows", "logs", "found"}
Reading == {"bitmaps", "words", "ticks", "data", "done"}
Merging == {"merged", "built"}

\* The pools of the task: those chosen, and then the live ones among them.
PoolsInv ==
    /\ phase = "found" => Range(pools) = Chosen
    /\ phase \in Reading \cup Merging =>
          /\ Range(pools) = {p \in Pools : initialized[p] # {}}
          /\ Range(pools) \subseteq Chosen

\* Nothing is in the state space before the task returns; then its pools that
\* pass are, and those without a factory inited so far.
StateInv ==
    /\ phase \in Discovering \cup Reading => state = {} /\ remaining = Others
    /\ phase \in Merging =>
          /\ remaining \subseteq Others
          /\ state = {p \in Range(pools) : PassesAt(p, "Sync")} \cup (Others \ remaining)
    /\ phase = "built" => remaining = {}

\* The invariant of the builder.
BuilderInv ==
    /\ BuildTypes
    /\ phase \in {"windows", "logs"} => DiscoveryInv
    /\ PoolsInv
    /\ StateInv

\* It holds at first.
LEMMA BuilderInits == BuilderInit => BuilderInv
<1> SUFFICES ASSUME BuilderInit PROVE BuilderInv
  OBVIOUS
<1>1. phase = "windows" /\ state = {} /\ remaining = Others
  BY DEF BuilderInit, FactoryInit
<1>2. PoolsInv
  BY <1>1 DEF PoolsInv, Reading, Merging
<1>3. StateInv
  BY <1>1 DEF StateInv, Merging
<1>4. QED BY <1>2, <1>3, DiscoveryInits DEF BuilderInv

\* A step that leaves the pools alone keeps it.
LEMMA QuietReading ==
    ASSUME BuilderInv, UNCHANGED <<chainVars, pools, builderVars>>,
           phase' \in {"failed", "reverted"} \/ (phase \in Reading /\ phase' \in Reading)
    PROVE  BuilderInv'
<1>1. /\ block_number' = block_number /\ created' = created /\ initialized' = initialized
      /\ pools' = pools /\ filters' = filters /\ amms' = amms /\ fresh' = fresh
      /\ remaining' = remaining /\ state' = state
  BY DEF chainVars, builderVars
<1>2. BuildTypes'
  BY <1>1 DEF BuilderInv, BuildTypes
<1>3. Chosen' = Chosen /\ Range(pools)' = Range(pools)
  BY <1>1 DEF Chosen, Known, LastBlockMissed, PassesAt
<1>4. phase' \notin {"windows", "logs", "found"} \cup Merging /\ (phase' \in Reading => phase \in Reading)
  BY DEF Reading, Merging
<1>5. PoolsInv'
  BY <1>1, <1>3, <1>4 DEF BuilderInv, PoolsInv
<1>6. StateInv'
  BY <1>1, <1>4 DEF BuilderInv, StateInv, Discovering, Merging
<1>7. QED BY <1>2, <1>4, <1>5, <1>6 DEF BuilderInv

\* A step of get_all_pools keeps it.
LEMMA DiscoverKeeps ==
    ASSUME BuilderInv, Discover, UNCHANGED builderVars
    PROVE  BuilderInv'
<1>1. phase \in {"windows", "logs"} /\ phase' \in {"windows", "logs"}
  BY DEF Discover, Window, LastWindow, WindowLogs
<1>2. BuildTypes /\ DiscoveryInv
  BY <1>1 DEF BuilderInv
<1>3. DiscoveryInv' /\ BuildTypes'
  <2>1. CASE Window
    <3>1. DiscoveryInv'
      BY <1>2, <2>1, WindowKeeps
    <3>2. BuildTypes'
      BY <1>2, <2>1 DEF Window, chainVars, builderVars, BuildTypes
    <3>3. QED BY <3>1, <3>2
  <2>2. CASE LastWindow
    <3>1. /\ ~(latest_block < block_number) /\ block_number' = block_number /\ created' = created
          /\ latest_block' = latest_block /\ requests' = requests /\ pools' = pools
          /\ filters' = filters /\ amms' = amms /\ fresh' = fresh
      BY <2>2 DEF LastWindow, chainVars, builderVars
    <3>2. BuildTypes'
      BY <1>2, <3>1 DEF BuildTypes
    <3>3. latest_block >= block_number
      BY <1>2, <3>1, FactoryAssumption DEF BuildTypes, DiscoveryInv
    <3>4. WindowsEnd'
      BY <1>2, <3>1 DEF DiscoveryInv, WindowsEnd, LastBlockMissed
    <3>5. DiscoveryInv'
      BY <1>2, <3>1, <3>3, <3>4 DEF DiscoveryInv
    <3>6. QED BY <3>2, <3>5
  <2>3. CASE \E i \in DOMAIN requests : WindowLogs(i)
    <3>1. PICK i \in DOMAIN requests : WindowLogs(i)
      BY <2>3
    <3>2. QED BY <1>2, <3>1, WindowLogsKeeps
  <2>4. QED BY <2>1, <2>2, <2>3 DEF Discover
<1>4. PoolsInv'
  BY <1>1 DEF PoolsInv, Reading, Merging
<1>5. StateInv'
  BY <1>1 DEF BuilderInv, StateInv, Discovering, Merging, builderVars
<1>6. QED BY <1>3, <1>4, <1>5 DEF BuilderInv

\* When the last window is answered every pool is found that a window had.
LEMMA AllFound ==
    ASSUME BuildTypes, DiscoveryInv, phase = "logs", requests = <<>>
    PROVE  Range(pools) = {p \in Pools : created[p] < block_number \/ ~LastBlockMissed}
<1>1. /\ creation_block \in Nat /\ sync_step \in Nat /\ block_number \in Nat
      /\ latest_block \in creation_block..block_number + 1 /\ latest_block >= block_number
      /\ created \in [Pools -> creation_block..block_number]
  BY FactoryAssumption DEF BuildTypes, DiscoveryInv
<1>2. Range(pools) = {p \in Pools : created[p] < latest_block}
  <2>1. \A p \in Range(pools) : p \in Pools
    BY DEF BuildTypes, Range
  <2>2. 1..Len(requests) = {}
    OBVIOUS
  <2>3. \A p \in Range(pools) : created[p] < latest_block
    BY DEF DiscoveryInv
  <2>4. \A p \in Pools : created[p] < latest_block => p \in Range(pools)
    BY <2>2 DEF DiscoveryInv
  <2>5. QED BY <2>1, <2>3, <2>4
<1>3. CASE latest_block = block_number + 1 /\ ~LastBlockMissed
  <2>1. \A p \in Pools : created[p] < latest_block
    BY <1>1, <1>3
  <2>2. QED BY <1>2, <1>3, <2>1
<1>4. CASE latest_block <= block_number /\ \E k \in Nat : latest_block = creation_block + (sync_step + 1) * k
  <2> DEFINE m == sync_step + 1
  <2>1. m \in Nat \ {0} /\ latest_block = block_number
    BY <1>1, <1>4
  <2>2. PICK k \in Nat : block_number = creation_block + m * k
    BY <1>4, <2>1
  <2>3. m * k \in Nat
    BY <2>1
  <2>4. block_number - creation_block = m * k + 0
    BY <1>1, <2>2, <2>3
  <2> HIDE DEF m
  <2>5. (m * k + 0) % m = 0
    <3>1. 0 \in 0..m - 1
      BY <2>1
    <3>2. QED BY <2>1, <3>1, Residue
  <2>6. LastBlockMissed
    BY <2>4, <2>5 DEF LastBlockMissed, m
  <2>7. QED BY <1>2, <2>1, <2>6
<1>5. QED BY <1>3, <1>4 DEF DiscoveryInv, WindowsEnd

\* The pools listed by hand join those discovered.
LEMMA ExtendKeeps ==
    ASSUME BuilderInv, Extend
    PROVE  BuilderInv'
<1> DEFINE mine == SetToSeq(amms \ fresh)
<1>1. /\ phase = "logs" /\ requests = <<>> /\ phase' = "found"
      /\ pools' = Passing(pools \o mine, "Discovery")
      /\ block_number' = block_number /\ created' = created
      /\ filters' = filters /\ amms' = amms /\ fresh' = fresh /\ remaining' = remaining /\ state' = state
  BY DEF Extend, chainVars, builderVars
<1>2. BuildTypes /\ DiscoveryInv
  BY <1>1 DEF BuilderInv
<1>3. amms \ fresh \in SUBSET Pools /\ IsFiniteSet(amms \ fresh)
  <2>1. IsFiniteSet(Pools) /\ amms \ fresh \in SUBSET Pools
    BY <1>2, FactoryAssumption, BuilderAssumption DEF BuildTypes
  <2>2. QED BY <2>1, FS_Subset
<1>4. mine \in Seq(amms \ fresh) /\ Range(mine) = amms \ fresh
  BY <1>3, SetToSeqIs
<1>5. mine \in Seq(Pools)
  BY <1>3, <1>4
<1> HIDE DEF mine
<1>6. pools \o mine \in Seq(Pools) /\ Range(pools \o mine) = Range(pools) \cup (amms \ fresh)
  <2>1. pools \in Seq(Pools)
    BY <1>2 DEF BuildTypes
  <2>2. QED BY <1>4, <1>5, <2>1, RangeJoin
<1>7. pools' \in Seq(Pools) /\ Range(pools') = {p \in Range(pools) \cup (amms \ fresh) : PassesAt(p, "Discovery")}
  BY <1>1, <1>6, PassingIs
<1>8. Range(pools) = {p \in Pools : created[p] < block_number \/ ~LastBlockMissed}
  BY <1>1, <1>2, AllFound
<1>9. Range(pools') = Chosen
  BY <1>3, <1>7, <1>8 DEF Chosen, Known
<1>10. Chosen' = Chosen /\ Range(pools)' = Range(pools')
  BY <1>1 DEF Chosen, Known, LastBlockMissed, PassesAt, Range
<1>11. BuildTypes'
  BY <1>1, <1>2, <1>7 DEF BuildTypes
<1>12. PoolsInv'
  BY <1>1, <1>9, <1>10 DEF PoolsInv, Reading, Merging
<1>13. StateInv'
  BY <1>1 DEF BuilderInv, StateInv, Discovering, Merging
<1>14. QED BY <1>1, <1>11, <1>12, <1>13 DEF BuilderInv

\* Only live pools are gone on with.
LEMMA ReadPoolsKeeps ==
    ASSUME BuilderInv, ReadPools, UNCHANGED builderVars
    PROVE  BuilderInv'
<1>1. /\ phase = "found" /\ phase' = "bitmaps" /\ block_number' = block_number /\ created' = created
      /\ filters' = filters /\ amms' = amms /\ fresh' = fresh /\ remaining' = remaining /\ state' = state
  BY DEF ReadPools, builderVars
<1> DEFINE H == UNION {kSubset(n, UNION {TicksOf(p) : p \in Pools}) : n \in 2..MaxInitialized}
<1>2. PICK live \in SUBSET Range(pools) :
          /\ \E held \in [live -> H] :
                initialized' = [p \in Pools |-> IF p \in live THEN held[p] ELSE {}]
          /\ pools' = Sift(pools, live)
  BY DEF ReadPools
<1>3. PICK held \in [live -> H] : initialized' = [p \in Pools |-> IF p \in live THEN held[p] ELSE {}]
  BY <1>2
<1>4. \A h \in H : h # {}
  <2>1. ASSUME NEW n \in 2..MaxInitialized, NEW h \in kSubset(n, UNION {TicksOf(p) : p \in Pools})
        PROVE  h # {}
    <3>1. Cardinality(h) = n
      BY DEF kSubset
    <3>2. Cardinality({}) = 0
      BY FS_EmptySet
    <3>3. n # 0
      OBVIOUS
    <3>4. QED BY <3>1, <3>2, <3>3
  <2>2. QED BY <2>1
<1> HIDE DEF H
<1>5. BuildTypes /\ pools \in Seq(Pools) /\ Range(pools) = Chosen
  BY <1>1 DEF BuilderInv, PoolsInv, BuildTypes
<1>6. pools' \in Seq(Pools) /\ Range(pools') = live
  <2>1. Range(pools) \cap live = live
    BY <1>2
  <2>2. QED BY <1>2, <1>5, <2>1, SiftIs
<1>7. live \subseteq Chosen /\ live \subseteq Pools
  BY <1>2, <1>5 DEF Chosen
<1>8. live = {p \in Pools : initialized'[p] # {}}
  <2>1. \A p \in live : initialized'[p] = held[p] /\ held[p] # {}
    BY <1>3, <1>4, <1>7
  <2>2. \A p \in Pools : p \notin live => initialized'[p] = {}
    BY <1>3
  <2>3. QED BY <1>7, <2>1, <2>2
<1>9. Chosen' = Chosen /\ Range(pools)' = Range(pools')
  BY <1>1 DEF Chosen, Known, LastBlockMissed, PassesAt, Range
<1>10. BuildTypes'
  BY <1>1, <1>5, <1>6 DEF BuildTypes
<1>11. PoolsInv'
  BY <1>1, <1>6, <1>7, <1>8, <1>9 DEF PoolsInv
<1>12. StateInv'
  BY <1>1 DEF BuilderInv, StateInv, Discovering, Reading, Merging
<1>13. QED BY <1>1, <1>10, <1>11, <1>12 DEF BuilderInv

\* The pools read are inserted.
LEMMA MergeKeeps ==
    ASSUME BuilderInv, Merge
    PROVE  BuilderInv'
<1>1. /\ phase = "done" /\ phase' = "merged" /\ state' = state \cup Range(Passing(pools, "Sync"))
      /\ block_number' = block_number /\ created' = created /\ initialized' = initialized /\ pools' = pools
      /\ filters' = filters /\ amms' = amms /\ fresh' = fresh /\ remaining' = remaining
  BY DEF Merge, chainVars
<1>2. BuildTypes /\ pools \in Seq(Pools) /\ state = {} /\ remaining = Others
  BY <1>1 DEF BuilderInv, BuildTypes, StateInv, Reading
<1>3. Range(Passing(pools, "Sync")) = {p \in Range(pools) : PassesAt(p, "Sync")}
  BY <1>2, PassingIs
<1>4. Chosen' = Chosen /\ Range(pools)' = Range(pools)
  BY <1>1 DEF Chosen, Known, LastBlockMissed, PassesAt
<1>5. BuildTypes'
  BY <1>1, <1>2 DEF BuildTypes
<1>6. PoolsInv'
  BY <1>1, <1>4 DEF BuilderInv, PoolsInv, Reading
<1>7. StateInv'
  <2>1. \A p : PassesAt(p, "Sync")' <=> PassesAt(p, "Sync")
    BY <1>1 DEF PassesAt
  <2>2. state' = {p \in Range(pools) : PassesAt(p, "Sync")} \cup (Others \ remaining')
    BY <1>1, <1>2, <1>3
  <2>3. phase' \notin Discovering \cup Reading
    BY <1>1 DEF Discovering, Reading
  <2>4. QED BY <1>1, <1>2, <1>4, <2>1, <2>2, <2>3 DEF StateInv
<1>8. QED BY <1>1, <1>5, <1>6, <1>7 DEF BuilderInv

\* The pools without a factory come one by one, and all before the end.
LEMMA InitOneKeeps ==
    ASSUME BuilderInv, (\E p \in Others : InitOne(p)) \/ Built
    PROVE  BuilderInv'
<1>1. /\ phase = "merged" /\ phase' \in Merging
      /\ block_number' = block_number /\ created' = created /\ initialized' = initialized /\ pools' = pools
      /\ filters' = filters /\ amms' = amms /\ fresh' = fresh
  BY DEF InitOne, Built, factoryVars, chainVars, builderVars, Merging
<1>2. Chosen' = Chosen /\ Range(pools)' = Range(pools) /\ \A p : PassesAt(p, "Sync")' <=> PassesAt(p, "Sync")
  BY <1>1 DEF Chosen, Known, LastBlockMissed, PassesAt
<1>3. BuildTypes'
  BY <1>1 DEF BuilderInv, BuildTypes
<1>4. PoolsInv'
  BY <1>1, <1>2 DEF BuilderInv, PoolsInv, Merging
<1>5. remaining \subseteq Others /\ state = {p \in Range(pools) : PassesAt(p, "Sync")} \cup (Others \ remaining)
  BY <1>1 DEF BuilderInv, StateInv, Merging
<1>6. /\ remaining' \subseteq Others
      /\ state' = {p \in Range(pools) : PassesAt(p, "Sync")} \cup (Others \ remaining')
      /\ phase' = "built" => remaining' = {}
  <2>1. CASE \E p \in Others : InitOne(p)
    <3>1. PICK p \in Others : InitOne(p)
      BY <2>1
    <3>2. phase' = "merged" /\ remaining' = remaining \ {p} /\ state' = state \cup {p}
      BY <1>1, <3>1 DEF InitOne, factoryVars
    <3>3. QED BY <1>5, <3>2
  <2>2. CASE Built
    <3>1. remaining = {} /\ remaining' = remaining /\ state' = state
      BY <2>2 DEF Built, builderVars
    <3>2. QED BY <1>5, <3>1
  <2>3. QED BY <2>1, <2>2
<1>7. StateInv'
  <2>1. phase' \notin Discovering \cup Reading
    BY <1>1 DEF Discovering, Reading, Merging
  <2>2. QED BY <1>2, <1>6, <2>1 DEF StateInv
<1>8. phase' \notin {"windows", "logs"}
  BY <1>1 DEF Merging
<1>9. QED BY <1>3, <1>4, <1>7, <1>8 DEF BuilderInv

\* The steps that read the pools' ticks leave the pools alone.
LEMMA SyncQuiet ==
    ASSUME Sync, ~ReadPools
    PROVE  /\ UNCHANGED <<chainVars, pools>>
           /\ phase' = "reverted" \/ (phase \in Reading /\ phase' \in Reading)
<1>1. CASE GroupWords
  BY <1>1 DEF GroupWords, Reading
<1>2. CASE NextPoolWords
  BY <1>2 DEF NextPoolWords, Reading
<1>3. CASE FlushWords
  BY <1>3 DEF FlushWords, FlushTo, Reading
<1>4. CASE \E i \in DOMAIN requests : WordsAnswer(i) \/ WordsRevert(i)
  <2>1. PICK i \in DOMAIN requests : WordsAnswer(i) \/ WordsRevert(i)
    BY <1>4
  <2>2. CASE WordsAnswer(i)
    BY <2>2 DEF WordsAnswer, Reading
  <2>3. CASE WordsRevert(i)
    BY <2>3 DEF WordsRevert, Reading
  <2>4. QED BY <2>1, <2>2, <2>3
<1>5. CASE WordsRead
  BY <1>5 DEF WordsRead, Reading
<1>6. CASE GroupTicks
  BY <1>6 DEF GroupTicks, Reading
<1>7. CASE NextPoolTicks
  BY <1>7 DEF NextPoolTicks, Reading
<1>8. CASE FlushTicks
  BY <1>8 DEF FlushTicks, FlushTo, Reading
<1>9. CASE \E i \in DOMAIN requests : TicksAnswer(i)
  BY <1>9 DEF TicksAnswer, Reading
<1>10. CASE TicksRead
  BY <1>10 DEF TicksRead, Reading
<1>11. QED BY <1>1, <1>2, <1>3, <1>4, <1>5, <1>6, <1>7, <1>8, <1>9, <1>10 DEF Sync

\* Every step keeps the invariant.
LEMMA BuilderNexts ==
    ASSUME BuilderInv, [BuilderNext]_allVars
    PROVE  BuilderInv'
<1>1. CASE Discover /\ UNCHANGED builderVars
  BY <1>1, DiscoverKeeps
<1>2. CASE Sync /\ UNCHANGED builderVars
  <2>1. CASE ReadPools
    BY <1>2, <2>1, ReadPoolsKeeps
  <2>2. CASE ~ReadPools
    <3>1. UNCHANGED <<chainVars, pools>> /\ (phase' = "reverted" \/ (phase \in Reading /\ phase' \in Reading))
      BY <1>2, <2>2, SyncQuiet
    <3>2. UNCHANGED <<chainVars, pools, builderVars>>
      BY <1>2, <3>1
    <3>3. QED BY <3>1, <3>2, QuietReading
  <2>3. QED BY <2>1, <2>2
<1>3. CASE NodeFails /\ UNCHANGED builderVars
  <2>1. UNCHANGED <<chainVars, pools, builderVars>> /\ phase' \in {"failed", "reverted"}
    BY <1>3 DEF NodeFails
  <2>2. QED BY <2>1, QuietReading
<1>4. CASE Extend
  BY <1>4, ExtendKeeps
<1>5. CASE Merge
  BY <1>5, MergeKeeps
<1>6. CASE (\E p \in Others : InitOne(p)) \/ Built
  BY <1>6, InitOneKeeps
<1>7. CASE InitFails
  <2>1. UNCHANGED <<chainVars, pools, builderVars>> /\ phase' \in {"failed", "reverted"}
    BY <1>7 DEF InitFails
  <2>2. QED BY <2>1, QuietReading
<1>8. CASE UNCHANGED allVars
  <2>1. /\ block_number' = block_number /\ created' = created /\ initialized' = initialized
        /\ pools' = pools /\ filters' = filters /\ amms' = amms /\ fresh' = fresh
        /\ remaining' = remaining /\ state' = state /\ phase' = phase
        /\ latest_block' = latest_block /\ requests' = requests
    BY <1>8 DEF allVars, factoryVars, chainVars, builderVars
  <2>2. BuildTypes'
    BY <2>1 DEF BuilderInv, BuildTypes
  <2>3. phase' \in {"windows", "logs"} => DiscoveryInv'
    <3>1. WindowsEnd <=> WindowsEnd'
      BY <2>1 DEF WindowsEnd, LastBlockMissed
    <3>2. QED BY <2>1, <3>1 DEF BuilderInv, DiscoveryInv
  <2>4. Chosen' = Chosen /\ \A p : PassesAt(p, "Sync")' <=> PassesAt(p, "Sync")
    BY <2>1 DEF Chosen, Known, LastBlockMissed, PassesAt
  <2>5. PoolsInv'
    BY <2>1, <2>4 DEF BuilderInv, PoolsInv
  <2>6. StateInv'
    BY <2>1, <2>4 DEF BuilderInv, StateInv
  <2>7. QED BY <2>2, <2>3, <2>5, <2>6 DEF BuilderInv
<1>9. QED BY <1>1, <1>2, <1>3, <1>4, <1>5, <1>6, <1>7, <1>8 DEF BuilderNext

\* The pools found are all but those of a last block that is missed, and no
\* pool is found twice.
LEMMA InvFindsPools == BuilderInv => PoolsFound
<1> SUFFICES ASSUME BuilderInv, phase = "logs", requests = <<>>
             PROVE  /\ Cardinality(Range(pools)) = Len(pools)
                    /\ \A p \in Pools : p \in Range(pools) \/ (created[p] = block_number /\ LastBlockMissed)
  BY DEF PoolsFound, LastBlockMissed
<1>1. BuildTypes /\ DiscoveryInv
  BY DEF BuilderInv
<1>2. Range(pools) = {p \in Pools : created[p] < block_number \/ ~LastBlockMissed}
  BY <1>1, AllFound
<1>3. \A p \in Pools : created[p] < block_number \/ created[p] = block_number
  BY <1>1, FactoryAssumption DEF BuildTypes
<1>4. Cardinality(Range(pools)) = Len(pools)
  <2>1. pools \in Seq(Pools) /\ IsInjective(pools) /\ Len(pools) \in Nat /\ DOMAIN pools = 1..Len(pools)
    BY <1>1 DEF BuildTypes, DiscoveryInv
  <2>2. pools \in Surjection(1..Len(pools), Range(pools)) /\ IsInjective(pools)
    BY <2>1 DEF Surjection, Range
  <2>3. pools \in Bijection(1..Len(pools), Range(pools))
    BY <2>1, <2>2 DEF Bijection, Injection, Surjection, IsInjective
  <2>4. ExistsBijection(1..Len(pools), Range(pools))
    <3> HIDE DEF BuilderInv
    <3>1. Bijection(1..Len(pools), Range(pools)) # {}
      BY <2>3
    <3>2. QED BY <3>1 DEF ExistsBijection
  <2>5. \A S : \A n \in Nat : ExistsBijection(1..n, S) => Cardinality(S) = n
    BY FS_CountingElements
  <2>6. QED BY <2>1, <2>4, <2>5
<1>5. QED BY <1>2, <1>3, <1>4

\* What is handed out is what was asked for.
LEMMA InvAdmits == BuilderInv => Admitted
<1> SUFFICES ASSUME BuilderInv, phase = "built"
             PROVE  state = Others \cup {p \in Pools : /\ Known(p) /\ initialized[p] # {}
                                                       /\ \A f \in filters : Keeps(f, p)}
  BY DEF Admitted, Known
<1>1. /\ Range(pools) = {p \in Pools : initialized[p] # {}} /\ Range(pools) \subseteq Chosen
      /\ state = {p \in Range(pools) : PassesAt(p, "Sync")} \cup Others
  BY DEF BuilderInv, PoolsInv, StateInv, Merging
<1>2. QED BY <1>1, BothStages DEF Chosen

\* UniswapV3Factory.PoolsFound, for any pools, blocks and length of windows:
\* get_all_pools finds each pool, and once, but for those of a last block the
\* windows end just short of.
THEOREM PoolsFoundHolds == BuilderSpec => []PoolsFound
<1>1. BuilderInv /\ [BuilderNext]_allVars => BuilderInv'
  BY BuilderNexts
<1>2. QED BY <1>1, BuilderInits, InvFindsPools, PTL DEF BuilderSpec

\* StateSpaceBuilder.Admitted, for any pools, filters and lists of the caller:
\* the state space handed out has exactly the live pools that pass every filter
\* of those discovered or listed, and all pools without a factory.
THEOREM AdmittedHolds == BuilderSpec => []Admitted
<1>1. BuilderInv /\ [BuilderNext]_allVars => BuilderInv'
  BY BuilderNexts
<1>2. QED BY <1>1, BuilderInits, InvAdmits, PTL DEF BuilderSpec

-----------------------------------------------------------------------------
(* The reading of the ticks.                                                *)

\* What is asked of a node in one part of a request.
WordCalls == [pool : Pools, minWord : Int, maxWord : Int]
TickCalls == [pool : Pools, ticks : Seq(Int)]

\* The parts of all requests not answered yet and of the one being filled.
CallsOf(sent, g) == (UNION {Range(sent[i]) : i \in DOMAIN sent}) \cup Range(g)
Calls == CallsOf(requests, group)

\* They ask for a word, or for a tick, of a pool.
WordAsked(p, w) == \E c \in Calls : c.pool = p /\ w \in c.minWord..c.maxWord
TickAsked(p, t) == \E c \in Calls : c.pool = p /\ t \in Range(c.ticks)

\* The words of a pool that are not lost.
Kept(p) == MinWord[p]..MaxWord[p] - LostWords(p)

\* What is known of a pool is in it, or was brought.
BitsInv ==
    \A p \in Pools :
        /\ initialized[p] \subseteq TicksOf(p) /\ brought[p] \subseteq TicksOf(p)
        /\ tick_bitmap[p] \subseteq initialized[p] \cup brought[p]
        /\ ticks[p] \subseteq tick_bitmap[p]

\* Nothing is read yet.
NothingRead == \A p \in Pools : tick_bitmap[p] \subseteq brought[p] /\ ticks[p] = {}

\* Word w of a pool has its bits, or is zero and has those it was brought with.
Settled(p, w) ==
    \/ \A t \in initialized[p] \cup tick_bitmap[p] :
          WordOf(t) = w => t \in initialized[p] /\ t \in tick_bitmap[p]
    \/ \A t \in initialized[p] : WordOf(t) # w

\* No request is being filled.
NoGroup == group = <<>> /\ group_size = 0

\* Of a pool, c requests have been cut so far.  Between two cuts of a pool a
\* whole request is filled, and at each cut the next one starts one word low.
CutAt(p, c) ==
    LET n == MaxWord[p] - MinWord[p]
    IN  /\ word_range \in 0..n
        /\ min_word = MinWord[p] + (n - word_range) - c
        /\ c = 0 => word_range = n
        /\ c > 0 =>
              /\ \A w \in MinWord[p]..min_word + 1 : WordAsked(p, w)
              /\ word_range > 0 => group_size = 0 /\ (c - 1) * max_range + 1 + word_range <= n
              /\ word_range = 0 => (c - 1) * max_range <= n + max_range - 2

\* The loop over the words.
WordLoopInv ==
    /\ BitsInv /\ NothingRead
    /\ requests \in Seq(Seq(WordCalls)) /\ group \in Seq(WordCalls)
    /\ group_size \in 0..max_range - 1
    /\ queue \in Seq(Pools)
    /\ queue # <<>> => \E c \in Nat : CutAt(queue[1], c)
    /\ \A p \in Range(pools) : p \in Range(queue) \/ \A w \in Kept(p) : WordAsked(p, w)

\* Each word that is not lost has been read, or is asked for.
WordsInv ==
    /\ BitsInv /\ NoGroup /\ \A p \in Pools : ticks[p] = {}
    /\ requests \in Seq(Seq(WordCalls))
    /\ \A p \in Range(pools) : \A w \in Kept(p) : Settled(p, w) \/ WordAsked(p, w)

\* Each word that is not lost has been read.
BitsRead == \A p \in Range(pools) : \A w \in Kept(p) : Settled(p, w)

\* Only ticks that were read are asked for.
CallsRead ==
    /\ requests \in Seq(Seq(TickCalls)) /\ group \in Seq(TickCalls)
    /\ \A c \in Calls : Range(c.ticks) \subseteq tick_bitmap[c.pool]

\* The loop over the ticks.
TickLoopInv ==
    /\ BitsInv /\ BitsRead /\ CallsRead
    /\ group_size \in 0..max_ticks - 1
    /\ queue \in Seq(Pools) /\ unread \in Seq(Int)
    /\ queue = <<>> => unread = <<>>
    /\ queue # <<>> => Range(unread) \subseteq tick_bitmap[queue[1]]
    /\ \A p \in Range(pools) : \A t \in tick_bitmap[p] :
          \/ TickAsked(p, t)
          \/ queue # <<>> /\ p = queue[1] /\ t \in Range(unread)
          \/ queue # <<>> /\ p \in Range(Tail(queue))

\* Each tick that was read has its data, or is asked for.
DataInv ==
    /\ BitsInv /\ BitsRead /\ CallsRead /\ NoGroup
    /\ \A p \in Range(pools) : \A t \in tick_bitmap[p] : t \in ticks[p] \/ TickAsked(p, t)

\* All of it has its data.
DoneInv ==
    /\ BitsInv /\ BitsRead
    /\ \A p \in Range(pools) : tick_bitmap[p] \subseteq ticks[p]

\* The invariant of sync_all_pools.
TicksInv ==
    /\ phase \in Discovering => BitsInv /\ NothingRead /\ NoGroup
    /\ phase = "found" => requests = <<>>
    /\ phase = "bitmaps" => WordLoopInv
    /\ phase = "words" => WordsInv
    /\ phase = "ticks" => TickLoopInv
    /\ phase = "data" => DataInv
    /\ phase = "done" => DoneInv

\* A part is added to the request being filled.
LEMMA CallsPush ==
    ASSUME NEW T, NEW sent, NEW g \in Seq(T), NEW x \in T
    PROVE  Append(g, x) \in Seq(T) /\ CallsOf(sent, Append(g, x)) = CallsOf(sent, g) \cup {x}
<1>1. /\ Append(g, x) \in Seq(T) /\ DOMAIN Append(g, x) = 1..Len(g) + 1 /\ DOMAIN g = 1..Len(g) /\ Len(g) \in Nat
      /\ Append(g, x)[Len(g) + 1] = x /\ \A i \in 1..Len(g) : Append(g, x)[i] = g[i]
  OBVIOUS
<1> DEFINE h == Append(g, x)
           L == Len(g)
<1> HIDE DEF h, L
<1>2. DOMAIN h = 1..L + 1 /\ DOMAIN g = 1..L /\ L \in Nat /\ h[L + 1] = x /\ \A i \in 1..L : h[i] = g[i]
  BY <1>1 DEF h, L
<1>3. Range(h) = Range(g) \cup {x}
  <2>1. \A i \in 1..L + 1 : i \in 1..L \/ i = L + 1
    BY <1>2
  <2>2. \A y \in Range(h) : y \in Range(g) \cup {x}
    BY <1>2, <2>1 DEF Range
  <2>3. \A i \in 1..L : i \in 1..L + 1 /\ L + 1 \in 1..L + 1
    BY <1>2
  <2>4. L + 1 \in 1..L + 1
    BY <1>2
  <2>5. \A y \in Range(g) \cup {x} : y \in Range(h)
    BY <1>2, <2>3, <2>4 DEF Range
  <2>6. QED BY <2>2, <2>5
<1>4. h \in Seq(T)
  BY <1>1 DEF h
<1>5. CallsOf(sent, h) = CallsOf(sent, g) \cup {x}
  BY <1>3 DEF CallsOf
<1>6. QED BY <1>4, <1>5 DEF h

\* The request being filled is sent.
LEMMA CallsSend ==
    ASSUME NEW G, NEW sent \in Seq(G), NEW g \in G
    PROVE  Append(sent, g) \in Seq(G) /\ CallsOf(Append(sent, g), <<>>) = CallsOf(sent, g)
<1> DEFINE h == Append(sent, g)
           L == Len(sent)
<1>1. /\ h \in Seq(G) /\ DOMAIN h = 1..L + 1 /\ DOMAIN sent = 1..L /\ L \in Nat
      /\ h[L + 1] = g /\ \A i \in 1..L : h[i] = sent[i]
  OBVIOUS
<1> HIDE DEF h, L
<1>2. Range(<<>>) = {}
  BY DEF Range
<1>3. \A y : y \in CallsOf(h, <<>>) <=> \E i \in 1..L + 1 : y \in Range(h[i])
  BY <1>1, <1>2 DEF CallsOf
<1>4. \A y : y \in CallsOf(sent, g) <=> (\E i \in 1..L : y \in Range(sent[i])) \/ y \in Range(g)
  BY <1>1 DEF CallsOf
<1>5. \A i \in 1..L + 1 : i \in 1..L \/ i = L + 1
  BY <1>1
<1>6. \A i \in 1..L : i \in 1..L + 1
  BY <1>1
<1>7. L + 1 \in 1..L + 1
  BY <1>1
<1>8. ASSUME NEW y PROVE y \in CallsOf(h, <<>>) <=> y \in CallsOf(sent, g)
  BY <1>1, <1>3, <1>4, <1>5, <1>6, <1>7
<1>9. CallsOf(h, <<>>) = CallsOf(sent, g)
  BY <1>8
<1>10. QED BY <1>1, <1>9 DEF h

\* A request is answered.
LEMMA CallsAnswered ==
    ASSUME NEW G, NEW sent \in Seq(G), NEW i \in DOMAIN sent, NEW g
    PROVE  /\ RemoveAt(sent, i) \in Seq(G)
           /\ CallsOf(sent, g) = Range(sent[i]) \cup CallsOf(RemoveAt(sent, i), g)
<1> DEFINE h == RemoveAt(sent, i)
           L == Len(sent)
<1>1. DOMAIN sent = 1..L /\ L \in Nat /\ i \in 1..L /\ i \in 1..Len(sent)
  OBVIOUS
<1>2. h \in Seq(G) /\ Len(h) = L - 1
  BY <1>1, RemoveAtIs
<1>3. \A k \in 1..L - 1 : h[k] = sent[Before(k, i)] /\ Before(k, i) \in 1..L
  <2>1. i \in 1..Len(sent)
    OBVIOUS
  <2> HIDE DEF L, h
  <2>2. \A k \in 1..Len(sent) - 1 : RemoveAt(sent, i)[k] = sent[Before(k, i)] /\ Before(k, i) \in 1..Len(sent) /\ Before(k, i) # i
    BY <2>1, RemoveAtIs
  <2>3. QED BY <2>2 DEF L, h
<1>4. ASSUME NEW k \in 1..L, k # i PROVE \E j \in 1..L - 1 : h[j] = sent[k]
  <2>1. \E j \in 1..Len(h) : k = Before(j, i) /\ h[j] = sent[k]
    BY ONLY <1>1, k \in 1..L, k # i, sent \in Seq(G), RemoveAtKeeps
  <2>2. QED BY <1>2, <2>1
<1> HIDE DEF h, L
<1>5. DOMAIN h = 1..L - 1
  BY <1>2
<1>6. \A y : y \in CallsOf(h, g) <=> (\E k \in 1..L - 1 : y \in Range(h[k])) \/ y \in Range(g)
  BY <1>5 DEF CallsOf
<1>7. \A y : y \in CallsOf(sent, g) <=> (\E k \in 1..L : y \in Range(sent[k])) \/ y \in Range(g)
  BY <1>1 DEF CallsOf
<1>8. ASSUME NEW y \in CallsOf(sent, g) PROVE y \in Range(sent[i]) \cup CallsOf(h, g)
  <2>1. CASE y \in Range(g)
    BY <1>6, <2>1
  <2>2. CASE \E k \in 1..L : y \in Range(sent[k])
    <3>1. PICK k \in 1..L : y \in Range(sent[k])
      BY <2>2
    <3>2. CASE k = i
      BY <3>1, <3>2
    <3>3. CASE k # i
      BY <1>4, <1>6, <3>1, <3>3
    <3>4. QED BY <3>2, <3>3
  <2>3. QED BY <1>7, <2>1, <2>2
<1>9. ASSUME NEW y \in Range(sent[i]) \cup CallsOf(h, g) PROVE y \in CallsOf(sent, g)
  BY <1>1, <1>3, <1>6, <1>7
<1>10. CallsOf(sent, g) = Range(sent[i]) \cup CallsOf(h, g)
  BY <1>8, <1>9
<1>11. QED BY <1>2, <1>10 DEF h

\* A part is added, and the request sent if it is full.
LEMMA SendKeeps ==
    ASSUME NEW T, requests \in Seq(Seq(T)), group \in Seq(T), NEW x \in T, NEW size, NEW limit,
           SendFull(Append(group, x), size, limit)
    PROVE  /\ requests' \in Seq(Seq(T)) /\ group' \in Seq(T) /\ Calls' = Calls \cup {x}
           /\ group_size' = IF size >= limit THEN 0 ELSE size
<1> DEFINE g == Append(group, x)
           G == Seq(T)
<1>1. g \in G /\ CallsOf(requests, g) = Calls \cup {x}
  <2> HIDE DEF g, G
  <2>1. Append(group, x) \in Seq(T)
    BY CallsPush
  <2>2. CallsOf(requests, Append(group, x)) = CallsOf(requests, group) \cup {x}
    <3>1. ASSUME NEW sent, NEW h \in Seq(T), NEW y \in T
          PROVE  CallsOf(sent, Append(h, y)) = CallsOf(sent, h) \cup {y}
      BY ONLY h \in Seq(T), y \in T, CallsPush
    <3>2. QED BY ONLY <3>1, group \in Seq(T), x \in T
  <2>3. QED BY <2>1, <2>2 DEF Calls, g, G
<1>2. <<>> \in G /\ requests \in Seq(G)
  OBVIOUS
<1>3. CASE size >= limit
  <2>1. requests' = Append(requests, g) /\ group' = <<>> /\ group_size' = 0
    BY <1>3 DEF SendFull
  <2> HIDE DEF g, G
  <2>2. Append(requests, g) \in Seq(G) /\ CallsOf(Append(requests, g), <<>>) = CallsOf(requests, g)
    BY <1>1, <1>2, CallsSend
  <2>3. Calls' = CallsOf(Append(requests, g), <<>>)
    BY <2>1 DEF Calls
  <2>4. QED BY <1>1, <1>2, <1>3, <2>1, <2>2, <2>3 DEF G
<1>4. CASE ~(size >= limit)
  <2>1. requests' = requests /\ group' = g /\ group_size' = size
    BY <1>4 DEF SendFull
  <2> HIDE DEF g, G
  <2>2. Calls' = CallsOf(requests, g)
    BY <2>1 DEF Calls
  <2>3. QED BY <1>1, <1>2, <1>4, <2>1, <2>2 DEF G
<1>5. QED BY <1>3, <1>4

\* What is left is sent.
LEMMA FlushKeeps ==
    ASSUME NEW T, requests \in Seq(Seq(T)), group \in Seq(T), NEW next, FlushTo(next)
    PROVE  requests' \in Seq(Seq(T)) /\ group' = <<>> /\ group_size' = 0 /\ Calls' = Calls
<1> DEFINE G == Seq(T)
<1>1. requests \in Seq(G) /\ group \in G
  OBVIOUS
<1>2. group' = <<>> /\ group_size' = 0 /\ requests' = IF group = <<>> THEN requests ELSE Append(requests, group)
  BY DEF FlushTo
<1> HIDE DEF G
<1>3. CASE group = <<>>
  <2>1. Calls' = Calls
    BY <1>2, <1>3 DEF Calls
  <2>2. QED BY <1>1, <1>2, <1>3, <2>1 DEF G
<1>4. CASE group # <<>>
  <2>1. Append(requests, group) \in Seq(G) /\ CallsOf(Append(requests, group), <<>>) = CallsOf(requests, group)
    BY <1>1, CallsSend
  <2>2. Calls' = Calls
    BY <1>2, <1>4, <2>1 DEF Calls
  <2>3. QED BY <1>2, <1>4, <2>1, <2>2 DEF G
<1>5. QED BY <1>3, <1>4

\* A request is answered.
LEMMA AnswerKeeps ==
    ASSUME NEW G, requests \in Seq(G), NEW i \in DOMAIN requests, requests' = RemoveAt(requests, i), group' = group
    PROVE  requests' \in Seq(G) /\ Calls = Range(requests[i]) \cup Calls'
<1>1. RemoveAt(requests, i) \in Seq(G) /\ CallsOf(requests, group) = Range(requests[i]) \cup CallsOf(RemoveAt(requests, i), group)
  BY CallsAnswered
<1>2. QED BY <1>1 DEF Calls

\* A word of a pool's ticks is one of its words.
LEMMA WordInPool ==
    ASSUME NEW p \in Pools, NEW t \in TicksOf(p)
    PROVE  WordOf(t) \in Int /\ WordOf(t) >= MinWord[p]
<1> DEFINE B == WordBits
           M == MinWord[p]
           q == t \div B
           r == t % B
<1>1. B \in Nat \ {0} /\ M \in Int
  BY FactoryAssumption
<1>2. B * M \in Int /\ t \in Int /\ t >= B * M
  BY FactoryAssumption DEF TicksOf
<1> HIDE DEF B, M
<1>3. q \in Int /\ r \in 0..B - 1 /\ t = B * q + r
  BY <1>1, <1>2
<1> HIDE DEF q, r
<1>4. ASSUME q < M PROVE FALSE
  <2>1. q + 1 <= M
    BY <1>1, <1>3, <1>4
  <2>2. B * (q + 1) <= B * M
    BY <1>1, <1>3, <2>1
  <2>3. B * (q + 1) = B * q + B /\ B * q \in Int
    BY <1>1, <1>3
  <2>4. QED BY <1>1, <1>2, <1>3, <2>2, <2>3
<1>5. QED BY <1>1, <1>3, <1>4 DEF WordOf, B, M, q

\* The least of two numbers.
LEMMA LeastOfTwo ==
    ASSUME NEW x \in Int, NEW y \in Int
    PROVE  Min({x, y}) = IF x <= y THEN x ELSE y
<1> DEFINE m == IF x <= y THEN x ELSE y
<1>1. m \in {x, y} /\ \A z \in {x, y} : m <= z
  OBVIOUS
<1>2. \A n \in {x, y} : (\A z \in {x, y} : n <= z) => n = m
  OBVIOUS
<1>3. Min({x, y}) = m
  <2> HIDE DEF m
  <2>1. QED BY <1>1, <1>2 DEF Min
<1>4. QED BY <1>3

\* A queue's pools are its first and the others.
LEMMA QueueIs ==
    ASSUME NEW T, NEW q \in Seq(T), q # <<>>
    PROVE  q[1] \in T /\ Tail(q) \in Seq(T) /\ Range(q) = {q[1]} \cup Range(Tail(q))
<1> DEFINE L == Len(q)
           u == Tail(q)
<1>1. L \in Nat /\ L >= 1 /\ DOMAIN q = 1..L /\ u \in Seq(T) /\ Len(u) = L - 1 /\ \A i \in 1..L - 1 : u[i] = q[i + 1]
  OBVIOUS
<1>2. q[1] \in T
  BY <1>1
<1> HIDE DEF L, u
<1>3. DOMAIN u = 1..L - 1
  BY <1>1
<1>4. \A i \in 1..L : i = 1 \/ (i - 1 \in 1..L - 1 /\ (i - 1) + 1 = i)
  BY <1>1
<1>5. \A i \in 1..L : i = 1 \/ \E j \in 1..L - 1 : u[j] = q[i]
  <2> TAKE i \in 1..L
  <2>1. CASE i # 1
    <3>1. i - 1 \in 1..L - 1 /\ (i - 1) + 1 = i
      BY <1>4, <2>1
    <3>2. u[i - 1] = q[i]
      BY <1>1, <3>1
    <3>3. QED BY <3>1, <3>2
  <2>2. QED BY <2>1
<1>6. \A i \in 1..L - 1 : i + 1 \in 1..L /\ u[i] = q[i + 1]
  BY <1>1
<1>7. 1 \in 1..L
  BY <1>1
<1>8. Range(q) = {q[1]} \cup Range(u)
  <2>1. \A y \in Range(q) : y \in {q[1]} \cup Range(u)
    <3> TAKE y \in Range(q)
    <3>1. PICK i \in 1..L : y = q[i]
      BY <1>1 DEF Range
    <3>2. y = q[1] \/ \E j \in 1..L - 1 : u[j] = y
      BY <1>5, <3>1
    <3>3. QED BY <1>3, <3>2 DEF Range
  <2>2. \A y \in {q[1]} \cup Range(u) : y \in Range(q)
    BY <1>1, <1>3, <1>6, <1>7 DEF Range
  <2>3. QED BY <2>1, <2>2
<1>9. QED BY <1>1, <1>2, <1>8 DEF u

-----------------------------------------------------------------------------
(* The cuts of a pool's words.                                              *)

\* The words of a pool are some.
LEMMA PoolWords ==
    ASSUME NEW p \in Pools
    PROVE  /\ MinWord[p] \in Int /\ MaxWord[p] \in Int /\ MaxWord[p] - MinWord[p] >= 1
           /\ max_range \in Nat /\ max_range >= 1
  BY FactoryAssumption

\* A cut more.
LEMMA CutOnce ==
    ASSUME NEW p \in Pools, NEW c \in Nat, CutAt(p, c), group_size \in 0..max_range - 1, word_range > 0,
           NEW r, r = Min({word_range, max_range - group_size}),
           word_range' = word_range - r, min_word' = min_word + (r - 1),
           group_size' = IF group_size + r >= max_range THEN 0 ELSE group_size + r,
           \A w \in Int : WordAsked(p, w) => WordAsked(p, w)',
           \A w \in min_word..min_word + r : WordAsked(p, w)'
    PROVE  CutAt(p, c + 1)'
<1> DEFINE M == MinWord[p]
           n == MaxWord[p] - MinWord[p]
           R == max_range
           W == word_range
           g == group_size
<1>1. M \in Int /\ n \in Int /\ n >= 1 /\ R \in Nat /\ R >= 1 /\ g \in 0..R - 1 /\ W \in 1..n
  BY PoolWords DEF CutAt
<1>2. /\ min_word = M + (n - W) - c
      /\ c = 0 => W = n
      /\ c > 0 => /\ \A w \in M..min_word + 1 : WordAsked(p, w)
                  /\ g = 0 /\ (c - 1) * R + 1 + W <= n
  BY <1>1 DEF CutAt
<1>3. r = IF W <= R - g THEN W ELSE R - g
  <2>1. W \in Int /\ R - g \in Int
    BY <1>1
  <2>2. r = Min({W, R - g})
    OBVIOUS
  <2> HIDE DEF W, R, g
  <2>3. QED BY <2>1, <2>2, LeastOfTwo
<1>4. word_range' = W - r /\ min_word' = min_word + (r - 1) /\ group_size' = IF g + r >= R THEN 0 ELSE g + r
  OBVIOUS
<1> HIDE DEF M, n, R, W, g
<1>5. r \in 1..W /\ min_word \in Int
  BY <1>1, <1>2, <1>3
<1>6. word_range' \in 0..n /\ min_word' = M + (n - word_range') - (c + 1)
  BY <1>1, <1>2, <1>4, <1>5
<1>7. \A w \in M..min_word' + 1 : WordAsked(p, w)'
  <2> TAKE w \in M..min_word' + 1
  <2>1. w \in Int /\ w >= M /\ w <= min_word + r
    BY <1>1, <1>4, <1>5
  <2>2. CASE w >= min_word
    <3>1. w \in min_word..min_word + r
      BY <1>5, <2>1, <2>2
    <3>2. QED BY <3>1
  <2>3. CASE w < min_word
    <3>1. c > 0
      BY <1>1, <1>2, <2>1, <2>3
    <3>2. w \in M..min_word + 1
      BY <1>1, <1>5, <2>1, <2>3
    <3>3. QED BY <1>2, <2>1, <3>1, <3>2
  <2>4. QED BY <1>5, <2>1, <2>2, <2>3
<1>8. ASSUME word_range' > 0
      PROVE  group_size' = 0 /\ ((c + 1) - 1) * R + 1 + word_range' <= n
  <2>1. r = R - g /\ group_size' = 0
    BY <1>1, <1>3, <1>4, <1>8
  <2>2. (c + 1) - 1 = c
    OBVIOUS
  <2>3. CASE c = 0
    <3>1. 0 * R = 0
      BY <1>1
    <3>2. QED BY <1>1, <1>2, <1>4, <1>5, <2>1, <2>2, <2>3, <3>1
  <2>4. CASE c > 0
    <3>1. c * R = (c - 1) * R + R /\ (c - 1) * R \in Int
      BY <1>1
    <3>2. QED BY <1>1, <1>2, <1>4, <1>5, <2>1, <2>2, <2>4, <3>1
  <2>5. QED BY <2>3, <2>4
<1>9. ASSUME word_range' = 0
      PROVE  ((c + 1) - 1) * R <= n + R - 2
  <2>1. r = W
    BY <1>1, <1>4, <1>5, <1>9
  <2>2. (c + 1) - 1 = c
    OBVIOUS
  <2>3. CASE c = 0
    <3>1. 0 * R = 0
      BY <1>1
    <3>2. QED BY <1>1, <2>2, <2>3, <3>1
  <2>4. CASE c > 0
    <3>1. c * R = (c - 1) * R + R /\ (c - 1) * R \in Int
      BY <1>1
    <3>2. QED BY <1>1, <1>2, <2>2, <2>4, <3>1
  <2>5. QED BY <2>3, <2>4
<1> DEFINE d == c + 1
<1>10. d \in Nat /\ d # 0
  OBVIOUS
<1>11. /\ word_range' \in 0..n /\ min_word' = M + (n - word_range') - d
       /\ \A w \in M..min_word' + 1 : WordAsked(p, w)'
       /\ word_range' > 0 => group_size' = 0 /\ (d - 1) * R + 1 + word_range' <= n
       /\ word_range' = 0 => (d - 1) * R <= n + R - 2
  BY <1>6, <1>7, <1>8, <1>9
<1> HIDE DEF d
<1>12. CutAt(p, d)'
  BY <1>10, <1>11 DEF CutAt, M, n, R
<1>13. QED BY <1>12 DEF d

\* No word is lost but one for each cut but the first.
LEMMA CutsEnd ==
    ASSUME NEW p \in Pools, NEW c \in Nat, CutAt(p, c), word_range = 0
    PROVE  \A w \in Kept(p) : WordAsked(p, w)
<1> DEFINE M == MinWord[p]
           n == MaxWord[p] - MinWord[p]
           R == max_range
           a == n + R - 2
           k == LostWords(p)
<1>1. M \in Int /\ n \in Int /\ n >= 1 /\ R \in Nat /\ R >= 1
  BY PoolWords
<1>2. MaxWord[p] = M + n /\ k = a \div R
  BY PoolWords DEF LostWords
<1>3. min_word = M + n - c /\ c > 0 /\ (\A w \in M..min_word + 1 : WordAsked(p, w)) /\ (c - 1) * R <= a
  <2>1. c > 0
    BY <1>1 DEF CutAt
  <2>2. min_word = M + (n - 0) - c
    BY DEF CutAt
  <2>3. QED BY <1>1, <2>1, <2>2 DEF CutAt
<1> HIDE DEF M, n, R, k
<1>4. a \in Nat
  BY <1>1
<1> HIDE DEF a
<1> DEFINE x == a % R
           q == a \div R
<1>5. q \in Nat /\ x \in 0..R - 1 /\ a = R * q + x
  BY <1>1, <1>4
<1> HIDE DEF q, x
<1>6. k \in Nat /\ a < (k + 1) * R
  <2>1. k = q
    BY <1>2 DEF q
  <2>2. (q + 1) * R = R * q + R /\ R * q \in Int
    BY <1>1, <1>5
  <2>3. QED BY <1>1, <1>5, <2>1, <2>2
<1>7. c - 1 <= k
  <2>1. SUFFICES ASSUME c - 1 >= k + 1 PROVE FALSE
    BY <1>6
  <2>2. (c - 1) * R >= (k + 1) * R
    BY <1>1, <1>6, <2>1
  <2>3. (c - 1) * R \in Int /\ (k + 1) * R \in Int
    BY <1>1, <1>6
  <2>4. QED BY <1>3, <1>4, <1>6, <2>2, <2>3
<1>8. Kept(p) = M..(M + n) - k
  BY <1>2 DEF Kept, M, k
<1>9. \A w \in M..(M + n) - k : w \in M..min_word + 1
  BY <1>1, <1>3, <1>6, <1>7
<1>10. QED BY <1>3, <1>8, <1>9

-----------------------------------------------------------------------------
(* The steps of sync_all_pools: the words.                                  *)

\* What is asked for stays asked for when a part is added.
LEMMA WordsAdd ==
    ASSUME NEW x, Calls' = Calls \cup {x}
    PROVE  /\ \A p, w : WordAsked(p, w) => WordAsked(p, w)'
           /\ \A p, w : p = x.pool /\ w \in x.minWord..x.maxWord => WordAsked(p, w)'
<1>1. \A p, w : WordAsked(p, w) => WordAsked(p, w)'
  BY DEF WordAsked
<1>2. \A p, w : p = x.pool /\ w \in x.minWord..x.maxWord => WordAsked(p, w)'
  BY DEF WordAsked
<1>3. QED BY <1>1, <1>2

\* And when none is.
LEMMA WordsStay ==
    ASSUME Calls' = Calls
    PROVE  \A p, w : WordAsked(p, w) <=> WordAsked(p, w)'
  BY DEF WordAsked

\* Nothing of what is read changes.
LEMMA BitsStay ==
    ASSUME UNCHANGED <<initialized, brought, tick_bitmap, ticks>>
    PROVE  (BitsInv => BitsInv') /\ (NothingRead => NothingRead')
<1>1. BitsInv => BitsInv'
  BY DEF BitsInv
<1>2. NothingRead => NothingRead'
  BY DEF NothingRead
<1>3. QED BY <1>1, <1>2

\* The loop over the words starts with the live pools.
LEMMA ReadPoolsTicks ==
    ASSUME pools \in Seq(Pools), TicksInv, ReadPools
    PROVE  TicksInv'
<1>1. phase = "found" /\ phase' = "bitmaps"
      /\ UNCHANGED <<requests, group, group_size, brought, tick_bitmap, ticks>>
      /\ StartBitmap(pools')
  BY DEF ReadPools
<1>2. BitsInv /\ NothingRead /\ group = <<>> /\ group_size = 0 /\ requests = <<>>
  BY <1>1 DEF TicksInv, Discovering, NoGroup
<1>3. pools' \in Seq(Pools)
  <2>1. PICK live \in SUBSET Range(pools) : pools' = Sift(pools, live)
    BY DEF ReadPools
  <2>2. QED BY <2>1, SiftIs
<1>4. \A p \in Pools : initialized'[p] \subseteq TicksOf(p)
  <2> DEFINE H == UNION {kSubset(n, UNION {TicksOf(p) : p \in Pools}) : n \in 2..MaxInitialized}
  <2>1. PICK live \in SUBSET Range(pools) :
          \E held \in [live -> H] :
              /\ \A p \in live : held[p] \subseteq TicksOf(p)
              /\ initialized' = [p \in Pools |-> IF p \in live THEN held[p] ELSE {}]
    BY DEF ReadPools
  <2> HIDE DEF H
  <2>2. PICK held \in [live -> H] :
              /\ \A p \in live : held[p] \subseteq TicksOf(p)
              /\ initialized' = [p \in Pools |-> IF p \in live THEN held[p] ELSE {}]
    BY <2>1
  <2>3. QED BY <2>2
<1>5. BitsInv' /\ NothingRead'
  <2>1. NothingRead'
    BY <1>1, <1>2 DEF NothingRead
  <2>2. QED BY <1>1, <1>2, <1>4, <2>1 DEF BitsInv, NothingRead
<1>6. requests' \in Seq(Seq(WordCalls)) /\ group' \in Seq(WordCalls) /\ group_size' \in 0..max_range - 1
  <2>1. max_range \in Nat \ {0}
    BY FactoryAssumption
  <2> DEFINE W == Seq(WordCalls)
  <2>2. <<>> \in Seq(WordCalls) /\ <<>> \in Seq(W)
    OBVIOUS
  <2> HIDE DEF W
  <2>3. requests' \in Seq(W)
    BY <1>1, <1>2, <2>2
  <2>4. QED BY <1>1, <1>2, <2>1, <2>2, <2>3 DEF W
<1>7. queue' = pools'
  BY <1>1 DEF StartBitmap
<1>8. ASSUME queue' # <<>> PROVE CutAt(queue[1], 0)'
  <2>1. queue'[1] \in Pools
    BY <1>3, <1>7, <1>8
  <2>2. min_word' = MinWord[queue'[1]] /\ word_range' = MaxWord[queue'[1]] - MinWord[queue'[1]]
    BY <1>1, <1>7, <1>8 DEF StartBitmap
  <2> DEFINE M == MinWord[queue'[1]]
             X == MaxWord[queue'[1]]
  <2>3. M \in Int /\ X \in Int /\ X - M >= 1
    BY <2>1, PoolWords
  <2> HIDE DEF M, X
  <2>4. word_range' \in 0..X - M /\ min_word' = M + ((X - M) - word_range') - 0 /\ word_range' = X - M
    BY <2>2, <2>3 DEF M, X
  <2>5. QED BY <2>4 DEF CutAt, M, X
<1>9. \A p \in Range(pools)' : p \in Range(queue)'
  BY <1>7
<1>10. WordLoopInv'
  <2>1. queue' # <<>> => \E c \in Nat : CutAt(queue[1], c)'
    BY <1>8
  <2>2. QED BY <1>3, <1>5, <1>6, <1>7, <1>9, <2>1 DEF WordLoopInv
<1>11. QED BY <1>1, <1>10 DEF TicksInv, Discovering

\* A part of the words is asked for.
LEMMA GroupWordsTicks ==
    ASSUME pools \in Seq(Pools), TicksInv, GroupWords
    PROVE  TicksInv'
<1> DEFINE r == Min({word_range, max_range - group_size})
           x == [pool |-> queue[1], minWord |-> min_word, maxWord |-> min_word + r]
<1>1. /\ phase = "bitmaps" /\ phase' = "bitmaps" /\ queue # <<>> /\ word_range > 0
      /\ word_range' = word_range - r /\ min_word' = min_word + (r - 1)
      /\ SendFull(Append(group, x), group_size + r, max_range)
      /\ pools' = pools /\ queue' = queue /\ UNCHANGED <<initialized, brought, tick_bitmap, ticks>>
  BY DEF GroupWords, chainVars
<1>2. WordLoopInv
  BY <1>1 DEF TicksInv
<1>3. queue[1] \in Pools
  BY <1>1, <1>2 DEF WordLoopInv
<1>4. PICK c \in Nat : CutAt(queue[1], c)
  BY <1>1, <1>2 DEF WordLoopInv
<1>5. r \in Int /\ r >= 1 /\ min_word \in Int /\ group_size \in 0..max_range - 1 /\ max_range \in Nat
  <2> DEFINE M == MinWord[queue[1]]
             n == MaxWord[queue[1]] - M
  <2>1. M \in Int /\ n \in Int /\ max_range \in Nat
    BY <1>3, PoolWords
  <2>2. word_range \in 0..n /\ min_word = M + (n - word_range) - c
    BY <1>4 DEF CutAt
  <2>3. group_size \in 0..max_range - 1
    BY <1>2 DEF WordLoopInv
  <2> HIDE DEF M, n
  <2> DEFINE u == word_range
             v == max_range - group_size
  <2>4. u \in Int /\ v \in Int /\ u >= 1 /\ v >= 1
    BY <1>1, <2>1, <2>2, <2>3
  <2>5. r = IF u <= v THEN u ELSE v
    <3>1. r = Min({u, v})
      OBVIOUS
    <3> HIDE DEF u, v, r
    <3>2. QED BY <2>4, <3>1, LeastOfTwo
  <2> HIDE DEF u, v, r
  <2>6. QED BY <2>1, <2>2, <2>3, <2>4, <2>5
<1>6. r = Min({word_range, max_range - group_size}) /\ x.pool = queue[1] /\ x.minWord = min_word /\ x.maxWord = min_word + r
  OBVIOUS
<1> HIDE DEF r
<1>7. x \in WordCalls
  BY <1>3, <1>5 DEF WordCalls
<1> HIDE DEF x
<1>8. /\ requests' \in Seq(Seq(WordCalls)) /\ group' \in Seq(WordCalls) /\ Calls' = Calls \cup {x}
      /\ group_size' = IF group_size + r >= max_range THEN 0 ELSE group_size + r
  <2>1. requests \in Seq(Seq(WordCalls)) /\ group \in Seq(WordCalls)
    BY <1>2 DEF WordLoopInv
  <2>2. QED BY <1>1, <1>7, <2>1, SendKeeps
<1>9. /\ \A p, w : WordAsked(p, w) => WordAsked(p, w)'
      /\ \A p, w : p = queue[1] /\ w \in min_word..min_word + r => WordAsked(p, w)'
  <2>1. \A p, w : p = x.pool /\ w \in x.minWord..x.maxWord => WordAsked(p, w)'
    BY <1>8, WordsAdd
  <2>2. \A p, w : WordAsked(p, w) => WordAsked(p, w)'
    BY <1>8, WordsAdd
  <2>3. QED BY <1>6, <2>1, <2>2
<1>10. \E d \in Nat : CutAt(queue[1], d)'
  <2>1. PICK p \in Pools : p = queue[1]
    BY <1>3
  <2>2. CutAt(p, c) /\ \A w \in min_word..min_word + r : WordAsked(p, w)'
    BY <1>4, <1>9, <2>1
  <2>3. CutAt(p, c + 1)'
    BY <1>1, <1>5, <1>6, <1>8, <1>9, <2>2, CutOnce
  <2>4. queue'[1] = p /\ c + 1 \in Nat
    BY <1>1, <2>1
  <2>5. QED BY <2>3, <2>4
<1>11. group_size' \in 0..max_range - 1
  BY <1>5, <1>8
<1>12. BitsInv' /\ NothingRead'
  BY <1>1, <1>2, BitsStay DEF WordLoopInv
<1>13. \A p \in Range(pools)' : p \in Range(queue)' \/ \A w \in Kept(p) : WordAsked(p, w)'
  BY <1>1, <1>2, <1>9 DEF WordLoopInv
<1>14. WordLoopInv'
  BY <1>1, <1>2, <1>8, <1>10, <1>11, <1>12, <1>13 DEF WordLoopInv
<1>15. QED BY <1>1, <1>14 DEF TicksInv, Discovering

\* The words of a pool are all asked for, but the lost ones.
LEMMA NextPoolWordsTicks ==
    ASSUME pools \in Seq(Pools), TicksInv, NextPoolWords
    PROVE  TicksInv'
<1>1. /\ phase = "bitmaps" /\ phase' = "bitmaps" /\ queue # <<>> /\ word_range = 0 /\ StartBitmap(Tail(queue))
      /\ pools' = pools /\ requests' = requests /\ group' = group /\ group_size' = group_size
      /\ UNCHANGED <<initialized, brought, tick_bitmap, ticks>>
  BY DEF NextPoolWords, chainVars
<1>2. WordLoopInv
  BY <1>1 DEF TicksInv
<1>3. queue[1] \in Pools /\ Tail(queue) \in Seq(Pools) /\ Range(queue) = {queue[1]} \cup Range(Tail(queue))
  BY <1>1, <1>2, QueueIs DEF WordLoopInv
<1>4. \A w \in Kept(queue[1]) : WordAsked(queue[1], w)
  <2>1. PICK c \in Nat : CutAt(queue[1], c)
    BY <1>1, <1>2 DEF WordLoopInv
  <2>2. QED BY <1>1, <1>3, <2>1, CutsEnd
<1>5. \A p, w : WordAsked(p, w) <=> WordAsked(p, w)'
  <2>1. Calls' = Calls
    BY <1>1 DEF Calls
  <2>2. QED BY <2>1, WordsStay
<1>6. queue' = Tail(queue)
  BY <1>1 DEF StartBitmap
<1>7. \A p \in Range(pools)' : p \in Range(queue)' \/ \A w \in Kept(p) : WordAsked(p, w)'
  <2>1. Range(queue)' = Range(Tail(queue))
    BY <1>6
  <2>2. \A p \in Range(pools) : p \in Range(queue) \/ \A w \in Kept(p) : WordAsked(p, w)
    BY <1>2 DEF WordLoopInv
  <2>3. QED BY <1>1, <1>3, <1>4, <1>5, <2>1, <2>2
<1>8. ASSUME queue' # <<>> PROVE CutAt(queue[1], 0)'
  <2>1. queue'[1] \in Pools
    BY <1>3, <1>6, <1>8
  <2>2. min_word' = MinWord[queue'[1]] /\ word_range' = MaxWord[queue'[1]] - MinWord[queue'[1]]
    BY <1>1, <1>6, <1>8 DEF StartBitmap
  <2> DEFINE M == MinWord[queue'[1]]
             X == MaxWord[queue'[1]]
  <2>3. M \in Int /\ X \in Int /\ X - M >= 1
    BY <2>1, PoolWords
  <2> HIDE DEF M, X
  <2>4. word_range' \in 0..X - M /\ min_word' = M + ((X - M) - word_range') - 0 /\ word_range' = X - M
    BY <2>2, <2>3 DEF M, X
  <2>5. QED BY <2>4 DEF CutAt, M, X
<1>9. BitsInv' /\ NothingRead'
  BY <1>1, <1>2, BitsStay DEF WordLoopInv
<1>10. queue' # <<>> => \E c \in Nat : CutAt(queue[1], c)'
  BY <1>8
<1>11. WordLoopInv'
  BY <1>1, <1>2, <1>3, <1>6, <1>7, <1>9, <1>10 DEF WordLoopInv
<1>12. QED BY <1>1, <1>11 DEF TicksInv, Discovering

\* All words that are not lost are asked for when the loop ends.
LEMMA FlushWordsTicks ==
    ASSUME pools \in Seq(Pools), TicksInv, FlushWords
    PROVE  TicksInv'
<1>1. /\ phase = "bitmaps" /\ phase' = "words" /\ queue = <<>> /\ FlushTo("words")
      /\ pools' = pools /\ UNCHANGED <<initialized, brought, tick_bitmap, ticks>>
  BY DEF FlushWords, FlushTo, chainVars
<1>2. WordLoopInv
  BY <1>1 DEF TicksInv
<1>3. requests' \in Seq(Seq(WordCalls)) /\ NoGroup' /\ Calls' = Calls
  <2>1. requests \in Seq(Seq(WordCalls)) /\ group \in Seq(WordCalls)
    BY <1>2 DEF WordLoopInv
  <2>2. QED BY <1>1, <2>1, FlushKeeps DEF NoGroup
<1>4. BitsInv' /\ NothingRead'
  BY <1>1, <1>2, BitsStay DEF WordLoopInv
<1>5. \A p \in Range(pools) : \A w \in Kept(p) : WordAsked(p, w)
  <2>1. Range(<<>>) = {}
    BY DEF Range
  <2>2. QED BY <1>1, <1>2, <2>1 DEF WordLoopInv
<1>6. \A p, w : WordAsked(p, w) <=> WordAsked(p, w)'
  BY <1>3, WordsStay
<1>7. \A p \in Range(pools)' : \A w \in Kept(p) : WordAsked(p, w)'
  BY <1>1, <1>5, <1>6
<1>8. WordsInv'
  BY <1>3, <1>4, <1>7 DEF WordsInv, NothingRead
<1>9. QED BY <1>1, <1>8 DEF TicksInv, Discovering

\* An answer has the bits of the words it was asked for, but for those that are
\* zero.
LEMMA WordsAnswerTicks ==
    ASSUME pools \in Seq(Pools), TicksInv, NEW i \in DOMAIN requests, WordsAnswer(i)
    PROVE  TicksInv'
<1> DEFINE W(p) == Answered(requests[i], p)
<1>1. /\ phase = "words" /\ phase' = "words" /\ requests' = RemoveAt(requests, i) /\ group' = group
      /\ group_size' = group_size /\ pools' = pools /\ initialized' = initialized /\ ticks' = ticks
      /\ brought' = brought
  BY DEF WordsAnswer, chainVars, loopVars
<1>2. \A p \in Pools : tick_bitmap'[p] = {t \in tick_bitmap[p] : WordOf(t) \notin W(p)}
                                         \cup {t \in initialized[p] : WordOf(t) \in W(p)}
  BY DEF WordsAnswer
<1>3. WordsInv
  BY <1>1 DEF TicksInv
<1>4. requests' \in Seq(Seq(WordCalls)) /\ Calls = Range(requests[i]) \cup Calls'
  <2> DEFINE G == Seq(WordCalls)
  <2>1. requests \in Seq(G)
    BY <1>3 DEF WordsInv
  <2> HIDE DEF G
  <2>2. requests' \in Seq(G) /\ Calls = Range(requests[i]) \cup Calls'
    BY <1>1, <2>1, AnswerKeeps
  <2>3. QED BY <2>2 DEF G
<1>5. ASSUME NEW c \in Range(requests[i]), NEW t \in initialized[c.pool],
             WordOf(t) \in c.minWord..c.maxWord
      PROVE  WordOf(t) \in W(c.pool)
  <2>1. WordOf(t) \in SetWords(c)
    BY <1>5 DEF SetWords
  <2>2. QED BY <2>1 DEF Answered
<1> HIDE DEF W
<1>6. BitsInv'
  <2>1. ASSUME NEW p \in Pools PROVE tick_bitmap'[p] \subseteq initialized[p] \cup brought[p]
    BY <1>2, <1>3 DEF WordsInv, BitsInv
  <2>2. \A p \in Pools : ticks'[p] = {}
    BY <1>1, <1>3 DEF WordsInv
  <2>3. QED BY <1>1, <1>3, <2>1, <2>2 DEF WordsInv, BitsInv
<1>7. ASSUME NEW p \in Range(pools), NEW w \in Kept(p)
      PROVE  Settled(p, w)' \/ WordAsked(p, w)'
  <2>1. p \in Pools
    BY DEF Range
  <2>2. CASE w \in W(p)
    <3>1. \A t \in initialized[p] \cup tick_bitmap'[p] :
             WordOf(t) = w => t \in initialized[p] /\ t \in tick_bitmap'[p]
      BY <1>2, <2>1, <2>2
    <3>2. QED BY <1>1, <3>1 DEF Settled
  <2>3. CASE w \notin W(p) /\ Settled(p, w)
    <3>1. \A t : WordOf(t) = w => (t \in tick_bitmap'[p] <=> t \in tick_bitmap[p])
      BY <1>2, <2>1, <2>3
    <3>2. QED BY <1>1, <2>3, <3>1 DEF Settled
  <2>4. CASE w \notin W(p) /\ WordAsked(p, w)
    <3>1. PICK c \in Calls : c.pool = p /\ w \in c.minWord..c.maxWord
      BY <2>4 DEF WordAsked
    <3>2. CASE c \in Calls'
      <4>1. WordAsked(p, w)'
        BY <3>1, <3>2 DEF WordAsked
      <4>2. QED BY <4>1
    <3>3. CASE c \in Range(requests[i])
      <4>1. \A t \in initialized[p] : WordOf(t) # w
        BY <1>5, <2>4, <3>1, <3>3
      <4>2. QED BY <1>1, <4>1 DEF Settled
    <3>4. QED BY <1>4, <3>1, <3>2, <3>3
  <2>5. QED BY <1>3, <2>2, <2>3, <2>4 DEF WordsInv
<1>8. WordsInv'
  <2>1. NoGroup' /\ \A p \in Pools : ticks'[p] = {}
    BY <1>1, <1>3 DEF WordsInv, NoGroup
  <2>2. \A p \in Range(pools)' : \A w \in Kept(p) : Settled(p, w)' \/ WordAsked(p, w)'
    BY <1>1, <1>7
  <2>3. QED BY <1>4, <1>6, <2>1, <2>2 DEF WordsInv
<1>9. QED BY <1>1, <1>8 DEF TicksInv, Discovering

-----------------------------------------------------------------------------
(* The steps of sync_all_pools: the ticks.                                  *)

\* The ticks of a pool are finitely many integers.
LEMMA TicksFinite ==
    ASSUME NEW p \in Pools
    PROVE  TicksOf(p) \subseteq Int /\ IsFiniteSet(TicksOf(p))
<1> DEFINE x == WordBits * MinWord[p]
           y == WordBits * (MaxWord[p] + 1) - 1
<1>1. x \in Int /\ y \in Int
  BY FactoryAssumption
<1>2. TicksOf(p) = x..y
  BY DEF TicksOf
<1> HIDE DEF x, y
<1>3. IsFiniteSet(x..y)
  BY <1>1, FS_Interval
<1>4. QED BY <1>1, <1>2, <1>3

\* The two parts of a sequence have what it has.
LEMMA SplitIs ==
    ASSUME NEW T, NEW s \in Seq(T), NEW n \in 0..Len(s)
    PROVE  /\ SubSeq(s, 1, n) \in Seq(T) /\ SubSeq(s, n + 1, Len(s)) \in Seq(T)
           /\ Range(s) = Range(SubSeq(s, 1, n)) \cup Range(SubSeq(s, n + 1, Len(s)))
<1> DEFINE L == Len(s)
           a == SubSeq(s, 1, n)
           b == SubSeq(s, n + 1, L)
<1>1. /\ L \in Nat /\ n \in 0..L /\ DOMAIN s = 1..L
      /\ a \in Seq(T) /\ DOMAIN a = 1..n /\ \A i \in 1..n : a[i] = s[i]
      /\ b \in Seq(T) /\ DOMAIN b = 1..L - n /\ \A i \in 1..L - n : b[i] = s[n + i]
  OBVIOUS
<1> HIDE DEF L, a, b
<1>2. ASSUME NEW y \in Range(s) PROVE y \in Range(a) \cup Range(b)
  <2>1. PICK i \in 1..L : y = s[i]
    BY <1>1 DEF Range
  <2>2. CASE i <= n
    <3>1. i \in 1..n
      BY <1>1, <2>2
    <3>2. QED BY <1>1, <2>1, <3>1 DEF Range
  <2>3. CASE ~(i <= n)
    <3>1. i - n \in 1..L - n /\ n + (i - n) = i
      BY <1>1, <2>3
    <3>2. b[i - n] = s[i]
      BY <1>1, <3>1
    <3>3. QED BY <1>1, <2>1, <3>1, <3>2 DEF Range
  <2>4. QED BY <2>2, <2>3
<1>3. ASSUME NEW y \in Range(a) PROVE y \in Range(s)
  <2>1. PICK i \in 1..n : y = a[i]
    BY <1>1, <1>3 DEF Range
  <2>2. i \in 1..L /\ y = s[i]
    BY <1>1, <2>1
  <2>3. QED BY <1>1, <2>2 DEF Range
<1>4. ASSUME NEW y \in Range(b) PROVE y \in Range(s)
  <2>1. PICK i \in 1..L - n : y = b[i]
    BY <1>1, <1>4 DEF Range
  <2>2. n + i \in 1..L /\ y = s[n + i]
    BY <1>1, <2>1
  <2>3. QED BY <1>1, <2>2 DEF Range
<1>5. Range(s) = Range(a) \cup Range(b)
  BY <1>2, <1>3, <1>4
<1>6. QED BY <1>1, <1>5 DEF a, b, L

\* The loop starts with the ticks read of a pool.
LEMMA StartTicksIs ==
    ASSUME BitsInv, NEW q \in Seq(Pools), StartTicks(q)
    PROVE  /\ queue' = q /\ unread' \in Seq(Int)
           /\ q = <<>> => unread' = <<>>
           /\ q # <<>> => Range(unread') = tick_bitmap[q[1]]
<1>1. queue' = q /\ unread' = IF q = <<>> THEN <<>> ELSE Ascending(tick_bitmap[q[1]])
  BY DEF StartTicks
<1>2. CASE q = <<>>
  BY <1>1, <1>2
<1>3. CASE q # <<>>
  <2>1. q[1] \in Pools
    BY <1>3
  <2> DEFINE S == tick_bitmap[q[1]]
  <2>2. S \subseteq TicksOf(q[1])
    <3>1. S \subseteq initialized[q[1]] \cup brought[q[1]]
      BY <2>1 DEF BitsInv
    <3>2. QED BY <2>1, <3>1 DEF BitsInv
  <2> HIDE DEF S
  <2>3. S \subseteq Int /\ IsFiniteSet(S)
    BY <2>1, <2>2, TicksFinite, FS_Subset
  <2>4. Ascending(S) \in Seq(S) /\ Range(Ascending(S)) = S
    BY <2>3, AscendingIs
  <2>5. Ascending(S) \in Seq(Int)
    <3> DEFINE s == Ascending(S)
               n == Cardinality(S)
    <3>1. s \in [1..n -> S] /\ n \in Nat
      BY <2>3, AscendingIs, FS_CardinalityType
    <3> HIDE DEF s, n
    <3>2. s \in [1..n -> Int]
      BY <2>3, <3>1
    <3>3. s \in Seq(Int)
      BY <3>1, <3>2
    <3>4. QED BY <3>3 DEF s
  <2>6. QED BY <1>1, <1>3, <2>4, <2>5 DEF S
<1>4. QED BY <1>2, <1>3

\* Nothing is asked for without requests.
LEMMA NoCalls == requests = <<>> /\ group = <<>> => Calls = {}
<1>1. Range(<<>>) = {} /\ DOMAIN <<>> = {}
  BY DEF Range
<1>2. QED BY <1>1 DEF Calls, CallsOf

\* The ticks are read when all words are answered.
LEMMA WordsReadTicks ==
    ASSUME pools \in Seq(Pools), TicksInv, WordsRead
    PROVE  TicksInv'
<1> DEFINE s == LastCopies(pools)
           S == {p \in Range(s) : tick_bitmap[p] # {}}
           q == Sift(s, S)
<1>1. /\ phase = "words" /\ phase' = "ticks" /\ requests = <<>> /\ requests' = <<>> /\ group' = group
      /\ group_size' = group_size /\ pools' = pools /\ UNCHANGED <<initialized, brought, tick_bitmap, ticks>>
  BY DEF WordsRead, chainVars
<1>2. WordsInv
  BY <1>1 DEF TicksInv
<1>3. StartTicks(q)
  BY DEF WordsRead, Filter
<1>4. s \in Seq(Pools) /\ Range(s) = Range(pools)
  BY LastCopiesAre
<1>5. S \subseteq Range(s) /\ S = {p \in Range(pools) : tick_bitmap[p] # {}}
  BY <1>4
<1> HIDE DEF s, S
<1>6. q \in Seq(Pools) /\ Range(q) = S
  <2>1. q \in Seq(Pools) /\ Range(q) = Range(s) \cap S
    BY <1>4, SiftIs
  <2>2. QED BY <1>5, <2>1
<1> HIDE DEF q
<1>7. /\ queue' = q /\ unread' \in Seq(Int)
      /\ q = <<>> => unread' = <<>>
      /\ q # <<>> => Range(unread') = tick_bitmap[q[1]]
  BY <1>2, <1>3, <1>6, StartTicksIs DEF WordsInv
<1>8. group = <<>> /\ group_size = 0 /\ Calls = {} /\ Calls' = {}
  <2>1. group = <<>> /\ group_size = 0
    BY <1>2 DEF WordsInv, NoGroup
  <2>2. Calls = {}
    BY <1>1, <2>1, NoCalls
  <2>3. Calls' = Calls
    BY <1>1 DEF Calls
  <2>4. QED BY <2>1, <2>2, <2>3
<1>9. BitsRead'
  <2>1. \A p \in Range(pools) : \A w \in Kept(p) : Settled(p, w)
    BY <1>2, <1>8 DEF WordsInv, WordAsked
  <2>2. QED BY <1>1, <2>1 DEF BitsRead, Settled
<1>10. CallsRead'
  <2> DEFINE G == Seq(TickCalls)
  <2>1. <<>> \in G /\ <<>> \in Seq(G)
    OBVIOUS
  <2> HIDE DEF G
  <2>2. requests' \in Seq(G) /\ group' \in G
    BY <1>1, <1>8, <2>1
  <2>3. QED BY <1>8, <2>2 DEF CallsRead, G
<1>11. BitsInv'
  BY <1>1, <1>2, BitsStay DEF WordsInv
<1>12. group_size' \in 0..max_ticks - 1
  BY <1>1, <1>8, FactoryAssumption
<1>13. ASSUME NEW p \in Range(pools), NEW t \in tick_bitmap[p]
       PROVE  \/ q # <<>> /\ p = q[1] /\ t \in Range(unread')
              \/ q # <<>> /\ p \in Range(Tail(q))
  <2>1. p \in Range(q)
    BY <1>5, <1>6
  <2>2. q # <<>>
    BY <2>1 DEF Range
  <2>3. p = q[1] \/ p \in Range(Tail(q))
    BY <1>6, <2>1, <2>2, QueueIs
  <2>4. QED BY <1>7, <2>2, <2>3
<1>14. TickLoopInv'
  <2>1. \A p \in Range(pools)' : \A t \in tick_bitmap'[p] :
          \/ TickAsked(p, t)'
          \/ queue' # <<>> /\ p = queue'[1] /\ t \in Range(unread)'
          \/ queue' # <<>> /\ p \in Range(Tail(queue))'
    BY <1>1, <1>7, <1>13
  <2>2. queue' # <<>> => Range(unread)' \subseteq tick_bitmap'[queue'[1]]
    BY <1>1, <1>7
  <2>3. QED BY <1>6, <1>7, <1>9, <1>10, <1>11, <1>12, <2>1, <2>2 DEF TickLoopInv
<1>15. QED BY <1>1, <1>14 DEF TicksInv, Discovering

\* Ticks stay asked for when a part is added.
LEMMA TicksAdd ==
    ASSUME NEW x, Calls' = Calls \cup {x}
    PROVE  /\ \A p, t : TickAsked(p, t) => TickAsked(p, t)'
           /\ \A p, t : p = x.pool /\ t \in Range(x.ticks) => TickAsked(p, t)'
<1>1. \A p, t : TickAsked(p, t) => TickAsked(p, t)'
  BY DEF TickAsked
<1>2. \A p, t : p = x.pool /\ t \in Range(x.ticks) => TickAsked(p, t)'
  BY DEF TickAsked
<1>3. QED BY <1>1, <1>2

\* And when none is.
LEMMA AskedStay ==
    ASSUME Calls' = Calls
    PROVE  \A p, t : TickAsked(p, t) <=> TickAsked(p, t)'
  BY DEF TickAsked

\* What was read stays read.
LEMMA BitsReadStays ==
    ASSUME UNCHANGED <<initialized, tick_bitmap, pools>>, BitsRead
    PROVE  BitsRead'
  BY DEF BitsRead, Settled

\* A part of the ticks is asked for.
LEMMA GroupTicksTicks ==
    ASSUME pools \in Seq(Pools), TicksInv, GroupTicks
    PROVE  TicksInv'
<1> DEFINE n == Min({Len(unread), max_ticks - group_size})
           x == [pool |-> queue[1], ticks |-> SubSeq(unread, 1, n)]
<1>1. /\ phase = "ticks" /\ phase' = "ticks" /\ queue # <<>>
      /\ unread' = SubSeq(unread, n + 1, Len(unread))
      /\ SendFull(Append(group, x), group_size + n, max_ticks)
      /\ pools' = pools /\ queue' = queue /\ UNCHANGED <<initialized, brought, tick_bitmap, ticks>>
  BY DEF GroupTicks, chainVars
<1>2. TickLoopInv /\ BitsInv /\ BitsRead /\ CallsRead
  BY <1>1 DEF TicksInv, TickLoopInv
<1>3. queue[1] \in Pools /\ unread \in Seq(Int) /\ Range(unread) \subseteq tick_bitmap[queue[1]]
  BY <1>1, <1>2 DEF TickLoopInv
<1>4. n \in 0..Len(unread) /\ group_size + n \in 0..max_ticks /\ max_ticks \in Nat /\ max_ticks >= 1
  <2> DEFINE u == Len(unread)
             v == max_ticks - group_size
  <2>1. u \in Nat /\ group_size \in 0..max_ticks - 1 /\ max_ticks \in Nat \ {0}
    BY <1>2, <1>3, FactoryAssumption DEF TickLoopInv
  <2>2. u \in Int /\ v \in Int /\ v >= 1
    BY <2>1
  <2>3. n = IF u <= v THEN u ELSE v
    <3>1. n = Min({u, v})
      OBVIOUS
    <3> HIDE DEF u, v, n
    <3>2. QED BY <2>2, <3>1, LeastOfTwo
  <2> HIDE DEF u, n
  <2>4. n \in 0..u /\ group_size + n \in 0..max_ticks
    BY <2>1, <2>3
  <2>5. QED BY <2>1, <2>4 DEF u
<1> DEFINE a == SubSeq(unread, 1, n)
<1> HIDE DEF n
<1>5. a \in Seq(Int) /\ unread' \in Seq(Int) /\ Range(unread) = Range(a) \cup Range(unread')
  BY <1>1, <1>3, <1>4, SplitIs
<1>6. x.pool = queue[1] /\ x.ticks = a
  OBVIOUS
<1> HIDE DEF a
<1>7. x \in TickCalls
  BY <1>3, <1>5 DEF TickCalls, a
<1> HIDE DEF x
<1>8. /\ requests' \in Seq(Seq(TickCalls)) /\ group' \in Seq(TickCalls) /\ Calls' = Calls \cup {x}
      /\ group_size' = IF group_size + n >= max_ticks THEN 0 ELSE group_size + n
  <2>1. requests \in Seq(Seq(TickCalls)) /\ group \in Seq(TickCalls)
    BY <1>2 DEF CallsRead
  <2>2. QED BY <1>1, <1>7, <2>1, SendKeeps
<1>9. /\ \A p, t : TickAsked(p, t) => TickAsked(p, t)'
      /\ \A p, t : p = queue[1] /\ t \in Range(a) => TickAsked(p, t)'
  <2>1. \A p, t : p = x.pool /\ t \in Range(x.ticks) => TickAsked(p, t)'
    BY <1>8, TicksAdd
  <2>2. \A p, t : TickAsked(p, t) => TickAsked(p, t)'
    BY <1>8, TicksAdd
  <2>3. QED BY <1>6, <2>1, <2>2
<1>10. CallsRead'
  <2>1. \A c \in Calls : Range(c.ticks) \subseteq tick_bitmap[c.pool]
    BY <1>2 DEF CallsRead
  <2>2. Range(x.ticks) \subseteq tick_bitmap[x.pool]
    BY <1>3, <1>5, <1>6
  <2>3. \A c \in Calls' : Range(c.ticks) \subseteq tick_bitmap'[c.pool]
    BY <1>1, <1>8, <2>1, <2>2
  <2>4. QED BY <1>8, <2>3 DEF CallsRead
<1>11. group_size' \in 0..max_ticks - 1
  BY <1>4, <1>8
<1>12. BitsInv' /\ BitsRead'
  BY <1>1, <1>2, BitsStay, BitsReadStays
<1>13. ASSUME NEW p \in Range(pools), NEW t \in tick_bitmap[p]
       PROVE  \/ TickAsked(p, t)'
              \/ p = queue[1] /\ t \in Range(unread')
              \/ p \in Range(Tail(queue))
  <2>1. \/ TickAsked(p, t)
        \/ p = queue[1] /\ t \in Range(unread)
        \/ p \in Range(Tail(queue))
    BY <1>2 DEF TickLoopInv
  <2>2. QED BY <1>5, <1>9, <2>1
<1>14. TickLoopInv'
  <2>1. \A p \in Range(pools)' : \A t \in tick_bitmap'[p] :
          \/ TickAsked(p, t)'
          \/ queue' # <<>> /\ p = queue'[1] /\ t \in Range(unread)'
          \/ queue' # <<>> /\ p \in Range(Tail(queue))'
    BY <1>1, <1>13
  <2>2. Range(unread)' \subseteq tick_bitmap'[queue'[1]]
    BY <1>1, <1>3, <1>5
  <2>3. queue' \in Seq(Pools) /\ queue' # <<>>
    BY <1>1, <1>2 DEF TickLoopInv
  <2>4. QED BY <1>5, <1>10, <1>11, <1>12, <2>1, <2>2, <2>3 DEF TickLoopInv
<1>15. QED BY <1>1, <1>14 DEF TicksInv, Discovering

\* The ticks of a pool are all asked for.
LEMMA NextPoolTicksTicks ==
    ASSUME pools \in Seq(Pools), TicksInv, NextPoolTicks
    PROVE  TicksInv'
<1> DEFINE q == Tail(queue)
<1>1. /\ phase = "ticks" /\ phase' = "ticks" /\ queue # <<>> /\ unread = <<>> /\ StartTicks(q)
      /\ pools' = pools /\ requests' = requests /\ group' = group /\ group_size' = group_size
      /\ UNCHANGED <<initialized, brought, tick_bitmap, ticks>>
  BY DEF NextPoolTicks, chainVars
<1>2. TickLoopInv /\ BitsInv /\ BitsRead /\ CallsRead
  BY <1>1 DEF TicksInv, TickLoopInv
<1>3. q \in Seq(Pools)
  BY <1>1, <1>2, QueueIs DEF TickLoopInv
<1> HIDE DEF q
<1>4. /\ queue' = q /\ unread' \in Seq(Int)
      /\ q = <<>> => unread' = <<>>
      /\ q # <<>> => Range(unread') = tick_bitmap[q[1]]
  BY <1>1, <1>2, <1>3, StartTicksIs
<1>5. Calls' = Calls
  BY <1>1 DEF Calls
<1>6. CallsRead'
  BY <1>1, <1>2, <1>5 DEF CallsRead
<1>7. BitsInv' /\ BitsRead'
  BY <1>1, <1>2, BitsStay, BitsReadStays
<1>8. ASSUME NEW p \in Range(pools), NEW t \in tick_bitmap[p]
      PROVE  \/ TickAsked(p, t)'
             \/ q # <<>> /\ p = q[1] /\ t \in Range(unread')
             \/ q # <<>> /\ p \in Range(Tail(q))
  <2>1. Range(<<>>) = {}
    BY DEF Range
  <2>2. TickAsked(p, t) \/ p \in Range(q)
    BY <1>1, <1>2, <2>1 DEF TickLoopInv, q
  <2>3. CASE TickAsked(p, t)
    BY <1>5, <2>3, AskedStay
  <2>4. CASE p \in Range(q)
    <3>1. q # <<>>
      BY <2>4 DEF Range
    <3>2. p = q[1] \/ p \in Range(Tail(q))
      BY <1>3, <2>4, <3>1, QueueIs
    <3>3. QED BY <1>4, <3>1, <3>2
  <2>5. QED BY <2>2, <2>3, <2>4
<1>9. TickLoopInv'
  <2>1. \A p \in Range(pools)' : \A t \in tick_bitmap'[p] :
          \/ TickAsked(p, t)'
          \/ queue' # <<>> /\ p = queue'[1] /\ t \in Range(unread)'
          \/ queue' # <<>> /\ p \in Range(Tail(queue))'
    BY <1>1, <1>4, <1>8
  <2>2. queue' # <<>> => Range(unread)' \subseteq tick_bitmap'[queue'[1]]
    BY <1>1, <1>4
  <2>3. group_size' \in 0..max_ticks - 1
    BY <1>1, <1>2 DEF TickLoopInv
  <2>4. QED BY <1>3, <1>4, <1>6, <1>7, <2>1, <2>2, <2>3 DEF TickLoopInv
<1>10. QED BY <1>1, <1>9 DEF TicksInv, Discovering

\* All ticks are asked for when the loop ends.
LEMMA FlushTicksTicks ==
    ASSUME pools \in Seq(Pools), TicksInv, FlushTicks
    PROVE  TicksInv'
<1>1. /\ phase = "ticks" /\ phase' = "data" /\ queue = <<>> /\ FlushTo("data")
      /\ pools' = pools /\ UNCHANGED <<initialized, brought, tick_bitmap, ticks>>
  BY DEF FlushTicks, FlushTo, chainVars
<1>2. TickLoopInv /\ BitsInv /\ BitsRead /\ CallsRead
  BY <1>1 DEF TicksInv, TickLoopInv
<1>3. requests' \in Seq(Seq(TickCalls)) /\ NoGroup' /\ Calls' = Calls
  <2>1. requests \in Seq(Seq(TickCalls)) /\ group \in Seq(TickCalls)
    BY <1>2 DEF CallsRead
  <2>2. QED BY <1>1, <2>1, FlushKeeps DEF NoGroup
<1>4. BitsInv' /\ BitsRead'
  BY <1>1, <1>2, BitsStay, BitsReadStays
<1>5. CallsRead'
  <2>1. group' \in Seq(TickCalls)
    BY <1>3 DEF NoGroup
  <2>2. QED BY <1>1, <1>2, <1>3, <2>1 DEF CallsRead
<1>6. \A p \in Range(pools)' : \A t \in tick_bitmap'[p] : TickAsked(p, t)'
  <2>1. \A p, t : TickAsked(p, t) <=> TickAsked(p, t)'
    BY <1>3, AskedStay
  <2>2. \A p \in Range(pools) : \A t \in tick_bitmap[p] : TickAsked(p, t)
    BY <1>1, <1>2 DEF TickLoopInv
  <2>3. QED BY <1>1, <2>1, <2>2
<1>7. DataInv'
  BY <1>3, <1>4, <1>5, <1>6 DEF DataInv
<1>8. QED BY <1>1, <1>7 DEF TicksInv, Discovering

\* An answer has the data of the ticks it was asked for.
LEMMA TicksAnswerTicks ==
    ASSUME pools \in Seq(Pools), TicksInv, NEW i \in DOMAIN requests, TicksAnswer(i)
    PROVE  TicksInv'
<1>1. /\ phase = "data" /\ phase' = "data" /\ requests' = RemoveAt(requests, i) /\ group' = group
      /\ group_size' = group_size /\ pools' = pools /\ initialized' = initialized
      /\ brought' = brought /\ tick_bitmap' = tick_bitmap
  BY DEF TicksAnswer, chainVars, loopVars
<1>2. \A p \in Pools : \A t :
         t \in ticks'[p] <=> t \in ticks[p] \/ \E c \in Range(requests[i]) : c.pool = p /\ t \in Range(c.ticks)
  <2>1. ticks' = [p \in Pools |-> ticks[p] \cup
                      UNION {Range(info.ticks) : info \in {c \in Range(requests[i]) : c.pool = p}}]
    BY DEF TicksAnswer
  <2>2. QED BY <2>1
<1>3. DataInv /\ BitsInv /\ BitsRead /\ CallsRead
  BY <1>1 DEF TicksInv, DataInv
<1>4. requests' \in Seq(Seq(TickCalls)) /\ Calls = Range(requests[i]) \cup Calls'
  <2> DEFINE G == Seq(TickCalls)
  <2>1. requests \in Seq(G)
    BY <1>3 DEF CallsRead
  <2> HIDE DEF G
  <2>2. requests' \in Seq(G) /\ Calls = Range(requests[i]) \cup Calls'
    BY <1>1, <2>1, AnswerKeeps
  <2>3. QED BY <2>2 DEF G
<1>5. \A c \in Calls : Range(c.ticks) \subseteq tick_bitmap[c.pool]
  BY <1>3 DEF CallsRead
<1>6. BitsInv'
  <2>1. ASSUME NEW p \in Pools PROVE ticks'[p] \subseteq tick_bitmap[p]
    <3>1. ticks[p] \subseteq tick_bitmap[p]
      BY <1>3 DEF BitsInv
    <3>2. QED BY <1>2, <1>4, <1>5, <3>1
  <2>2. QED BY <1>1, <1>3, <2>1 DEF BitsInv
<1>7. CallsRead'
  BY <1>1, <1>3, <1>4, <1>5 DEF CallsRead
<1>8. BitsRead'
  BY <1>1, <1>3, BitsReadStays
<1>9. ASSUME NEW p \in Range(pools), NEW t \in tick_bitmap[p] PROVE t \in ticks'[p] \/ TickAsked(p, t)'
  <2>1. p \in Pools
    BY DEF Range
  <2>2. t \in ticks[p] \/ TickAsked(p, t)
    BY <1>3 DEF DataInv
  <2>3. CASE t \in ticks[p]
    BY <1>2, <2>1, <2>3
  <2>4. CASE TickAsked(p, t)
    <3>1. PICK c \in Calls : c.pool = p /\ t \in Range(c.ticks)
      BY <2>4 DEF TickAsked
    <3>2. CASE c \in Calls'
      <4>1. TickAsked(p, t)'
        BY <3>1, <3>2 DEF TickAsked
      <4>2. QED BY <4>1
    <3>3. CASE c \in Range(requests[i])
      BY <1>2, <2>1, <3>1, <3>3
    <3>4. QED BY <1>4, <3>1, <3>2, <3>3
  <2>5. QED BY <2>2, <2>3, <2>4
<1>10. DataInv'
  <2>1. NoGroup'
    BY <1>1, <1>3 DEF DataInv, NoGroup
  <2>2. QED BY <1>1, <1>6, <1>7, <1>8, <1>9, <2>1 DEF DataInv
<1>11. QED BY <1>1, <1>10 DEF TicksInv, Discovering

\* When nothing is asked for any more, all ticks have their data.
LEMMA TicksReadTicks ==
    ASSUME pools \in Seq(Pools), TicksInv, TicksRead
    PROVE  TicksInv'
<1>1. /\ phase = "data" /\ phase' = "done" /\ requests = <<>> /\ pools' = pools
      /\ UNCHANGED <<initialized, brought, tick_bitmap, ticks>>
  BY DEF TicksRead, chainVars
<1>2. DataInv /\ BitsInv /\ BitsRead
  BY <1>1 DEF TicksInv, DataInv
<1>3. Calls = {}
  BY <1>1, <1>2, NoCalls DEF DataInv, NoGroup
<1>4. \A p \in Range(pools)' : tick_bitmap'[p] \subseteq ticks'[p]
  <2>1. \A p \in Range(pools) : tick_bitmap[p] \subseteq ticks[p]
    BY <1>2, <1>3 DEF DataInv, TickAsked
  <2>2. QED BY <1>1, <2>1
<1>5. BitsInv' /\ BitsRead'
  BY <1>1, <1>2, BitsStay, BitsReadStays
<1>6. DoneInv'
  BY <1>4, <1>5 DEF DoneInv
<1>7. QED BY <1>1, <1>6 DEF TicksInv, Discovering

-----------------------------------------------------------------------------
(* The ticks: the other steps, and what follows.                            *)

\* Nothing is read or asked for at first.
LEMMA TicksInits == BuilderInit => TicksInv
<1> SUFFICES ASSUME BuilderInit PROVE TicksInv
  OBVIOUS
<1>1. /\ phase = "windows" /\ group = <<>> /\ group_size = 0
      /\ tick_bitmap = [p \in Pools |-> {}] /\ ticks = [p \in Pools |-> {}]
      /\ initialized = [p \in Pools |-> {}] /\ brought = [p \in Pools |-> {}]
  BY DEF BuilderInit, FactoryInit
<1>2. BitsInv /\ NothingRead /\ NoGroup
  BY <1>1 DEF BitsInv, NothingRead, NoGroup
<1>3. QED BY <1>1, <1>2 DEF TicksInv

\* Discovery reads nothing.
LEMMA DiscoverTicks ==
    ASSUME BuilderInv, TicksInv, Discover \/ Extend
    PROVE  TicksInv'
<1>1. phase \in {"windows", "logs"} /\ phase' \in {"windows", "logs", "found"}
  BY DEF Discover, Window, LastWindow, WindowLogs, Extend
<1>2. group' = group /\ group_size' = group_size /\ initialized' = initialized /\ ticks' = ticks
  <2>1. CASE Window
    BY <2>1 DEF Window, loopVars, chainVars
  <2>2. CASE LastWindow
    BY <2>2 DEF LastWindow, loopVars, chainVars
  <2>3. CASE \E i \in DOMAIN requests : WindowLogs(i)
    BY <2>3 DEF WindowLogs, loopVars, chainVars
  <2>4. CASE Extend
    BY <2>4 DEF Extend, loopVars
  <2>5. QED BY <2>1, <2>2, <2>3, <2>4 DEF Discover
<1>3. BitsInv /\ NothingRead /\ NoGroup
  BY <1>1 DEF TicksInv, Discovering
<1>4. \A p \in Pools : brought'[p] \subseteq TicksOf(p) /\ tick_bitmap'[p] \subseteq brought'[p]
  <2>1. CASE Discover
    <3>1. brought' = brought /\ tick_bitmap' = tick_bitmap
      BY <2>1 DEF Discover, Window, LastWindow, WindowLogs, chainVars
    <3>2. QED BY <1>3, <3>1 DEF BitsInv, NothingRead
  <2>2. CASE Extend
    <3>1. BringTicks /\ amms \in SUBSET Listed
      BY <2>2 DEF Extend, BuilderInv, BuildTypes
    <3>2. PICK held : /\ \A p \in amms \ fresh : held[p] \in OldTicks[p]
                      /\ brought' = [p \in Pools |-> IF p \in amms \ fresh THEN held[p] ELSE {}]
                      /\ tick_bitmap' = brought'
      BY <3>1 DEF BringTicks
    <3>3. ASSUME NEW p \in Pools PROVE brought'[p] \subseteq TicksOf(p)
      <4>1. CASE p \in amms \ fresh
        BY <3>1, <3>2, <4>1, BuilderAssumption
      <4>2. CASE p \notin amms \ fresh
        BY <3>2, <4>2
      <4>3. QED BY <4>1, <4>2
    <3>4. QED BY <3>2, <3>3
  <2>3. QED BY <2>1, <2>2
<1>5. BitsInv' /\ NothingRead' /\ NoGroup'
  BY <1>2, <1>3, <1>4 DEF BitsInv, NothingRead, NoGroup
<1>6. phase' = "found" => requests' = <<>>
  BY <1>1 DEF Discover, Window, LastWindow, WindowLogs, Extend
<1>7. QED BY <1>1, <1>5, <1>6 DEF TicksInv

\* A step of sync_all_pools keeps it.
LEMMA SyncTicks ==
    ASSUME pools \in Seq(Pools), TicksInv, Sync
    PROVE  TicksInv'
<1>1. CASE ReadPools
  BY <1>1, ReadPoolsTicks
<1>2. CASE GroupWords
  BY <1>2, GroupWordsTicks
<1>3. CASE NextPoolWords
  BY <1>3, NextPoolWordsTicks
<1>4. CASE FlushWords
  BY <1>4, FlushWordsTicks
<1>5. CASE \E i \in DOMAIN requests : WordsAnswer(i) \/ WordsRevert(i)
  <2>1. PICK i \in DOMAIN requests : WordsAnswer(i) \/ WordsRevert(i)
    BY <1>5
  <2>2. CASE WordsAnswer(i)
    BY <2>2, WordsAnswerTicks
  <2>3. CASE WordsRevert(i)
    <3>1. phase' = "reverted"
      BY <2>3 DEF WordsRevert
    <3>2. QED BY <3>1 DEF TicksInv, Discovering
  <2>4. QED BY <2>1, <2>2, <2>3
<1>6. CASE WordsRead
  BY <1>6, WordsReadTicks
<1>7. CASE GroupTicks
  BY <1>7, GroupTicksTicks
<1>8. CASE NextPoolTicks
  BY <1>8, NextPoolTicksTicks
<1>9. CASE FlushTicks
  BY <1>9, FlushTicksTicks
<1>10. CASE \E i \in DOMAIN requests : TicksAnswer(i)
  BY <1>10, TicksAnswerTicks
<1>11. CASE TicksRead
  BY <1>11, TicksReadTicks
<1>12. QED BY <1>1, <1>2, <1>3, <1>4, <1>5, <1>6, <1>7, <1>8, <1>9, <1>10, <1>11 DEF Sync

\* A step that changes nothing keeps it.
LEMMA StutterTicks ==
    ASSUME TicksInv, UNCHANGED factoryVars
    PROVE  TicksInv'
<1>1. /\ initialized' = initialized /\ brought' = brought
      /\ phase' = phase /\ requests' = requests /\ pools' = pools
      /\ queue' = queue /\ min_word' = min_word /\ word_range' = word_range /\ unread' = unread
      /\ group' = group /\ group_size' = group_size /\ tick_bitmap' = tick_bitmap /\ ticks' = ticks
  BY DEF factoryVars, chainVars, loopVars
<1>2. Calls' = Calls
  BY <1>1 DEF Calls
<1>3. (\A p, w : WordAsked(p, w) <=> WordAsked(p, w)') /\ (\A p, t : TickAsked(p, t) <=> TickAsked(p, t)')
  BY <1>2, WordsStay, AskedStay
<1>4. (BitsInv => BitsInv') /\ (NothingRead => NothingRead') /\ (NoGroup => NoGroup')
  BY <1>1, BitsStay DEF NoGroup
<1>5. BitsRead => BitsRead'
  BY <1>1, BitsReadStays
<1>6. CallsRead => CallsRead'
  BY <1>1, <1>2 DEF CallsRead
<1>7. WordLoopInv => WordLoopInv'
  <2>1. \A p, c : CutAt(p, c) => CutAt(p, c)'
    BY <1>1, <1>3 DEF CutAt
  <2>2. (\E c \in Nat : CutAt(queue[1], c)) => \E c \in Nat : CutAt(queue[1], c)'
    <3>1. PICK q : q = queue[1]
      OBVIOUS
    <3>2. queue'[1] = q
      BY <1>1, <3>1
    <3>3. \A c : CutAt(queue[1], c) => CutAt(q, c)'
      BY <2>1, <3>1
    <3>4. QED BY <3>2, <3>3
  <2>3. (\A p \in Range(pools) : p \in Range(queue) \/ \A w \in Kept(p) : WordAsked(p, w))
          => \A p \in Range(pools)' : p \in Range(queue)' \/ \A w \in Kept(p) : WordAsked(p, w)'
    BY <1>1, <1>3
  <2>4. QED BY <1>1, <1>4, <2>2, <2>3 DEF WordLoopInv
<1>8. WordsInv => WordsInv'
  BY <1>1, <1>3, <1>4 DEF WordsInv, Settled
<1>9. TickLoopInv => TickLoopInv'
  BY <1>1, <1>3, <1>4, <1>5, <1>6 DEF TickLoopInv
<1>10. DataInv => DataInv'
  BY <1>1, <1>3, <1>4, <1>5, <1>6 DEF DataInv
<1>11. DoneInv => DoneInv'
  BY <1>1, <1>4, <1>5 DEF DoneInv
<1>12. QED BY <1>1, <1>4, <1>7, <1>8, <1>9, <1>10, <1>11 DEF TicksInv

\* Every step keeps it.
LEMMA TicksNexts ==
    ASSUME BuilderInv, TicksInv, [BuilderNext]_allVars
    PROVE  TicksInv'
<1>1. pools \in Seq(Pools)
  BY DEF BuilderInv, BuildTypes
<1>2. CASE Discover \/ Extend
  BY <1>2, DiscoverTicks
<1>3. CASE Sync
  BY <1>1, <1>3, SyncTicks
<1>4. CASE UNCHANGED factoryVars
  BY <1>4, StutterTicks
<1>5. CASE NodeFails \/ Merge \/ InitFails \/ Built
  <2>1. phase' \in {"failed", "merged", "built"}
    BY <1>5 DEF NodeFails, Merge, InitFails, Built
  <2>2. QED BY <2>1 DEF TicksInv, Discovering
<1>6. CASE \E p \in Others : InitOne(p)
  <2>1. UNCHANGED factoryVars
    BY <1>6 DEF InitOne
  <2>2. QED BY <2>1, StutterTicks
<1>7. CASE UNCHANGED allVars
  <2>1. UNCHANGED factoryVars
    BY <1>7 DEF allVars
  <2>2. QED BY <2>1, StutterTicks
<1>8. QED BY <1>2, <1>3, <1>4, <1>5, <1>6, <1>7 DEF BuilderNext

\* What is known is what is there, but for the words that are lost or zero.
LEMMA InvRecovers == BuilderInv /\ TicksInv => TicksRecovered
<1> SUFFICES ASSUME BuilderInv, TicksInv, phase = "done", NEW p \in Range(pools)
             PROVE  /\ ticks[p] = tick_bitmap[p]
                    /\ \A t \in initialized[p] \ ticks[p] : Lost(p, t)
                    /\ \A t \in ticks[p] \ initialized[p] :
                          /\ t \in brought[p]
                          /\ Lost(p, t) \/ \A u \in initialized[p] : WordOf(u) # WordOf(t)
  BY DEF TicksRecovered
<1>1. DoneInv
  BY DEF TicksInv
<1>2. p \in Pools
  BY DEF BuilderInv, BuildTypes, Range
<1>3. /\ initialized[p] \subseteq TicksOf(p) /\ brought[p] \subseteq TicksOf(p)
      /\ tick_bitmap[p] \subseteq initialized[p] \cup brought[p] /\ ticks[p] = tick_bitmap[p]
      /\ \A w \in Kept(p) : Settled(p, w)
  BY <1>1, <1>2 DEF DoneInv, BitsInv, BitsRead
<1>4. LostWords(p) \in Int /\ MaxWord[p] \in Int /\ MinWord[p] \in Int
  <2>1. MaxWord[p] - MinWord[p] + max_range - 2 \in Int /\ max_range \in Nat /\ max_range > 0
    BY <1>2, PoolWords
  <2>2. QED BY <1>2, <2>1, PoolWords DEF LostWords
<1>5. ASSUME NEW t \in TicksOf(p), ~Lost(p, t) PROVE Settled(p, WordOf(t))
  <2>1. WordOf(t) \in Int /\ WordOf(t) >= MinWord[p]
    BY <1>2, WordInPool
  <2>2. WordOf(t) \in Kept(p)
    BY <1>4, <1>5, <2>1 DEF Kept, Lost
  <2>3. QED BY <1>3, <2>2
<1>6. ASSUME NEW t \in initialized[p], t \notin ticks[p] PROVE Lost(p, t)
  <2>1. t \in TicksOf(p) /\ ~Settled(p, WordOf(t))
    BY <1>3, <1>6 DEF Settled
  <2>2. QED BY <1>5, <2>1
<1>7. ASSUME NEW t \in ticks[p], t \notin initialized[p]
      PROVE  t \in brought[p] /\ (Lost(p, t) \/ \A u \in initialized[p] : WordOf(u) # WordOf(t))
  <2>1. t \in brought[p] /\ t \in TicksOf(p)
    BY <1>3, <1>7
  <2>2. Settled(p, WordOf(t)) => \A u \in initialized[p] : WordOf(u) # WordOf(t)
    BY <1>3, <1>7 DEF Settled
  <2>3. QED BY <1>5, <2>1, <2>2
<1>8. QED BY <1>3, <1>6, <1>7

\* UniswapV3Factory.TicksRecovered, for any pools, ticks, limits of requests and
\* orders of answers: what is known of a pool after sync_tick_bitmaps and
\* sync_tick_data is what its contract holds, but for one word at its top for
\* each cut and for what a listed pool brought in words that are zero now.
THEOREM TicksRecoveredHolds == BuilderSpec => []TicksRecovered
<1>1. BuilderInit => BuilderInv /\ TicksInv
  BY BuilderInits, TicksInits
<1>2. BuilderInv /\ TicksInv /\ [BuilderNext]_allVars => (BuilderInv /\ TicksInv)'
  BY BuilderNexts, TicksNexts
<1>3. QED BY <1>1, <1>2, InvRecovers, PTL DEF BuilderSpec

-----------------------------------------------------------------------------
(* The types.                                                               *)

\* Of the types, what the phases do not tell.
KeptTypes ==
    /\ block_number \in creation_block..MaxTip
    /\ \A p \in Pools : ticks[p] \subseteq tick_bitmap[p]
                        /\ tick_bitmap[p] \subseteq initialized[p] \cup brought[p]
    /\ phase \in {"windows", "logs", "bitmaps", "words", "ticks", "data", "done", "merged",
                  "built", "found", "failed", "reverted"}
    /\ latest_block \in creation_block..block_number + 1
    /\ queue \in Seq(Pools)
    /\ \A i \in DOMAIN group : group[i] \in Calldata
    /\ group_size \in 0..Max({max_range, max_ticks})

\* Each part of a request is one of words or of ticks.
LEMMA CallsTyped == WordCalls \subseteq Calldata /\ TickCalls \subseteq Calldata
  BY DEF WordCalls, TickCalls, Calldata

\* No group grows beyond the greater of the two limits.
LEMMA GreaterLimit ==
    /\ Max({max_range, max_ticks}) \in Nat
    /\ max_range <= Max({max_range, max_ticks}) /\ max_ticks <= Max({max_range, max_ticks})
<1> DEFINE x == max_range
           y == max_ticks
           m == IF x >= y THEN x ELSE y
<1>1. x \in Nat /\ y \in Nat
  BY FactoryAssumption
<1> HIDE DEF x, y
<1>2. m \in {x, y} /\ \A z \in {x, y} : m >= z
  BY <1>1
<1>3. \A n \in {x, y} : (\A z \in {x, y} : n >= z) => n = m
  BY <1>1
<1>4. Max({x, y}) = m
  <2> HIDE DEF m
  <2>1. QED BY <1>2, <1>3 DEF Max
<1>5. QED BY <1>1, <1>4 DEF x, y

\* They hold at first.
LEMMA TypesInit == BuilderInit => KeptTypes
<1> SUFFICES ASSUME BuilderInit PROVE KeptTypes
  OBVIOUS
<1>1. /\ block_number \in creation_block..MaxTip /\ phase = "windows" /\ latest_block = creation_block
      /\ tick_bitmap = [p \in Pools |-> {}] /\ ticks = [p \in Pools |-> {}]
      /\ queue = <<>> /\ group = <<>> /\ group_size = 0
  BY DEF BuilderInit, FactoryInit
<1>2. creation_block \in Nat /\ MaxTip \in Nat
  BY FactoryAssumption
<1>3. group_size \in 0..Max({max_range, max_ticks})
  BY <1>1, GreaterLimit
<1>4. DOMAIN group = {}
  BY <1>1
<1>5. latest_block \in creation_block..block_number + 1
  BY <1>1, <1>2
<1>6. QED BY <1>1, <1>3, <1>4, <1>5 DEF KeptTypes

\* What a step does to the variables that are not of its phase.
LEMMA StepsAre ==
    ASSUME [BuilderNext]_allVars
    PROVE  /\ block_number' = block_number
           /\ phase' \in {"windows", "logs"} \/ latest_block' = latest_block
           /\ phase' \in {"bitmaps", "words", "ticks", "data"} \/
                 (group' = group /\ group_size' = group_size)
           /\ phase' \in {"found", "bitmaps", "words", "ticks", "data", "done"} \/
                 UNCHANGED <<initialized, brought, tick_bitmap, ticks>>
           /\ phase' \in {"bitmaps", "ticks"} \/ queue' = queue
           /\ phase' = phase \/ phase' \in
                 {"windows", "logs", "bitmaps", "words", "ticks", "data", "done", "merged",
                  "built", "found", "failed", "reverted"}
<1>1. CASE Window
  BY <1>1 DEF Window, chainVars, loopVars
<1>2. CASE LastWindow
  BY <1>2 DEF LastWindow, chainVars, loopVars
<1>3. CASE \E i \in DOMAIN requests : WindowLogs(i)
  BY <1>3 DEF WindowLogs, chainVars, loopVars
<1>4. CASE ReadPools
  BY <1>4 DEF ReadPools
<1>5. CASE GroupWords
  BY <1>5 DEF GroupWords, chainVars
<1>6. CASE NextPoolWords
  BY <1>6 DEF NextPoolWords, chainVars
<1>7. CASE FlushWords \/ FlushTicks
  BY <1>7 DEF FlushWords, FlushTicks, FlushTo, chainVars
<1>8. CASE \E i \in DOMAIN requests : WordsAnswer(i)
  BY <1>8 DEF WordsAnswer, chainVars, loopVars
<1>9. CASE \E i \in DOMAIN requests : WordsRevert(i)
  BY <1>9 DEF WordsRevert, chainVars, loopVars
<1>10. CASE WordsRead
  <2>1. phase' = "ticks" /\ UNCHANGED <<chainVars, latest_block>>
    BY <1>10 DEF WordsRead
  <2>2. QED BY <2>1 DEF chainVars
<1>11. CASE GroupTicks
  BY <1>11 DEF GroupTicks, chainVars
<1>12. CASE NextPoolTicks
  BY <1>12 DEF NextPoolTicks, chainVars
<1>13. CASE \E i \in DOMAIN requests : TicksAnswer(i)
  BY <1>13 DEF TicksAnswer, chainVars, loopVars
<1>14. CASE TicksRead
  BY <1>14 DEF TicksRead, chainVars, loopVars
<1>15. CASE NodeFails
  BY <1>15 DEF NodeFails, chainVars, loopVars
<1>16. CASE Extend
  BY <1>16 DEF Extend, chainVars, loopVars
<1>17. CASE Merge
  BY <1>17 DEF Merge, chainVars, loopVars
<1>18. CASE \E p \in Others : InitOne(p)
  BY <1>18 DEF InitOne, factoryVars, chainVars, loopVars
<1>19. CASE InitFails
  BY <1>19 DEF InitFails, chainVars, loopVars
<1>20. CASE Built
  BY <1>20 DEF Built, chainVars, loopVars
<1>21. CASE UNCHANGED allVars
  BY <1>21 DEF allVars, factoryVars, chainVars, loopVars
<1>22. QED BY <1>1, <1>2, <1>3, <1>4, <1>5, <1>6, <1>7, <1>8, <1>9, <1>10, <1>11, <1>12, <1>13, <1>14,
              <1>15, <1>16, <1>17, <1>18, <1>19, <1>20, <1>21 DEF BuilderNext, Discover, Sync

\* Every step keeps them.
LEMMA TypesNext ==
    ASSUME KeptTypes, [BuilderNext]_allVars, BuilderInv', TicksInv'
    PROVE  KeptTypes'
<1>1. block_number' \in creation_block..MaxTip
  BY StepsAre DEF KeptTypes
<1>2. \A p \in Pools : ticks'[p] \subseteq tick_bitmap'[p]
                        /\ tick_bitmap'[p] \subseteq initialized'[p] \cup brought'[p]
  <2>1. CASE phase' \in {"found", "bitmaps", "words", "ticks", "data", "done"}
    <3>1. BitsInv'
      BY <2>1 DEF TicksInv, Discovering, WordLoopInv, WordsInv, TickLoopInv, DataInv, DoneInv
    <3>2. QED BY <3>1 DEF BitsInv
  <2>2. CASE UNCHANGED <<initialized, brought, tick_bitmap, ticks>>
    BY <2>2 DEF KeptTypes
  <2>3. QED BY <2>1, <2>2, StepsAre
<1>3. phase' \in {"windows", "logs", "bitmaps", "words", "ticks", "data", "done", "merged",
                  "built", "found", "failed", "reverted"}
  BY StepsAre DEF KeptTypes
<1>4. latest_block' \in creation_block..block_number' + 1
  <2>1. CASE phase' \in {"windows", "logs"}
    BY <2>1 DEF BuilderInv, DiscoveryInv
  <2>2. CASE latest_block' = latest_block
    BY <2>2, StepsAre DEF KeptTypes
  <2>3. QED BY <2>1, <2>2, StepsAre
<1>5. queue' \in Seq(Pools)
  <2>1. CASE phase' \in {"bitmaps", "ticks"}
    BY <2>1 DEF TicksInv, WordLoopInv, TickLoopInv
  <2>2. CASE queue' = queue
    BY <2>2 DEF KeptTypes
  <2>3. QED BY <2>1, <2>2, StepsAre
<1>6. (\A i \in DOMAIN group' : group'[i] \in Calldata) /\ group_size' \in 0..Max({max_range, max_ticks})
  <2> DEFINE m == Max({max_range, max_ticks})
  <2>1. m \in Nat /\ max_range \in Nat /\ max_ticks \in Nat /\ max_range <= m /\ max_ticks <= m
    BY GreaterLimit, FactoryAssumption
  <2> HIDE DEF m
  <2>2. CASE phase' = "bitmaps"
    <3>1. group' \in Seq(WordCalls) /\ group_size' \in 0..max_range - 1
      BY <2>2 DEF TicksInv, WordLoopInv
    <3>2. \A i \in DOMAIN group' : group'[i] \in WordCalls
      BY <3>1
    <3>3. QED BY <2>1, <3>1, <3>2, CallsTyped DEF m
  <2>3. CASE phase' = "ticks"
    <3>1. group' \in Seq(TickCalls) /\ group_size' \in 0..max_ticks - 1
      BY <2>3 DEF TicksInv, TickLoopInv, CallsRead
    <3>2. \A i \in DOMAIN group' : group'[i] \in TickCalls
      BY <3>1
    <3>3. QED BY <2>1, <3>1, <3>2, CallsTyped DEF m
  <2>4. CASE phase' \in {"words", "data"}
    <3>1. group' = <<>> /\ group_size' = 0
      BY <2>4 DEF TicksInv, WordsInv, DataInv, NoGroup
    <3>2. QED BY <2>1, <3>1 DEF m
  <2>5. CASE group' = group /\ group_size' = group_size
    BY <2>5 DEF KeptTypes
  <2>6. QED BY <2>2, <2>3, <2>4, <2>5, StepsAre
<1>7. QED BY <1>1, <1>2, <1>3, <1>4, <1>5, <1>6 DEF KeptTypes

\* The types follow.
LEMMA InvTypes == BuilderInv /\ TicksInv /\ KeptTypes => FactoryTypeOK
<1> SUFFICES ASSUME BuilderInv, TicksInv, KeptTypes PROVE FactoryTypeOK
  OBVIOUS
<1>1. created \in [Pools -> creation_block..block_number] /\ pools \in Seq(Pools)
  BY DEF BuilderInv, BuildTypes
<1>2. ASSUME queue # <<>>, phase = "bitmaps"
      PROVE  min_word \in WordsOf(queue[1]) /\ word_range \in Nat
  <2>1. queue[1] \in Pools /\ \E c \in Nat : CutAt(queue[1], c)
    BY <1>2 DEF TicksInv, WordLoopInv
  <2>2. PICK c \in Nat : CutAt(queue[1], c)
    BY <2>1
  <2> DEFINE M == MinWord[queue[1]]
             n == MaxWord[queue[1]] - M
             R == max_range
             W == word_range
  <2>3. M \in Int /\ n \in Int /\ n >= 1 /\ R \in Nat /\ R >= 1 /\ MaxWord[queue[1]] = M + n
    BY <2>1, PoolWords
  <2>4. /\ W \in 0..n /\ min_word = M + (n - W) - c
        /\ c = 0 => W = n
        /\ c > 0 /\ W > 0 => (c - 1) * R + 1 + W <= n
        /\ c > 0 /\ W = 0 => (c - 1) * R <= n + R - 2
    BY <2>2 DEF CutAt
  <2> HIDE DEF M, n, R, W
  <2>5. c <= n - W
    <3>1. CASE c = 0
      BY <2>3, <2>4, <3>1
    <3>2. CASE c > 0 /\ W > 0
      <4>1. (c - 1) * R >= c - 1 /\ (c - 1) * R \in Int
        BY <2>3, <3>2
      <4>2. QED BY <2>3, <2>4, <3>2, <4>1
    <3>3. CASE c = 1 /\ W = 0
      BY <2>3, <2>4, <3>3
    <3>4. CASE c > 1 /\ W = 0
      <4>1. (c - 1) * R = (c - 2) * R + R /\ (c - 2) * R >= c - 2 /\ (c - 2) * R \in Int
        BY <2>3, <3>4
      <4>2. QED BY <2>3, <2>4, <3>4, <4>1
    <3>5. QED BY <2>3, <2>4, <3>1, <3>2, <3>3, <3>4
  <2>6. min_word \in M..M + n /\ W \in Nat
    BY <2>3, <2>4, <2>5
  <2>7. QED BY <2>3, <2>6 DEF WordsOf, M, W
<1>3. QED BY <1>1, <1>2 DEF KeptTypes, FactoryTypeOK

\* UniswapV3Factory.FactoryTypeOK, for any pools, words and limits: no loop
\* leaves the words of its pool, nor a group its limit.
THEOREM FactoryTypes == BuilderSpec => []FactoryTypeOK
<1>1. BuilderInit => BuilderInv /\ TicksInv /\ KeptTypes
  BY BuilderInits, TicksInits, TypesInit
<1>2. BuilderInv /\ TicksInv /\ KeptTypes /\ [BuilderNext]_allVars => (BuilderInv /\ TicksInv /\ KeptTypes)'
  BY BuilderNexts, TicksNexts, TypesNext
<1>3. QED BY <1>1, <1>2, InvTypes, PTL DEF BuilderSpec
=============================================================================
