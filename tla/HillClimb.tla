----------------------------- MODULE HillClimb -----------------------------
(***************************************************************************)
(* best_path_simulation of the services and monitors under examples: the    *)
(* input of a path that gains most, searched from the better of the lowest, *)
(* the highest and the middle input by steps up or down that are halved     *)
(* when neither gains.                                                      *)
(***************************************************************************)
EXTENDS Integers

CONSTANTS
    MinInput, MaxInput,
    MAX_ITERATIONS,   \* (64)
    Curves            \* what paths gain: [profit, fails] for every input

Inputs == MinInput..MaxInput

ASSUME ClimbAssumption ==
    /\ MinInput \in Nat \ {0}
    /\ MaxInput \in Nat
    /\ MinInput <= MaxInput
    /\ MAX_ITERATIONS \in Nat
    /\ Curves \subseteq [profit : [Inputs -> Int], fails : SUBSET Inputs]

VARIABLES
    curve,
    at,          \* "start", "climb", "found", "none" when all three fail,
                 \* or "over" when its caller has the result
    best,        \* the input of best, current_input too
    step,
    iterations

climbVars == <<curve, at, best, step, iterations>>

Gain(x) == curve.profit[x]

\* evaluate: an input out of range or a failing simulation is no candidate.
Evaluates(x) == x \in Inputs /\ x \notin curve.fails

Improves(x, y) == Evaluates(x) /\ Gain(x) > Gain(y)

ClimbInit ==
    /\ curve \in Curves
    /\ at = "start"
    /\ best = MinInput
    /\ step = 0
    /\ iterations = 0

\* The lowest, the highest and the middle input, in this order; the first of
\* equals is kept.
Middle == MinInput + (MaxInput - MinInput) \div 2

FirstBest(x) ==
    /\ x \in {MinInput, MaxInput, Middle}
    /\ Evaluates(x)
    /\ \A y \in {MinInput, MaxInput, Middle} : ~Improves(y, x)
    /\ x = MaxInput => ~(Evaluates(MinInput) /\ Gain(MinInput) >= Gain(x))
    /\ x = Middle => \A y \in {MinInput, MaxInput} : ~(Evaluates(y) /\ y # x /\ Gain(y) >= Gain(x))

FirstStep ==
    LET quarter == (MaxInput - MinInput) \div 4
    IN  IF quarter = 0 THEN 1 ELSE quarter

Start ==
    /\ at = "start"
    /\ \E x \in Inputs : FirstBest(x) /\ best' = x
    /\ IF MaxInput = MinInput
       THEN at' = "found" /\ step' = 0
       ELSE at' = "climb" /\ step' = FirstStep
    /\ UNCHANGED <<curve, iterations>>

StartFails ==
    /\ at = "start"
    /\ {MinInput, MaxInput, Middle} \subseteq curve.fails
    /\ at' = "none"
    /\ UNCHANGED <<curve, best, step, iterations>>

\* The end of an iteration: the loop is left when the step is used up or the
\* last iteration is over.
Iterated(s) ==
    /\ step' = s
    /\ iterations' = iterations + 1
    /\ at' = IF s = 0 \/ iterations' = MAX_ITERATIONS THEN "found" ELSE "climb"
    /\ UNCHANGED curve

Up ==
    /\ at = "climb"
    /\ iterations < MAX_ITERATIONS
    /\ Improves(best + step, best)
    /\ best' = best + step
    /\ Iterated(step)

Down ==
    /\ at = "climb"
    /\ iterations < MAX_ITERATIONS
    /\ ~Improves(best + step, best)
    /\ Improves(best - step, best)
    /\ best' = best - step
    /\ Iterated(step)

\* Variant: the step is halved without a look downwards.
HalveEarly ==
    /\ at = "climb"
    /\ iterations < MAX_ITERATIONS
    /\ ~Improves(best + step, best)
    /\ Iterated(step \div 2)
    /\ UNCHANGED best

Halve ==
    /\ at = "climb"
    /\ iterations < MAX_ITERATIONS
    /\ ~Improves(best + step, best)
    /\ ~Improves(best - step, best)
    /\ Iterated(step \div 2)
    /\ UNCHANGED best

\* No iteration is allowed.
NoIteration ==
    /\ at = "climb"
    /\ iterations = MAX_ITERATIONS
    /\ at' = "found"
    /\ UNCHANGED <<curve, best, step, iterations>>

Climb == Start \/ StartFails \/ Up \/ Down \/ Halve \/ NoIteration

-----------------------------------------------------------------------------
\* The gain rises strictly up to the input k and falls strictly from there.
PeaksAt(k) ==
    /\ k \in Inputs
    /\ curve.fails = {}
    /\ \A x, y \in Inputs : x < y /\ y <= k => Gain(x) < Gain(y)
    /\ \A x, y \in Inputs : k <= x /\ x < y => Gain(y) < Gain(x)

(* Types of the search.                                                     *)
ClimbTypeOK ==
    /\ curve \in Curves
    /\ at \in {"start", "climb", "found", "none", "over"}
    /\ best \in Inputs
    /\ step \in Nat
    /\ iterations \in 0..MAX_ITERATIONS
    /\ at = "climb" => step > 0

\* Where the gain has one peak the search never loses it: it is within two
\* steps of the best input so far and one more, also when the iterations run
\* out, and it is found when the step is used up.
PeakWithinReach ==
    at \in {"climb", "found"} =>
        \A k \in Inputs : PeaksAt(k) =>
            IF step = 0 THEN best = k
            ELSE best - (2 * step + 1) <= k /\ k <= best + 2 * step + 1
=============================================================================
