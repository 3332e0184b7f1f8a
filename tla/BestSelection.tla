--------------------------- MODULE BestSelection ---------------------------
(***************************************************************************)
(* What the monitors of the examples (protocols/agni/monitor_pools_for_v2   *)
(* and _v3, protocols/moe/monitor_moe_lb_arbitrage, test/monitor_pools) do  *)
(* with the profits of a block (log_path_simulations): paths that are new   *)
(* or whose profit has changed enough are written to a file, and            *)
(* select_best_non_conflicting_paths looks by backtracking for the paths    *)
(* that share no pool and gain most together.  The services select greedily *)
(* instead (GreedySelection).  MonitorLoop supplies the blocks.             *)
(***************************************************************************)
EXTENDS Naturals, Sequences, FiniteSets, FiniteSetsExt, GreedySelection

CONSTANTS
    Paths,
    PoolMaps,   \* the pools of every path, in the situations considered
    Profits,    \* profits after gas a search may find
    HOPS,       \* the most pools a path has (4)
    THRESHOLD   \* PROFIT_CHANGE_THRESHOLD, in percent (5)

ASSUME SelectionAssumption ==
    /\ IsFiniteSet(Paths)
    /\ HOPS \in Nat
    /\ \A m \in PoolMaps : DOMAIN m = Paths
    /\ \A m \in PoolMaps, p \in Paths : IsFiniteSet(m[p]) /\ Cardinality(m[p]) \in 1..HOPS
    /\ Profits \subseteq Nat \ {0}
    /\ THRESHOLD \in Nat \ {0}

VARIABLES
    poolsOf,
    pc,
    profit,             \* of the paths of this block's candidates
    logged,             \* LOGGED_PATHS: the profit a path was logged with
    csv,                \* the last profit of a path in the file
    sorted,             \* candidates by falling profit
    combination,        \* current_combination: places in sorted
    used_pools,
    at,                 \* the i of the innermost backtrack
    best_combination,
    best_total

searchVars == <<sorted, combination, used_pools, at, best_combination, best_total>>
logVars == <<logged, csv>>
vars == <<poolsOf, pc, profit, logVars, searchVars>>

Candidates == DOMAIN profit

SelectionInit ==
    /\ poolsOf \in PoolMaps
    /\ profit = <<>>
    /\ logged = <<>>
    /\ csv = <<>>
    /\ sorted = <<>>
    /\ combination = <<>>
    /\ used_pools = {}
    /\ at = 1
    /\ best_combination = <<>>
    /\ best_total = 0

-----------------------------------------------------------------------------
(* The file.                                                                *)

\* should_log_path: new, or changed by the threshold at least (a comment of the
\* program says by more).
ShouldLog(p, gain) ==
    \/ p \notin DOMAIN logged
    \/ LET was == logged[p]
           diff == IF gain > was THEN gain - was ELSE was - gain
       IN  diff * 100 >= THRESHOLD * was

\* f with the gains of some paths put in.
Updated(f, gains, S) == [p \in S \cup DOMAIN f |-> IF p \in S THEN gains[p] ELSE f[p]]

\* Variant: every candidate is remembered as logged.
UpdateAll(gains, toLog) == Updated(logged, gains, DOMAIN gains)

UpdateLogged(gains, toLog) == Updated(logged, gains, toLog)

\* The candidates that come out of the simulations, one per path.
Log(gains) ==
    LET toLog == {p \in DOMAIN gains : ShouldLog(p, gains[p])}
    IN  /\ profit' = gains
        /\ csv' = Updated(csv, gains, toLog)
        /\ logged' = UpdateLogged(gains, toLog)
        /\ pc' = "sort"
        /\ UNCHANGED <<poolsOf, searchVars>>

-----------------------------------------------------------------------------
(* The search.                                                              *)

\* The candidates come out of a hash map: equal profits in any order.
Sort(order) ==
    /\ pc = "sort"
    /\ ToSet(order) = Candidates
    /\ \A i, j \in DOMAIN order : i < j => profit[order[i]] >= profit[order[j]]
    /\ sorted' = order
    /\ combination' = <<>>
    /\ used_pools' = {}
    /\ at' = 1
    /\ best_combination' = <<>>
    /\ best_total' = 0
    /\ pc' = "enter"
    /\ UNCHANGED <<poolsOf, profit, logVars>>

Gain(places) == MapThenSumSet(LAMBDA i : profit[sorted[i]], places)

\* backtrack is entered: the combination so far is compared with the best.
Enter ==
    /\ pc = "enter"
    /\ IF Gain(ToSet(combination)) > best_total
       THEN /\ best_total' = Gain(ToSet(combination))
            /\ best_combination' = combination
       ELSE UNCHANGED <<best_total, best_combination>>
    /\ pc' = "loop"
    /\ UNCHANGED <<poolsOf, profit, logVars, sorted, combination, used_pools, at>>

PoolsAt(i) == poolsOf[sorted[i]]

Skip ==
    /\ pc = "loop"
    /\ at \in DOMAIN sorted
    /\ PoolsAt(at) \cap used_pools # {}
    /\ at' = at + 1
    /\ UNCHANGED <<poolsOf, pc, profit, logVars, sorted, combination, used_pools,
                   best_combination, best_total>>

Push ==
    /\ pc = "loop"
    /\ at \in DOMAIN sorted
    /\ PoolsAt(at) \cap used_pools = {}
    /\ used_pools' = used_pools \cup PoolsAt(at)
    /\ combination' = Append(combination, at)
    /\ at' = at + 1
    /\ pc' = "enter"
    /\ UNCHANGED <<poolsOf, profit, logVars, sorted, best_combination, best_total>>

\* The inner backtrack returns: the loop of the outer one goes on.
\* Variant: the pools stay in use.
PopKeeping ==
    /\ pc = "loop"
    /\ at \notin DOMAIN sorted
    /\ combination # <<>>
    /\ combination' = Front(combination)
    /\ at' = Last(combination) + 1
    /\ UNCHANGED <<poolsOf, pc, profit, logVars, sorted, used_pools, best_combination,
                   best_total>>

Pop ==
    /\ pc = "loop"
    /\ at \notin DOMAIN sorted
    /\ combination # <<>>
    /\ combination' = Front(combination)
    /\ used_pools' = used_pools \ PoolsAt(Last(combination))
    /\ at' = Last(combination) + 1
    /\ UNCHANGED <<poolsOf, pc, profit, logVars, sorted, best_combination, best_total>>

\* backtrack returns to select_best_non_conflicting_paths.
SearchEnded == pc = "loop" /\ at \notin DOMAIN sorted /\ combination = <<>>

\* The paths selected, with their profits, from the best on.
Selection == [k \in DOMAIN best_combination |->
                LET p == sorted[best_combination[k]] IN [path |-> p, profit |-> profit[p]]]

Search ==
    \/ \E order \in SetToSeqs(Candidates) : Sort(order)
    \/ Enter
    \/ Skip
    \/ Push
    \/ Pop

\* log_path_simulations returns: its locals are gone.
Forget ==
    /\ profit' = <<>>
    /\ sorted' = <<>>
    /\ combination' = <<>>
    /\ used_pools' = {}
    /\ at' = 1
    /\ best_combination' = <<>>
    /\ best_total' = 0

\* The services' choice, of gains before gas.
\* Variant: they sort by rising profit.
GreedyRising == ToSet(SelectFrom(Reverse(sorted), poolsOf))

Greedy == ToSet(SelectFrom(sorted, poolsOf))

-----------------------------------------------------------------------------
ConflictFree(places) ==
    \A i, j \in places : i # j => ~SharesPool(sorted[i], sorted[j], poolsOf)

\* The search ends with paths that share no pool and gain most of all such
\* sets of the block's candidates.
SelectionIsBest ==
    pc = "reported" =>
        /\ ConflictFree(ToSet(best_combination))
        /\ best_total = Gain(ToSet(best_combination))
        /\ \A places \in SUBSET DOMAIN sorted :
              ConflictFree(places) => Gain(places) <= best_total

\* The services' choice, made of the same candidates by the gains the monitors
\* compare (before gas, where the services compare net profits), gains at least a
\* share of 1/HOPS of that: each path left out shares a pool with a better one.
GreedyWithinHops ==
    pc = "reported" =>
        HOPS * Gain({i \in DOMAIN sorted : sorted[i] \in Greedy}) >= best_total

\* The last profit of a path in the file is never off by the threshold, also
\* when it has drifted there in small steps over many blocks.
FileIsCurrent ==
    pc = "reported" =>
        \A p \in Candidates :
            LET was == csv[p]
                diff == IF profit[p] > was THEN profit[p] - was ELSE was - profit[p]
            IN  diff * 100 < THRESHOLD * was
=============================================================================
