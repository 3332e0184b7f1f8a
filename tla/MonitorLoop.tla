---------------------------- MODULE MonitorLoop ----------------------------
(***************************************************************************)
(* The programs of the examples that watch pools and report arbitrage, but  *)
(* do not trade: monitor_pools_for_v2 and _v3 under protocols/agni,         *)
(* protocols/moe/monitor_moe_lb_arbitrage and test/monitor_pools, which     *)
(* follows Agni pools and pairs together.  Each one takes block heads,      *)
(* applies the logs of the block before (BlockFeed), prices paths on its    *)
(* copies and reports them (BestSelection).                                 *)
(***************************************************************************)
EXTENDS BestSelection, BlockFeed

CONSTANTS
    Programs,    \* of "v2", "v3", "moe" and "test"
    Pairs,       \* the pools of "test" that are V2 pairs
    Gains,       \* the profits a block may bring, for some paths
    Unsynced,    \* pools whose logs may fail to apply
    Drained,     \* the sets of Moe pools that may hold nothing at a start
    MaxStops,    \* bound on the times the program ends
    Failures     \* calls that may fail: "logs", "slot", "bins", "disk"

VARIABLES
    program,
    indexed,        \* the pools the paths of the index are made of
    target,         \* target_number
    pools,          \* the copies
    changed,
    unread,         \* changed pools that could not be read again
    stale,          \* paths whose pools changed since they were priced
    last_selection, \* LAST_SELECTION
    best_path,      \* the last row of best_arbitrage_paths.csv
    stops

ASSUME MonitorAssumption ==
    /\ Programs \subseteq {"v2", "v3", "moe", "test"}
    /\ PoolMaps \subseteq [Paths -> SUBSET Pools]
    /\ Gains \subseteq UNION {[S -> Profits] : S \in SUBSET Paths}
    /\ Activity \subseteq SUBSET Pools /\ Drained \subseteq SUBSET Pools
    /\ HEADS \in Nat \ {0} /\ MaxBlocks \in Nat \ {0}

loopVars == <<indexed, target, pools, changed, unread, stale>>
reportVars == <<last_selection, best_path>>
mvars == <<vars, feedVars, program, loopVars, reportVars, stops>>

\* The pools an index is built from: "moe" leaves out those that hold nothing
\* when it starts, and never builds it again (is_pool_reasonable).
MoeIndexes == {Pools \ drained : drained \in Drained}

Indexes == IF program = "moe" THEN MoeIndexes ELSE {Pools}

\* Of the pools, those of "moe" are also taken without bins.
MoeFirstReads == IF "bins" \in Failures THEN {{"slot", "bins"}, {"slot"}} ELSE {{"slot", "bins"}}

FirstReads == IF program = "moe" THEN MoeFirstReads ELSE {{"slot", "bins"}}

\* The pools are read at the latest block, LAST_SELECTION and LOGGED_PATHS are
\* empty; the files are what earlier runs have left.
Init ==
    /\ SelectionInit
    /\ program \in Programs
    /\ pc = "init"
    /\ blocks \in [1..1 -> Activity]
    /\ heads = <<>>
    /\ target = 0
    /\ indexed \in Indexes
    /\ \E read \in FirstReads : pools = [p \in Pools |-> FirstRead(p, 1, read)]
    /\ changed = {}
    /\ unread = {}
    /\ stale = {}
    /\ last_selection = <<>>
    /\ best_path = <<>>
    /\ stops = 0

\* A block is mined.  The search awaits nothing and reads nothing of the
\* subscription: blocks that come during it are as if they came before.
Mine(S) ==
    /\ pc \in {"init", "head", "price", "down"}
    /\ MineBlock(S, pc \in {"head", "price"})
    /\ UNCHANGED <<vars, program, loopVars, reportVars, stops>>

\* subscribe_blocks, after the pools were read and the paths built.
Subscribe ==
    /\ pc = "init"
    /\ pc' = "head"
    /\ UNCHANGED <<poolsOf, profit, logVars, searchVars, feedVars, program, loopVars,
                   reportVars, stops>>

-----------------------------------------------------------------------------
(* Logs.                                                                    *)

Kind(p) == CASE program = "v2"  -> "pair"
             [] program = "v3"  -> "agni"
             [] program = "moe" -> "moe"
             [] OTHER           -> IF p \in Pairs THEN "pair" ELSE "agni"

\* What a copy is after its logs in the target block.
Applied(p, read) == CASE Kind(p) = "moe"  -> ReadAgain(p, pools[p], target', read)
                      [] Kind(p) = "agni" -> Appended(pools[p], target')
                      [] OTHER            -> Told(p, target')

\* v2 and test price after every block, v3 and moe after a change.
V2Prices == TRUE
V3Prices == changed' # {}
MoePrices == changed' # {}
TestPrices == TRUE

Prices == CASE program = "v2"  -> V2Prices
            [] program = "v3"  -> V3Prices
            [] program = "moe" -> MoePrices
            [] OTHER           -> TestPrices

\* A log that does not apply is reported and skipped.
TakeBlock(skipped, read) ==
    /\ pc = "head"
    /\ heads # <<>>
    /\ target' = Head(heads) - 1
    /\ heads' = Tail(heads)
    /\ skipped \subseteq blocks[target'] \cap Unsynced
    /\ {"slot", "bins"} \ read \subseteq Failures
    /\ program = "moe" \/ read = {"slot", "bins"}
    /\ changed' = blocks[target'] \ skipped
    /\ unread' = IF read = {"slot", "bins"} THEN {} ELSE changed'
    /\ pools' = [p \in Pools |-> IF p \in changed' THEN Applied(p, read) ELSE pools[p]]
    /\ stale' = stale \cup
                {q \in Paths : \E p \in poolsOf[q] : p \in changed' /\ pools'[p] # pools[p]}
    /\ pc' = IF Prices THEN "price" ELSE "head"
    /\ UNCHANGED <<poolsOf, profit, logVars, searchVars, blocks, program, indexed, reportVars,
                   stops>>

\* The logs cannot be fetched: reported, and the block never asked for again.
LoseBlock ==
    /\ "logs" \in Failures
    /\ pc = "head"
    /\ heads # <<>>
    /\ target' = Head(heads) - 1
    /\ heads' = Tail(heads)
    /\ UNCHANGED <<vars, blocks, program, indexed, pools, changed, unread, stale, reportVars,
                   stops>>

-----------------------------------------------------------------------------
(* Prices and reports.                                                      *)

\* The paths that are simulated: v3 and moe have an index by pool, built with
\* the paths at the start, and test and v2 build graph and paths anew.
InIndex == {q \in Paths : poolsOf[q] \subseteq indexed}

\* Variant: a path is found when all of its pools have changed.
SearchedWhole == {q \in Paths : poolsOf[q] \subseteq changed}

V2Searched == Paths
V3Searched == {q \in Paths : poolsOf[q] \cap changed # {}}
MoeSearched == {q \in InIndex : poolsOf[q] \cap changed # {}}
TestSearched == Paths

Searched == CASE program = "v2"  -> V2Searched
              [] program = "v3"  -> V3Searched
              [] program = "moe" -> MoeSearched
              [] OTHER           -> TestSearched

\* gains are those of the candidates that come out; without any the function
\* returns and the last selection stays.
Price(gains) ==
    /\ pc = "price"
    /\ DOMAIN gains \subseteq Searched
    /\ stale' = stale \ Searched
    /\ IF DOMAIN gains = {}
       THEN pc' = "head" /\ UNCHANGED <<poolsOf, profit, logVars, searchVars>>
       ELSE Log(gains)
    /\ UNCHANGED <<feedVars, program, indexed, target, pools, changed, unread, reportVars, stops>>

\* The snapshot of a selection is its signatures and profits.
\* Variant: the profits are not compared.
SamePaths ==
    /\ DOMAIN last_selection = DOMAIN Selection
    /\ \A k \in DOMAIN Selection : last_selection[k].path = Selection[k].path

SameSelection == last_selection = Selection

\* The best path of the selection goes to a file: of v3 and moe in every block,
\* of v2 and test when the selection is not the last one.
V2Writes == ~SameSelection
V3Writes == TRUE
MoeWrites == TRUE
TestWrites == ~SameSelection

Writes == CASE program = "v2"  -> V2Writes
            [] program = "v3"  -> V3Writes
            [] program = "moe" -> MoeWrites
            [] OTHER           -> TestWrites

Report ==
    /\ SearchEnded
    /\ best_path' = IF Writes THEN Selection[1] ELSE best_path
    /\ last_selection' = Selection
    /\ pc' = "reported"
    /\ UNCHANGED <<poolsOf, profit, logVars, searchVars, feedVars, program, loopVars, stops>>

Return ==
    /\ pc = "reported"
    /\ pc' = "head"
    /\ Forget
    /\ UNCHANGED <<poolsOf, logVars, feedVars, program, loopVars, reportVars, stops>>

\* A file cannot be written and the error ends the program: a file of pools or
\* paths, or that of best paths, before the selection is remembered.
Stop ==
    /\ "disk" \in Failures
    /\ pc = "price" \/ SearchEnded
    /\ stops < MaxStops
    /\ stops' = stops + 1
    /\ pc' = "down"
    /\ Forget
    /\ logged' = <<>>
    /\ last_selection' = <<>>
    /\ stale' = {}
    /\ heads' = <<>>
    /\ changed' = {}
    /\ unread' = {}
    /\ UNCHANGED <<poolsOf, csv, blocks, program, indexed, target, pools, best_path>>

\* It is started again: the pools are read at the latest block.
Start ==
    /\ pc = "down"
    /\ pc' = "init"
    /\ indexed' \in Indexes
    /\ \E read \in FirstReads : pools' = [p \in Pools |-> FirstRead(p, Len(blocks), read)]
    /\ UNCHANGED <<poolsOf, profit, logVars, searchVars, feedVars, program, target, changed,
                   unread, stale, reportVars, stops>>

Next ==
    \/ \E S \in Activity : Mine(S)
    \/ Subscribe
    \/ \E skipped \in SUBSET Unsynced, read \in SUBSET {"slot", "bins"} : TakeBlock(skipped, read)
    \/ LoseBlock
    \/ \E gains \in Gains : Price(gains)
    \/ Search /\ UNCHANGED <<feedVars, program, loopVars, reportVars, stops>>
    \/ Report
    \/ Return
    \/ Stop
    \/ Start

Spec == Init /\ [][Next]_mvars

-----------------------------------------------------------------------------
\* While the monitor waits for a head every path of its index has been priced
\* since its pools last changed, whatever was skipped or lost and however few of
\* them changed.  The index is of all paths, save those through a pool that held
\* nothing when the Moe monitor started: they are not priced until it is started
\* again, whatever the pool comes to hold.
PricesAreCurrent == pc = "head" => stale \cap InIndex = {}

\* The last row of the file of best paths is the best of this block's selection
\* with its profit, also where it is written only when the selection changes,
\* after blocks without candidates and after a restart.
BestPathIsReported ==
    pc = "reported" =>
        \E k \in DOMAIN sorted :
            /\ k \in ToSet(best_combination)
            /\ best_path = [path |-> sorted[k], profit |-> profit[sorted[k]]]
            /\ \A j \in ToSet(best_combination) : profit[sorted[j]] <= best_path.profit
=============================================================================
