# Verification of arbitrage-bot-v3

TLA+ models of the library in `src/` of this repository and of the trading and
monitoring programs under `examples/`, the TLC runs that check them on small
instances, and TLAPS proofs for the parts that decide whether the bot works on
the right data and trades without loss. Paths such as `state_space/mod.rs` are
relative to the crate's own `src/` directory.

Contents: [the system](#the-system) · [modules](#modules) · [runs](#runs) ·
[fairness](#fairness) · [proofs](#proofs) ·
[disagreements found](#disagreements-found) ·
[not modelled](#not-modelled) · [plan](#plan) · [running](#running)

## The system

The bot keeps a copy of on-chain exchange pools (AMMs), updates it from the logs
of every block, searches the copy for cycles of swaps that end with more than
they began with, and sends them to the chain as transactions.

```
 node --logs, calls--> Factory.discover / sync  (UniswapV3Factory, AgniFactory, ...)
                          |  pools
                          v
                StateSpaceBuilder.sync  --filters-->  StateSpaceManager
 node --heads, logs-->    subscribe (stream)  ---- write lock ---> StateSpace
                          |  affected pools                          |  undo cache
                          v                                          v read lock
                ArbitrageMonitor.handle_updates / scan  --> PoolGraph, PathFinder,
                          |  opportunity                      PathOptimizer
                          v
                Executor (fee plan, params) / SwapExecutor --> node
                          \-- NonceManager

 examples/protocols: four services and four monitors with loops of their own
 node --heads, logs--> head loop --> copies of pools --> path prices, hill climb
                          |                                  |
                          v queue                            v
                       worker: attempt_execution      monitors: files of paths,
                       + file of failures             best conflict-free selection
```

| Component | State | Operations | Talks to | What is hard | Correct when |
|---|---|---|---|---|---|
| **StateSpace** and its cache (`state_space/mod.rs` 243-341, `cache.rs`) | pools by address, `latest_block`, a ring of undo records, `oldest_block` | `sync(logs)`: roll back on a reorg, clone each pool before its first log of a block, apply the logs, record the clones | called by the stream under the write lock; calls `amm.sync` | reorgs of every depth, several blocks in a batch, a full ring, errors and a panic half way | the pools are those of the chain, and every rollback that does not panic is exact |
| **StateSpaceManager** (51-84) | `latest_block`, the lock, the block filter | `subscribe`: head, `get_logs`, `sync`, store, yield | node; readers of the lock | awaits between the steps, replaced blocks, failing calls, a lock shared with scans | readers see whole blocks in order, none left out; the stream goes on |
| **ArbitrageMonitor** (`arbitrage/monitor.rs`) | configuration, graph | `opportunistic_scan`, `handle_updates`, `refresh_graph` | state space under the read lock; search | two locks in one scan, awaits under a lock, one failing path | scans return and do not keep the stream waiting |
| **StateSpaceBuilder** (86-243) and **filters** (`filters/`) | the configuration | `sync`: discovery and snapshot per factory, filters at two stages, pools listed by hand | factories, node | pools that join in the middle, pools no filter sees, one task failing | exactly the wanted pools are in the space, read at one block |
| **UniswapV3Factory** (`amms/uniswap_v3/mod.rs` 729-1340), copied as **AgniFactory** | the requests in flight | `get_all_pools`, `sync_all_pools`: logs by windows of blocks, bitmap words and ticks by groups of bounded size | node, batch contracts | cuts at the limits, answers in any order, failing calls | every pool is found once and read completely |
| **UniswapV3Pool** (68-728) and **AgniPool** (`amms/agni/mod.rs`) | price, tick, liquidity, tick table, bitmap | `sync` (Mint, Burn, Swap), `simulate_swap`, `simulate_swap_mut`; Agni also `init_basic`, which reads no ticks | state space, scans, services | the tick a price belongs to, flips of shared ticks, words of the bitmap, ticks that were never read | tick table and liquidity are the contract's, quotes are exact |
| **UniswapV2Pool** and factory (`amms/uniswap_v2/mod.rs`) | reserves, fee | `sync` (Sync), `simulate_swap`, `get_all_pairs` | as V3 | rounding, batches of pairs | quotes are the contract's |
| **Moe pair** and math (`amms/moe/`) | bins, totals, active bin, fee parameters | `sync`, `simulate_swap` over bins; read by slots and by batches of bins | Moe service and monitor | readings that fail in part, bins never read, walking over empty bins | bins and totals are the contract's where they were read |
| **Pool graph and path finder** (`graph.rs`, `data.rs`, `pathfinder.rs`) | the graph; the queue of a search | `build_graph`, `find_cycles`, `find_two_pool_misprices` | monitor | parallel pools, revisited tokens, where a length is tested | exactly the wanted cycles are found, each once |
| **Path optimizer** (`optimizer.rs`) | the interval of a search | `optimize`, a bisection over `simulate_path` | monitor; pools | an interval that closes around the wrong amount | what is kept pays, and is the largest that does |
| **Executor** and fee plan (`execution/executor.rs`, `arbitrage/gas.rs`, `gas_schedule.rs`), with `ArbitrageExecutor.sol` | configuration | `compute_fee_plan`, `build_params`, `execute` | node, contract | reserves read hop by hop, saturating fee arithmetic | the fee a transaction allows is paid by its profit |
| **SwapExecutor** (`swap_executor.rs`) | none | `build_swap_step`, `execute_multi_swap`: approval, transfer, swap, hop by hop | node | others swapping in between, transactions that revert | what is lost when a hop goes wrong is bounded by the input |
| **NonceManager** (`execution/nonce.rs`) | one `AtomicU64` | `reserve`, `peek`, `sync_at_least` | threads that send | operations between a load and its compare-exchange | no nonce twice, none the chain has used |
| **Services** (`examples/protocols`: Moe, Agni legacy and 1559, V2) | copies of pools, appearance counts, queue, cooldowns, file of failures | head loop, search, selection, worker | node, disk | lost heads, a bounded queue between two tasks, retries, crashes | no path is traded too often or too soon, failures are remembered, the tasks go on |
| **Monitors** (three under `examples/protocols`, `examples/test/monitor_pools.rs`) | copies, selection so far, logged profits | head loop, prices, backtracking selection, files | node, disk | pruned backtracking, thresholds against what was last written, restarts | the selection gains most and the files say so |

Contract bindings (`contract.rs`), price lookups, the mock (`arbitrage/mock.rs`),
and the other examples and benches carry no state of the library.

The behaviours that are hard to test, each at its line, are the "hazards" of
`PROJECT.json`; every property below is aimed at one of them.

Much of this code exists in several copies: the four services repeat one another
function by function, so do the monitors, and AgniFactory is UniswapV3Factory with
windows of 90,000 blocks. A definition is mapped to one of the copies it
translates; where the copies differ there is an operator for each (`MoeSearched`,
`AgniSearched`, `PairSearched`) and one that chooses by program.

## Modules

| Module | Models | Kind |
|---|---|---|
| `StateChangeCache` | `cache.rs`: push, unwind, flatten, as operators on a sequence of records | operators |
| `StateSpace` | `StateSpace::sync`, one action per log and per return | state machine |
| `StateSpaceManager` | `subscribe`, the node and the lock; uses `StateChangeCache` | state machine |
| `ArbitrageMonitor` | the scans and handlers that share the lock with the stream; extends `StateSpaceManager` | composition |
| `ChainView` | what readers of the shared state may rely on | abstract specification |
| `NonceManager` | `nonce.rs`, one action per atomic operation | state machine |
| `UniswapV3Pool` | pool logs and the swap loop, one action per iteration | state machine and reference (`Walk`) |
| `AgniPool` | AgniPool next to it, read with or without its ticks; extends `UniswapV3Pool` | state machine |
| `UniswapV3Factory` | discovery and snapshot, one action per request or answer | state machine |
| `StateSpaceBuilder` | the builder and its filters around that factory; extends `UniswapV3Factory` | composition |
| `PathFinder` | `build_graph`, `find_cycles`, `find_two_pool_misprices`, one action per entry of the queue or node | state machine and reference (`IsCycle`) |
| `PathOptimizer` | `optimize` and `simulate_path`, one action per iteration | state machine |
| `UniswapV2Pool` | the constant product quote | operators |
| `SwapExecutor` | one action per call or transaction, on what the optimizer kept; extends `PathOptimizer` | composition |
| `MoeLbPair` | the pair, its logs, its readings, its quote | state machine |
| `BlockFeed` | heads, logs and copies as all eight programs handle them | shared definitions |
| `GreedySelection`, `BestSelection` | choosing paths that share no pool: the services' way and the monitors' | operators; state machine |
| `ExecutionService` | loop, queue, worker and file of the four services; uses `BlockFeed`, `GreedySelection` | composition |
| `MonitorLoop` | the four monitors; extends `BestSelection`, `BlockFeed` | composition |
| `HillClimb`, `FeePlan`, `Opportunity` | the search for an input, the fees, and one opportunity from search to trade | state machine |
| `Filtering` | `Iterator::filter` and `Vec::retain` of Rust's library (external), as a fold that can be reasoned about | operators |
| `CommonFacts` | maxima; recursive functions that fold over 1..n: that they exist, what they compute, when two agree; sums over finite sets; what a filter keeps of a sequence; what `SelectFrom` selects | lemmas |
| `*Proofs` | the theorems | proofs |
| `MC*` | the instances for TLC | model values |

An operator whose comment begins "Variant:" is a wrong version of the definition
below it; no specification uses it. Replacing the one by the other makes TLC find
a property violated, which is how each property is shown to say something. A
type invariant (`TypeOK`, `FinderTypeOK`, `FactoryTypeOK` and the like) that no run lists
is proved with the others, or documents the types.

### StateChangeCache and StateSpace

`cache` is the deque, newest record at index 1; a record maps the addresses of
the pools of a block to what they were before it. What a pool contains is one
opaque value: `sync` clones whole pools and what `amm.sync` makes of one is any
value.

| Action | Code (`state_space/mod.rs`) |
|---|---|
| `SyncEmpty` | no logs: returns before the reorg check (263-269) |
| `SyncForward`, `SyncUnwind`, `SyncPanic` | the reorg check (272-285) with `unwind_state_changes`; its panic |
| `SyncLog`, `SkipLog` | one turn of the loop (289-321): a new block number first records the block before it (`AtLog`, `CacheBlock`), a tracked pool is cloned once a block (`WithPool`) and changed |
| `SyncLogFails`, `MissingBlockNumber` | the `?` returns |
| `SyncReturn` | the record of the last block (324-338) |
| `StoreLatest` | the caller |

The caller of this module stores the block number where `sync` reads it. The real
caller does not (see `ManagerReorg` below), so without this the rollback would be
dead code; the module says what `sync` and the cache do when they are given the
number they compare with.

`versions`, `touched` and `stale` are history: the pools before every block as
the delivered logs have it, the pools the current call has touched, and whether a
reorg came in a form `sync` does not roll back (an empty first block that hides
it, or a block at or below the snapshot's). Once `stale` is set the properties are
void, and the run does not explore further (`NotStale`).

### StateSpaceManager, ArbitrageMonitor and ChainView

`chain` is the node's; a block is its number in the chain, a hash and the set of
pools with logs in it. `heads` are announced and not yet taken. The contents of a
pool are the sequence of hashes applied to it, the finest thing `amm.sync` could
compute, so a block applied twice, never, or in the wrong order shows.

| Action | Code |
|---|---|
| `Mine`, `Reorg` | the node |
| `Subscribe` | `subscribe_blocks().await?` (67) |
| `TakeHead` | `block_stream.next().await` (72) |
| `HeadsEnd` | 67 fails, or 72 finds the subscription ended |
| `GetLogs`, `GetLogsFails` | `get_logs(&block_filter).await?` (77): the filter selects by number, so the answer is for the block that has the number by then |
| `SyncLogs`, `SyncFails` | `state.write().await.sync(&logs)?` (79): one step, because it holds the write lock and does not await |
| `StoreLatest`, `Poll` | 80, 82 |
| `AcquireRead`, `ReleaseRead` | the read lock; tokio's lock lets a waiting writer go first |
| `ScanStarts`, `ScanLocks`, `GraphBuilt`, `ScanLocksAgain`, `ScanReturns` | `opportunistic_scan` (`monitor.rs` 95-127): the number of the node's tip, the graph under a first guard, the paths priced under a second |
| `HandlerLocks`, `UpdatesLogged`, `UpdatesFail` | `handle_updates` (343-364), which asks the node while it holds the lock |
| `RefreshLocks`, `GraphRefreshed` | `refresh_graph` (333-341) |
| `PollAgain` | the consumer polls the stream (`Poll`) when it has handled what it yielded |

Blocks are counted from that of the builder's snapshot, whose number is `Snapshot`:
number 0 of the program is `Unset` here, and below. The manager's `latest_block` starts as the number
the builder was given (`Blocks`: 0, or the argument of `block()`), though the pools are
read at the tip (`state_space/mod.rs` 137, 236). `ChainView` promises that readers
see one block after the other, each whole and once, and that from the first block on the
`latest_block` they load is the block shown or the one before it; `ShowsTheChain` is that the
stream between node and monitor implements it under the mapping `shown <- state`,
`height <- done`, `number <- latest_block`. The promise ends (`lost`) when a block
was mined before the subscription, replaced, or failed to apply: the code recovers
from none of them.

The graph of a scan is built before the prices are read, and the stream may apply
a block in between; since a graph holds only fields of pools that no log changes,
the paths fit the pools all the same. `graph` in the module says no more than that
the monitor's field has been filled: nothing reads it.

### NonceManager

`Reserve` is the `fetch_add`; `sync_at_least` is `Load`, then `Exchange`, `Retry`
or `LeaveLoop`. `peek` only reads. `given` counts how often each nonce was
returned, `floor` is the highest argument of a `sync_at_least` that has returned.

### UniswapV3Pool and AgniPool

`positions` is the contract: liquidity by range of ticks. `Mint`, `Burn` and
`SwapLog` change contract and pool together, the pool through `ModifyPosition`,
`UpdatePosition`, `UpdatedTick`, `Flipped` and `BitsOf` as the code does.
`BeginSwap`, `SwapStep` (one iteration), `ReturnQuote` and `KeepSwap` are
`simulate_swap` and `simulate_swap_mut`; between iterations nothing else happens,
because both hold the pool.

`AgniPool` has the same actions for the copied code where it differs: saturating
liquidity (`AgniUpdatedTick`, `AgniFlipped`, `AgniUpdatePosition`,
`AgniModifyPosition`), and a `simulate_swap_mut` that keeps nothing
(`AgniKeepSwap`). `kind` is the pool at hand: V3, Agni read by `init`, or Agni
read by `init_basic`, which clears the ticks: that copy starts in the middle of
the contract's life (`Genesis`) and learns of ticks from later logs only.
`TicksTracked` says what is left of the mirror then: an upper bound.

The numbers are abstracted: tick t has the price 2t, a unit of price costs and
pays the active liquidity, there are no fees, the amount is exact input and
widths are not modelled. What stays is the control: which tick is searched from,
the ends of bitmap words, clamping, crossing, and which tick a price on a tick
belongs to. `Walk` is the reference: it moves unit by unit over the contract's
positions and knows neither ticks nor bitmaps.

### UniswapV3Factory and StateSpaceBuilder

One call of `StateSpaceBuilder::sync`. `Window` and `LastWindow` are the loop of
`get_all_pools`, `WindowLogs` an answer, in any order. `ReadPools` stands for
`sync_slot_0` and `sync_token_decimals`, which drop pools, and chooses what the
contracts hold. `GroupWords`, `NextPoolWords`, `FlushWords` fill requests of at
most `max_range` words and `WordsAnswer` or `WordsRevert` answers one;
`GroupTicks`, `NextPoolTicks`, `FlushTicks` and `TicksAnswer` do the same for
tick data. Ticks are compressed (divided by the spacing). The batch contract
(`GetUniswapV3PoolTickBitmapBatchRequest.sol`) allocates one slot a word and
fills two for a word that is set; it therefore reverts when more than half of
the words of a pool in a request are set, and the whole call with it.

A pool listed by hand may have been inited at an earlier block: `brought` are the ticks
it has from then. `WordsAnswer` replaces the words an answer names, which are those that
are not zero, and leaves the others as they were.

Around it, `Extend` adds the pools listed by hand (`amms`; `fresh` are those made
by `UniswapV3Pool::new` and never inited) with the ticks they bring (`BringTicks`), and applies the discovery filters,
`Merge` applies the sync filters and inserts the pools, `InitOne` and `InitFails`
are the pools whose variant no factory took, and `Built` hands out the manager.

### PathFinder

A pool is a number, its place in the order in which the hash map of the state
space yields the pools, and a pair of tokens, or `Unsupported` when
`extract_pool` fails for it. `BuildGraph` is `build_graph` in one step, since
nothing else runs meanwhile and nothing of it is visible before it is complete.
`StartSearch` is a turn of the loop over the nodes, `Visit` takes one entry off
the queue and extends it by every edge, `VisitPairs` is one node of the pair
search, and `CyclesDone`, `MispricesDone` are the ends of the two functions. The
order of petgraph's edges (last added first) and `find_edge` are those of the
library and marked external. Fees are left out: they take no part in the search.

### PathOptimizer, UniswapV2Pool and SwapExecutor

A hop is the function from the amount that goes into its pool to what comes out,
or an error; what a pool does with an amount is the pool's business. `After` takes an
amount through the first hops, `Output` through all, `SimulatesNone`, `Fails` and `Pays` are the cases of
`simulate_path`, and `Iterate` and `IterateFails` are the iterations of the
bisection, with `saturating_sub`. Widths are not modelled: amounts are bounded by
the tokens in the pools, and `low + high` stays far below 2^256.

`SwapExecutor` takes the kept input (`Begin`) to the pools that were simulated,
which others now swap in as well (`Move`). `BuildStep` detects pool types,
`QuoteV2` and `QuoteRouter` read what a step needs, `EnsureApproval`, `Transfer`,
`SwapV2` and `SwapRouter` are its transactions, and `StepFails` any call that
fails. The V2 step pays the pool first, gives the gas itself, and does not look at
the receipt, so a reverted swap leaves the deposit behind (`lost`); the routers'
steps return the wallet's whole balance of the token they bought. The module
composes the two because `docs` offer them for use alone or together
(`Execution-Module.md:55`).

### MoeLbPair

`chain` is the contract's pair, `pair` the copy. `Swap`, `Deposit` and `Withdraw`
change both, the copy as `update_bins` does, with saturation (`Deposited`,
`Withdrawn`). `ResyncReads` is the reading after a block that changed the pair
(`sync_slot0_batch`, then `sync_bins_in_batches`), `ResyncFails` the one whose bins
cannot be read. `stale` and `old_totals` are history. Each bin has a price, a whole
number of y for an x, and rounds as `get_amounts` does (`Worth`, `Buys`);
the fee is one number that any swap may change. `Quote` is `simulate_swap` with the
walk over bins (`AcrossBins`), its zero results, the two checks of the ratio of output to
input (`Unrealistic`), and the constant product it falls
back to; `Window` is the cutting of the radius into batches.

### BlockFeed, ExecutionService and MonitorLoop

A copy has three parts, and each is how often it shows the logs of every block: the
slot, the bins a reading tells, and the rest, which are bins no reading tells (out of the
radius, or emptied since: a reading inserts bins and removes none). An exact copy shows
each block's logs once. `FirstRead` is the reading at the start, which the Moe programs
survive without bins. Heads come through a buffer that drops the oldest. `ReadAgain` is the
Moe programs' reading after logs, at the block of the logs, of slots and bins or neither
(`ReadParts`); the rest stays as the logs made it. `Told` is a pair's Sync
log, which tells everything.

`ExecutionService` is one service: `service` chooses which. A turn of the loop is
`TakeBlock` (the head, the logs of the block before it, and for Moe the reading of
the changed pools) or `LoseBlock`, then `Choose`, `IsFailed` or `IsNotFailed` for
every selected candidate, and `SendJob` (which waits for room in the queue) or
`TradeInline` and `TradedInline` (V2 trades in the loop). The
worker is `Receive` with the cooldown, then the tries of `attempt_execution`
(`Refuse`, `TryFails`, `Watched`, `WatchHangs`), then `MarkAsFailed` and `Write`, which are two steps
because the file is truncated before it is written. `Crash`, `Exit`, `Restart` and
`RestartFails` are the process. What a search finds is one of `Outcomes`. The
`indexed` are the pools the Moe service's index of paths was built of: those that held
something at the start (`MoeIndexes`, `is_pool_reasonable`). The
three differences that matter are operators: what is searched, which prices the
search uses (`Prices`), and how often a transaction is sent again (`Tries`).

`MonitorLoop` is one of four programs: `program` chooses. `TakeBlock`, `LoseBlock`
and `Price` are its loop, the profits of a block being any of `Gains`; `Log` writes
the file of paths, `Sort`, `Skip`, `Push` and `Pop` are the backtracking search of
`select_best_non_conflicting_paths`, one action per turn, and `Report` compares with
`LAST_SELECTION`. `Stop` and `Start` end and restart the program; files stay. `indexed`
is as in `ExecutionService`: the Moe monitor builds its index once, without the pools that
are empty then, and prices no path through them (`InIndex`).

### HillClimb, FeePlan and Opportunity

`HillClimb` is `best_path_simulation`: the best of lowest, highest and middle
input, then steps up or down that are halved when neither gains. A curve is any
function from inputs to gains with inputs at which the simulation fails. `FeePlan`
is `compute_fee_plan` and the gas tables with `u128` saturating. `Opportunity`
follows one path: `Search`, then `Offer` or `FilterOut`; for the library
`BuildParams` (with `Drifts`, what the reserves read hop by hop change of the
output) and `Execute`; for the services one `Attempt...` each; then the contract,
`Mined` or `Reverted`. A trade of the library is never `Mined`: it names pool type 1, V3,
for every pool (`executor.rs:285`), and `_validateStates` asks a V2 pair for `slot0`.

## Runs

| Run | Instance | What it asks | Outcome |
|---|---|---|---|
| `StateSpace` | the ring holds 3 records, 5 blocks, snapshot at block 1, 2 interchangeable pools of 2 contents, logs of unknown pools | the pools are the chain's (`StateIsCanonical`); every rollback that does not panic is exact (`RollbackExact`); the inductive invariant `UndoInv` | holds |
| `StateSpaceManager` | 2 pools, a snapshot at block 2, a builder given no number or 4, a scan and a handler, 3 blocks, 1 reorg, a ring of 2, every call may fail | `ChainView` is implemented (`ShowsTheChain`); every block is applied although scans and handlers come and go (`BlocksAreApplied`); every scan returns (`ScansReturn`) | holds |
| `BuilderAndExecutor` | `StateSpaceBuilder`: 2 pools of 4 and 2 words of 2 bits, requests of 2 words and 2 ticks, blocks to 4 in windows of 2, a pool of another variant, one pool that may be listed with three old ticks, three sets of filters | which pools and ticks are found, exactly (`PoolsFound`, `TicksRecovered`); which pools the state space is handed out with (`Admitted`) | holds |
|  | `Opportunity`: 33 inputs, 3 iterations; curves of three levels that jump twice, and of one peak with two slopes; paths of 2 to 4 hops with the code's gas tables, fee caps and profit limits; library and services, flags and slippage | one peak is never lost, though the iterations run out (`PeakWithinReach`); the fee allowed is paid by the profit (`FeePaidByProfit`) | holds |
| `Amms` | `UniswapV3Pool`: V3, Agni, and an Agni copy without ticks with 2 logs; ticks -4..4 with spacing 2, words of 2 bits, liquidity to 1 per position, amounts to 4 | the tick table mirrors the contract, that of the unread copy bounds it from below (`TicksTracked`); the active liquidity is the contract's, also while a swap crosses ticks (`LiquidityIsActive`); quotes are exact (`QuoteExact`); every iteration gets ahead (`SwapAdvances`) | holds |
|  | `MoeLbPair`: bins 0..3 at prices 2 and 3, radius 1, batches of 1, 3 iterations, 3 logs, contents to 5, amounts to 4, quotes to twice the input, or once for an input of 1 | which bins and totals of the copy are exact (`CopyExact`); a quote of an exact copy is the active bin's payment (`QuoteIsOfActiveBin`); readings reach every bin of the radius (`ReadingReaches`) | holds |
| `Arbitrage` | `PathFinder`: every graph of 4 pools (parallel and unsupported ones too) over 4 tokens, up to 4 hops, every constraint up to renaming | exactly the cycles are found, each once (`CyclesExact`); one pair path for three joined tokens (`OnePathPerTriple`) | holds |
|  | `PathOptimizer`: paths of up to 3 constant product pools, with and without a failure beyond 5, amounts to 31, 5 iterations; their execution with 1 swap of others, holdings, V3 and Moe pools taken for V2, and a default fee tier | what is kept pays, and the largest paying input is not stepped over (`SearchInv`); after enough iterations it is what is returned (`LargestPaying`); undisturbed swaps return what was quoted (`QuietSwapsExact`); disturbed ones lose no more than was put in (`LossBounded`) | holds |
|  | `NonceManager`: 3 threads, nonces to 3, chain nonces 0, 2, 3 | no nonce twice (`ReservedOnce`); none below a finished `sync_at_least` (`NoStaleNonce`); every call returns (`SyncReturns`) | holds |
| `ExecutionService` | Moe, V3 and V2; 3 paths through 2 pools, 2 outcomes of a search, queue and subscription of 1, 2 appearances, cooldown 2, 2 tries, 4 blocks, 1 crash, one Moe pool that may be empty at a start; every call but a reading may fail, a watch may hang | trades of a block share no pool and nothing better was passed over (`SelectionIsGreedy`); the cooldown is kept however long a job was queued (`CooldownKept`); no path is tried too often (`AttemptsBounded`); failures survive crashes (`FailuresSurvive`); no logs are in a copy twice, save those of the block of the first reading, none of a block not taken, and what a reading or a Sync log tells is exact when it is priced (`LogsCountOnce`); loop and worker never wait for one another (`LoopAndWorkerProgress`) | holds |
| `MonitorLoop` | the 4 programs, 3 paths through 3 pools in 2 shapes, profits 3, 4, 7, 4 blocks, 1 restart, a subscription of 1, threshold 80 %, one Moe pool that may be empty at a start | the backtracking search is optimal (`SelectionIsBest`); the greedy choice gains at least 1/hops of it (`GreedyWithinHops`); the file of paths is never off by the threshold (`FileIsCurrent`); every path of the index is priced again when a pool changes (`PricesAreCurrent`); the best row is the block's (`BestPathIsReported`) | holds |
| `ManagerReorg` | 2 pools, 3 blocks, 1 reorg, no failing call | after a reorg the pools are the chain's (`ReorgReverted`) | violated |
| `QuoteAcrossBins` | that of `Amms` | a quote is what the bins pay from the active one on (`QuoteIsOfAllBins`) | violated |
| `LibraryNoLoss` | that of `BuilderAndExecutor` | a trade of the Executor sent with a flag against losses does not lose (`NoNetLoss`) | violated |
| `MispricesReturn` | that of `Arbitrage` | a path of the pair search returns to its first token (`MispricesReturn`) | violated |
| `ProfitMaximised` | that of `Arbitrage` | the search ends where the profit is greatest (`ProfitMaximised`) | violated |

Three runs have components side by side that meet in the program only by what they are
given: pools before they are read and trades after they are found, pools with ticks and
pools with bins, paths, inputs and nonces. The variable `part` of their MC modules chooses which
of them is tried; the others stay in one initial state, so that each is checked in all the states it would
have in a run of its own.

Why the bounds are enough.

- `StateSpace`: a ring of three records in five blocks overflows, is rolled back to
  any depth, refills and is rolled back past its oldest record; two tracked pools
  are the fewest for which a record may hold one and not the other, and the logs of
  a block are any number, so a pool repeats within it. `sync` compares block
  numbers only with each other, so more blocks add no new case.
- `StateSpaceManager`: scan and handler are the two kinds of readers, each between
  any two steps of the stream; a second scan would meet the first only in the set of
  read guards. Three blocks overflow the ring of two.
- `NonceManager`: three threads are one more than a failed exchange needs, so an
  exchange may fail twice.
- `UniswapV3Pool`: the ticks span several words, so the search runs through empty
  words on both sides, and swaps cross two ticks, an end of a word and the middle.
  Two logs are what the unread copy needs to burn what it never saw and to mint on
  what that left.
- `StateSpaceBuilder`: a request of two words cuts the pool of four and joins its
  rest with the pool of two; a pool may be discovered, listed, or both, and its last
  block in a window or behind it.
- `PathFinder`: four pools are the fewest that offer a cycle of four hops, two
  parallel pools on both sides of a token, and a triangle with a tail.
- `PathOptimizer`: 30 amounts are split five times, the number that closes the
  interval. Three V2 hops are the shortest path on which a second deposit could be
  lost after the first.
- `ExecutionService`: with a queue of one, a slow worker stalls the loop at the
  second job; two pools and three paths are the smallest conflict that greedy
  selection can decide either way; two appearances and four blocks exhaust the count
  of a path, and a crash may hit any step, between truncating and writing included.
  `v3_1559` is left out: here it behaves as `v3`. The loop may be blocks behind the chain, so
  that a reading at the latest block differs from one at the block of the logs. Which
  readings fail is tried in `MonitorLoop`, and `CountsLogsOnce` holds for all that may.
- `Opportunity`: the units are 50 million gas, 5 million wei per gas and 2.5e14 wei,
  so that the gas tables, the fee caps and the profit limits are the code's own. Three
  iterations take the step of a climb from 8 to 1 at most: it is never used up, as in the
  program, where 64 iterations take it from near 2^78 to 2^13 at least.
- `MonitorLoop`: a triangle of paths, and one path against two, are the cases in
  which a backtracking step must be undone; profits 3, 4, 7 make the one path worth
  more, as much as, and less than the other two.
- `MoeLbPair`: four bins with radius one leave a bin outside the radius on either
  side as the active bin moves. Prices of 2 and 3 are to the ratios of 2 and 1 what an
  extreme price is to the 1000 and 100 of the code: without either check
  `QuoteIsOfActiveBin` fails.

Bounded only for TLC, named in the modules: `MaxBlock`, `MaxBlocks`, `MaxReorgs`,
`MaxNonce`, `MaxLiquidity`, `MaxLogs`, `MaxTip`, `MaxInitialized`, `MaxAmount`,
`MaxPairLogs`, `MaxQuoted`, `MaxReserve`, `MaxMoves`, `MaxCrashes`, `MaxStops`. Runs with
`CHECK_DEADLOCK FALSE` end where the system does: a call that returned, a stream
that ended, a service that does not start, a chain at its bound.

`StateSpaceManager` uses no symmetry, because liveness is checked with it;
`StateSpace` and `ManagerReorg` make the pools interchangeable, which none of
their definitions tells apart.

## Fairness

`ArbitrageMonitor` (run `StateSpaceManager`): weak fairness of `Subscribe`, of the
stream's steps, of a scan's and the handler's own steps. A task of tokio that is
ready is run, the node answers or the call fails, and what scans and handlers
compute ends. Strong fairness of the steps that wait for the read lock: tokio's
`RwLock` queues its waiters in order, so one that waits is not passed over for
ever. No fairness is given to the node, which need not mine, nor to `ScanStarts`.
That a waiting writer goes before later readers is not fairness but a guard of
`AcquireRead`, as tokio documents it; with a lock that prefers readers,
`BlocksAreApplied` fails.

`NonceManager` (run `Arbitrage`): weak fairness of every thread inside `sync_at_least`. A failed
exchange means that another thread succeeded, and the counter is bounded by what
is asked for, so the loop ends.

`ExecutionService`: weak fairness of `Subscribe`, of the loop, of the worker and of
`Exit`: tasks that can run are run, and calls to the node return. Nothing is assumed
of the chain or of crashes. `watch()` is given no timeout, so that a transaction
the node drops is awaited for ever: `LoopAndWorkerProgress` excludes exactly this
(`WatchHangs`), after which the worker stops, the queue fills and the loop stalls.

The other modules state no liveness, except that `SwapAdvances` says of every step
of a swap that it uses up amount or gets ahead, from which it follows that the loop ends.

## Proofs

TLC checks the instances above; the following holds for all values of the
constants that meet the named assumptions. Components that meet in the program share a
module of proofs and its lemmas (`PathOptimizerProofs`: from the graph to the swap;
`BuilderAndExecutorProofs`: how a run begins and how it spends); each theorem names the
specification it is about.

| Module | Theorem | Says |
|---|---|---|
| `StateSpaceProofs` | `TypeCorrect`, `UndoCorrect`, `RollbackIsExact`, `StateCorrect`, `OrderCorrect`, `AffectedCorrect` | `Spec => []` of `TypeOK`, `UndoInv`, `RollbackExact`, `StateIsCanonical`, `RecordsOrdered`, `AffectedAreTouched` |
| `BuilderAndExecutorProofs` | `NonceTypesCorrect`, `NonceCorrect`, `NoDoubleNonce`, `CounterMonotonic`, `NoNonceBelowFloor` | `NonceSpec => []` of `NonceTypeOK`, `NonceInv`, `ReservedOnce`; the action properties `NeverBack`, `NoStaleNonce` |
| | `TypeCorrect`, `SearchReachesPeak`, `FeesAreBounded` | `Spec => []` of Opportunity's `TypeOK`, `PeakWithinReach`, `FeePaidByProfit` |
| | `PoolsFoundHolds`, `TicksRecoveredHolds`, `AdmittedHolds`, `FactoryTypes` | `BuilderSpec => []` of `PoolsFound`, `TicksRecovered`, `Admitted`, `FactoryTypeOK` |
| `StateSpaceManagerProofs` | `StreamShowsTheChain` | `MonitorSpec => ShowsTheChain`: stream, lock and readers implement `ChainView` |
| `PoolProofs` | `TicksTrackedAlways`, `LiquidityAlwaysActive`, `QuotesAlwaysExact`, `SwapAlwaysAdvances` | `PoolsSpec => []` of `TicksTracked`, `LiquidityIsActive`, `QuoteExact`; the action property `SwapAdvances` |
| | `CopyAlwaysExact`, `ReadingsReach`, `QuotesActiveBin` | `MoeSpec => []` of `CopyExact`, `QuoteIsOfActiveBin`; the action property `ReadingReaches` |
| `PathOptimizerProofs` | `TypeCorrect`, `SearchCorrect`, `LargestWhenConverged`, `FindsLargest` | `Spec => []` of `TypeOK`, `SearchInv`, `LargestPaying`, and of: once the interval is closed, what is kept is the largest input that pays |
| | `SwapRefinesSearch`, `LossIsBounded`, `QuietIsExact` | `SwapSpec => Spec`; `SwapSpec => []` of `LossBounded`, `QuietSwapsExact` |
| | `FinderCorrect`, `CyclesExactHolds`, `OnePathPerTripleHolds`, `FinderTypes` | `FinderSpec => []` of the inductive invariant `FinderInv`, `CyclesExact`, `OnePathPerTriple`, `FinderTypeOK` |
| `ExecutionServiceProofs` | `Invariant`, `SelectsGreedily`, `KeepsCooldown`, `BoundsAttempts`, `KeepsFailures`, `CountsLogsOnce` | `Spec => []` of the inductive invariant, `SelectionIsGreedy`, `CooldownKept`, `AttemptsBounded`, `FailuresSurvive`, `LogsCountOnce` |
| `MonitorLoopProofs` | `Invariant`, `SelectsBest`, `GreedyHasItsShare`, `KeepsFileCurrent`, `PricesStayCurrent`, `ReportsBestPath` | `Spec => []` of the inductive invariant, `SelectionIsBest`, `GreedyWithinHops`, `FileIsCurrent`, `PricesAreCurrent`, `BestPathIsReported` |

**StateSpace.** Assumed: the ring holds at least two records (`CapAssumption`; it
is 30 in the code, and `push` on a ring of one would unwrap an empty deque) and the bounds are numbers (`BlockAssumption`). That a rollback
is exact is not inductive: it says what the records would give and not why. The
inductive invariant `UndoInv` is the conjunction of `CallBounds` (how far the call
in progress and the records have come), `CallLocals` (what the clones taken so far
in this call hold), `RecordsExact` (a record holds each of its pools as it was before
its block) and `ChangesRecorded` (for two blocks the cache still reaches, a pool
that differs has a record in between). From the last two a rollback is exact: for
a pool with a record, the oldest record after the pivot holds what the pool was at
the pivot, because by `ChangesRecorded` it did not change before; a pool without
one did not change. Evicting a record keeps `ChangesRecorded` because `oldest_block`
moves past it, a rollback keeps it because exactly the records of the blocks undone go.

**NonceManager.** Assumed: the nonces used as bounds are numbers
(`NonceAssumption`). `NonceInv` says that nothing a thread has seen is ahead of
the counter, that no nonce from the counter on was given, none twice, and that the
counter is at least what any finished `sync_at_least` asked for. An exchange that
succeeds only from the value seen, and only upwards, keeps all of them.

**StateSpaceManager.** Assumed: the bounds and block numbers are numbers (`ManagerAssumption`) and readers
are the scans and the handler (`MonitorAssumption`). `ChainView` says nothing of heads,
logs or where the stream is, so the mapping is a simulation only where `FollowsInv`
holds: as long as nothing was missed, replaced or failed, the announced heads that are
not taken are the last blocks of the chain, one after the other (`HeadsInv`), and the
pools are the chain's up to the block before them, or before the one that is worked on,
whose logs are those the chain has for it (`ShownInv`). With it `Mine` is the
specification's `Extend`, `SyncLogs` its `Advance`, `StoreLatest` its `Tell`, the steps
in which something is missed, replaced or fails are its `Lose`, and every other step of
stream, scans and handler is a stutter. That the pools `Advance` to the next view is a
lemma on the recursive function that makes the view (`ViewNext`).

**UniswapV3Pool, AgniPool.** Assumed: zero lies strictly between the least and the
greatest tick, spacing and word width are positive, the bounds are numbers
(`PoolAssumption`), and every pool starts from positions within the bound
(`AgniAssumption`). `PoolInv` says that positions and price are within their bounds, that
the table is the contract's (`TicksMirror`; for a copy that read no ticks, only that what it shows is
there, `BasicTable`), and that a loop under way has used what it paid for and, over the
contract's table, carries the liquidity active at its tick. That a tick's `liquidity_net`
is what activity changes by when it is crossed, and that activity is the same
anywhere between two set ticks, are lemmas on sums over the ranges; such sums are
recursive functions on finite sets, and what is needed of them is shown by
induction on the subsets. Two lemmas, one per direction, say that the search of the bitmap
passes over no set tick and stops at the edge of its word. `QuotesAlwaysExact` needs `QuoteInv`
besides: the loop is where the contract's walk is after some number of units. One
iteration goes from one such place to another because the liquidity does not change
on the way. `LiquidityIsActive` alone is not inductive: a kept simulation
stores the liquidity of its loop, so that `Loop` is needed, and that the
table is the contract's.

**MoeLbPair.** Assumed: there are finitely many bins, radius (50 or 200 in the code),
batch size and iterations are positive, a fee is less than the whole (`MoeAssumption`).
`CopyExact` is inductive with the types (`MoeInv`): a deposit or a withdrawal changes the
totals by what it changes one bin by (`TotalChanges`), and the saturation of
`update_bins` is never felt where the copy is exact, because the contract pays out only
what a bin holds. `WindowCovers` is the arithmetic of the batches: an id in the radius is in
the batch its distance from the lower end falls into, or, at the upper end, in the last one;
where a centre is cut at zero, so is the batch's lower end. For `QuotesActiveBin`, the only
solution of the loop's recursion is constant after its first turn (`LoopIsFirstTurn`), and
no bin holds more than the total (`TotalHolds`), so that the loop never ends with an error.

**UniswapV3Factory, StateSpaceBuilder.** Assumed: there are finitely many pools, each has
at least two words of its bitmap, the limits of requests are positive
(`FactoryAssumption`); pools of the factory and others are different, and filters are of
the three kinds (`BuilderAssumption`). Three invariants build on one another.
`DiscoveryInv` says that the windows asked for have no block in common and end before the
next one, so that a pool is found by one answer only, and that each pool created before the
next window is found or in a window not answered yet. Where a window may start is a multiple
of its length away from the factory's first block (`WindowsEnd`); that decides whether the
last block is asked for at all (`Residue`), which is the exception `PoolsFound` states.
`PoolsInv` and `StateInv` follow the pools through the two stages of filters: they are
`Chosen` when the task of the factory has them, then the live ones among them, then those
that pass the second stage. Because a filter belongs to one stage (`BothStages`), what
is handed out passes all of them. `TicksInv` has a part for each phase of the reading. The
loop over words is the hard one, because at each cut the next request starts one word
low: `CutAt` counts the cuts of the pool at hand, says where the loop must then be,
and that every word below was asked for. Between two cuts of a pool a whole request is
filled (`CutOnce`), which bounds the cuts by what `LostWords` computes (`CutsEnd`). From
there on a tick that is not lost is read or asked for, and an answer, in whatever order it
comes, only moves ticks from the second to the first (`WordsInv`, `TickLoopInv`,
`DataInv`). TLC checked these invariants on a smaller instance before they were proved.

**PathFinder.** Assumed: pools and hops are counted by numbers, and no token is the one
that stands for none (`FinderAssumption`). `CyclesExact` speaks of the end of a search
only. `FinderInv` says of a search under way that the graph is that of the pools
(`GraphIs`), that a path of the queue is a `Trail` (a walk from `start` that does not
come back to it nor, unless self cycles are allowed, to any token), with the entry the code
keeps for it, that no path of the queue is the beginning of another (`QueueInv`), and
that of the cycles from the tokens begun each was found, once, or is `Pending`: it begins
with a path of the queue (`FoundInv`). `Visit` takes a path off and adds all its one-edge
extensions, so that a cycle that began with the path taken is found or begins with one of
them (`CycleExtends`). That no path begins another is what keeps a cycle from being found
twice. When the queue is empty nothing is pending. `OnePathPerTriple` needs of the pair
search only what it takes from one node (`PairsThroughIs`): the token in the middle
decides at which node a pair is found, and `find_edge` returns one edge for two tokens.

**PathOptimizer.** Assumed: the numbers are numbers, amounts are bounded and hops are
functions on amounts (`OptimizerAssumption`, `PathsAssumption`). `SearchInv` says that
what is kept pays, is the input just below `low`, and that when the paying inputs are
those from 1 to some k, k has either been kept or is still in the interval. One case
is an exception, which the proof attempt found and the run reaches: from the interval
0..1 the middle is 0, which never pays, and `high` saturates at 0, so that k = 1 is
never tried. The invariant states the exception. `LargestPaying` counts halvings
(`Left`): a lemma bounds the interval by what is left after as many iterations, and no
power of two is needed.

**SwapExecutor.** Assumed besides: markets are sequences of constant product pools with
reserves and fees that are numbers (`SwapAssumption`). `LossBounded` rests on `CallsInv`:
where a call is and what is expected of it (`CallInv`), that a deposit is at a pool only
between `Transfer` and `SwapV2` (`DepositInv`), what the wallet still has of every token
(`WalletInv`), and that behind a lost deposit the wallet has nothing for the steps that
follow (`LostInv`), which is why a second one cannot be lost. The attempt found the
model wrong in one place: a deposit of zero, which the code can make behind a lost one,
was counted as lost. `QuietSwapsExact` needs `QuietInv`: before every step of an
undisturbed execution the pools that are still to come pay what was simulated, the amount
at hand is the simulated one, and every balance is the one it was held at but for the
input that is on its way. The V2 step's own formula pays what was simulated only
at a fee of 0.3 %, which is what `FeesAsQuoted` asks for.

**ExecutionService.** Assumed: `ServiceAssumption`: every path has a pool, limits and
capacities are positive numbers, what a search finds is a sequence of paths and inputs. One
inductive invariant serves all five invariants. `FeedInv` orders the heads that wait
behind the block at hand, `CountsInv` says that no path is counted for a block before the
block is priced, `ChoiceInv` that what is dispatched is what `SelectFrom` chose, `WorkInv`
types queue and worker. For the cooldown, `CoolInv` says that the worker's job was let
through after the last trade of its path, and that this is the last that was confirmed. For
the attempts, `AttemptsInv` is a tally: attempts made, jobs queued and candidates still
to be sent are, path by path, never more than the appearances counted, so that a queue of
any length cannot hide a try. For the file, `StoreInv`: it is torn, or has every
failure that got to disk; so has a running service. For the copies, `CopiesInv`: what each part shows of every block,
and which blocks were read or taken; the blocks taken rise, so that no logs come twice. What the
loops over candidates compute (`SelectFrom`, `FilterAndUpdate`) are lemmas, candidate by
candidate.

**Opportunity.** Assumed: curves are functions on the inputs, whose bounds are
positive (`ClimbAssumption`), the fee tables are numbers (`FeeAssumption`), and
configurations are numbers and flags (`ConfigAssumption`). The invariant is
`Inv`, the conjunction of `ClimbInv` (types, and that a peak stays within reach of the
halvings that are left) and `TradeInv` (what the parameters and the transaction were
computed from). `FeePaidByProfit` follows because the tip is cut at what the profit leaves above the base
fee. Part of `TypeOK` is that the tip never exceeds the fee: the check that
`execute` makes of it never fails.

**MonitorLoop, BestSelection.** Assumed: `SelectionAssumption` (there are finitely many
paths, each has at least one pool and at most `HOPS`, profits are positive numbers, as
is the threshold) and `MonitorAssumption`. That the selection is best says nothing
of a search under way; the invariant has to say which sets of places it still has to
come to. The backtracking comes to them in the order of their first difference: still to
come are those that have more than what is taken, from `at` on (`Beyond`), and those
that leave out a place that is taken and have a later one (`After`). `SearchedInv` says
that every conflict-free set that is not `Ahead` in this sense gains no more than the
best so far. A path passed over for a pool in use is in no conflict-free set `Beyond`
(`SkipKeeps`, which needs that `used_pools` is exactly the pools of the paths taken,
`TakenInv`); a path given back was the last place, so that what is still to come is the
same set of sets, now `Beyond` (`PopKeeps`). At the end nothing is `Ahead`, and
because profits are positive something was found (`SomethingFound`), so that there is a
best path to report. `GreedyWithinHops` follows by charging
each path of the best selection to one the services take, which comes no later in the
order, hence gains as much at least, and shares a pool with it (`TakenCovers`); no path
is charged for more paths than it has pools, because those share none (`FewShare`, an
injection into its pools). Gains are sums, and the charging is an induction on subsets of
what is taken (`GreedyShare`). `LogInv` says that what is remembered as logged is what the
file has; `StaleInv` that a path of the index whose pools have changed
is searched next; `ReportInv` that the best path of the last selection is in the file, so
that a selection equal to it need not be written again.

**Only model-checked.** Liveness under fairness (`BlocksAreApplied`, `ScansReturn`,
`SyncReturns`, `LoopAndWorkerProgress`), which is out of this prover's reach. Every
invariant and action property that a passing run checks is also stated by a theorem.

## Disagreements found

| Run | The code | The documentation |
|---|---|---|
| `ManagerReorg` | `subscribe` stores the block number in the manager's `latest_block` (`state_space/mod.rs:80`); `sync` compares with the state space's own (262), which stays 0. No reorg is ever rolled back. | `Module-Integration.md:695-712`: a reorg is detected, the pools are restored and the new logs applied |
| `QuoteAcrossBins` | Moe bins other than the active one hold one token, and `compute_bin_swap` returns zero for a bin with an empty side (`amms/moe/mod.rs:1746`): a quote never goes beyond the active bin. | `amms/moe/mod.rs:347`: "Simulate swap across multiple bins (more accurate than simple x*y=k)"; 1573-1585: the bins `next_id` goes on to are those with liquidity |
| `LibraryNoLoss` | `execute` names pool type 1 (V3) for V2 pools and their reserves (`executor.rs:285`); `_validateStates` (`ArbitrageExecutor.sol:190-196`) asks a pair for `slot0`. Every trade reverts and costs its fee. | `execution/types.rs:52-55`: "ensure min_amount_out covers amount_in + gas cost (no net loss)", "enforce non-loss even if not including gas cost" |
| `MispricesReturn` | Pairs with the same token at both ends are skipped (`pathfinder.rs:139`): a path of the pair search goes from A over B to C. | `Arbitrage-Module.md:472-474`: triangular arbitrage, A to B to C to A, such as USDC to WMNT to WETH to USDC |
| `ProfitMaximised` | The bisection goes up whenever the middle pays (`optimizer.rs:66`) and ends at the largest input that pays. | `Module-Integration.md:276-294`: "Iteration N: converged to optimal", the top of the profit curve; `Arbitrage-Module.md:562-587`: the maximum of a unimodal profit |

Seen while modelling, without a run of their own. State space and search:

- `sync(&logs)?` ends the stream (`state_space/mod.rs:79`), where
  `Module-Integration.md:591-592` logs the error and waits for the next block. An error
  of one pool ends the whole batch (313), where 588-589 skips that pool and goes on.
- A reorg that arrives as a block without logs returns from `sync` before the
  reorg check (263); the properties of `StateSpace` say nothing of such a history
  (`stale`).
- The worked example of a rollback in `StateSpace-Module.md:225-234` has the newest
  record of a pool win; the code keeps the oldest one, which `RollbackExact` shows to
  be right.
- The loop of discovery ends at `latest_block = block_number` (`uniswap_v3/mod.rs:777`),
  and a last window of one block is not asked for; `PoolsFound` states which pools are
  missed.
- A pool cut between two bitmap requests has one word asked for twice, and the last
  word of it never (952); `TicksRecovered` states which ticks are lost.
- A pool listed by hand and made by `UniswapV3Pool::new` is never inited when its
  variant has a factory: its zero tokens have no decimals and it is dropped, unless it
  was discovered as well. Only the first factory of a variant takes the listed pools;
  pools whose variant has none pass no filter (`state_space/mod.rs` 165-233).
- The manager starts at the builder's `latest_block` (0 unless `block` was called),
  not at the block the pools were read at (236): readers see that number until the first
  block is told. `ValueFilter` is not in `PoolFilter`
  and `DiscoveryManager` is not used.
- The bisection misses an input of 1 when it is the largest that pays (`optimizer.rs:73`).
- A pool listed by hand and inited before keeps bits of words that have become zero since
  (`uniswap_v3/mod.rs:1018`); `TicksRecovered` states which.
- A scan reports the number of the node's tip, which need not be the block of the
  pools (`monitor.rs:96`); one failing simulation ends it by `?` (112). The monitor's
  `graph` is written and never read.

Pools:

- An Agni copy made by `init_basic`, which services and monitors use, quotes without
  the ticks it has not seen. A Burn of a position it never saw leaves an entry with
  gross 0 and a wrong net; a later Mint there gives a wrong net liquidity.
- The amount out of a Moe quote is compared with the reserve after it was subtracted: a
  swap of more than half of the pool's side quotes 0.
- A reading never removes bins that were emptied, keeps those outside the radius as
  they were, and with a failed slot reading keeps the old totals. `simulate_swap_mut`
  changes the totals twice, but nothing calls it.

Execution:

- For a profit below 0.1 WMNT `execute` asks for less than input and highest fee although
  `enforce_non_loss` is set (`executor.rs:299-305`). `global_fee_hard_cap_wei` (46-47, "Prevents overspending") and
  `fixed_gas_price_wei` are never used.
- `GasConfig` reckons with other gas than the limits the executor gives (for four hops
  2.8 billion and 750 million).
- `SwapExecutor`: a V2 step goes on when its swap was reverted; its formula has a fee
  of 0.3 %, so that pools of a higher fee always revert after the transfer; its approval
  is never used and stays. A router step spends what the wallet held of the token before.
- Executor.rs's check that the tip is at most the fee cannot fail.

Services and monitors:

- The V2 service does not keep the last output at the input and does not ask for a
  profit margin over gas; the Moe service asks for no output at all.
- The Agni services price paths on the pools cloned at the start
  (`PathCache.state_pools`), not on those the logs keep current (`AgniPrices`).
- The first head after a snapshot at block L is that of L+1 or later. At L+1 the logs of
  L are applied to pools that already hold them; beyond L+2 blocks are lost; only
  L+2 is right.
- The hill climb over the real range of inputs (10^12 to 10^24) would need 78
  halvings and has 64 iterations: it ends within some 2^14 of a peak, not at it.
- The Moe programs leave pools that are empty at the start out of their index of paths
  and never build it again, though their logs are still applied.
- The comments at `should_log_path`'s callers say "more than 5%" where the code takes 5 %
  itself, too (`monitor_pools_for_v3.rs:784`).
- The monitors keep `LAST_SELECTION` over blocks without candidates; profits that are
  equal come out of a hash map in any order, so the same choice may be reported again.

## Not modelled

- **`contract.rs`, `mock.rs`, price lookups, other examples, benches**: calls and
  constants without state; what the model needs of the batch contracts is in
  `UniswapV3Factory`, of the executor contract in `Opportunity`.
- **Moe mathematics** but for `get_amounts` and the fee functions it calls: ports of
  fixed point arithmetic on 128 and 256 bits, beyond TLC's integers.
- **`ValueFilter`, `discovery.rs`, the V2 and Moe factories**: not used by any program
  here, or one batch of calls without decisions.

What the models leave out of what they cover:

- `StateSpace`: the caller stores the number where `sync` reads it (above); once a
  reorg is invisible to `sync`, nothing is claimed.
- `StateSpaceManager`: one subscription; heads are announced in order and none is dropped by
  a full buffer (`BlockFeed` has that for the programs).
- `UniswapV3Pool`, `AgniPool`: fees, the price curve, rounding and widths (above); exact
  input only. Overflow of liquidity is not reached.
- `UniswapV3Factory`: `sync_slot_0` and `sync_token_decimals` are one step; ticks are
  compressed. `StateSpaceBuilder`: one factory; the tasks of several share nothing but
  the node.
- `PathOptimizer`: amounts are bounded and pools are functions. `SwapExecutor`: a V3 or
  Moe pool is a constant product pool, too; fees are multiples of 0.1 %.
- `MoeLbPair`: the fee over time, the protocol's share, reserves above 10^30, prices that
  are not whole, `simulate_swap_mut`, the bin tree.
- `ExecutionService`: what a search finds is any of a few outcomes; a transaction whose
  confirmation is lost may be mined or not and nothing is claimed of the balance.
- `Opportunity`: swaps and callbacks inside the contract are an arbitrary output.

## Plan

What is left, in this order.

1. Dropped heads in `StateSpaceManager`, as `BlockFeed` has them.
2. `AgniPool` behind a factory whose snapshot missed ticks (`UniswapV3Factory`): which
   quotes are then wrong, as `TicksTracked` says for copies that read none.
3. The V2 factory, with its batches of pairs.

## Running

With TLC, the community modules and TLAPS installed, in this directory:

```
tlc -workers 2 -config StateSpace.cfg MCStateSpace
tlapm StateSpaceProofs.tla
```

and likewise for the other configurations, whose module is named in `PROJECT.json`
under "runs", and for the other `*Proofs` modules.
