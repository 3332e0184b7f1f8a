------------------------- MODULE StateSpaceManager -------------------------
(***************************************************************************)
(* StateSpaceManager::subscribe (src/state_space/mod.rs): the stream that   *)
(* takes the number of every new block, fetches the logs of that block,     *)
(* applies them to the shared state space under its write lock and stores   *)
(* the number in the latest_block of the MANAGER.  It runs between a node   *)
(* that mines, reorganises its chain and answers or fails, and readers that *)
(* hold the read lock.  ArbitrageMonitor has the readers the code has, and  *)
(* the next-state relation that puts all of them together.                  *)
(*                                                                         *)
(* The behaviour starts when StateSpaceBuilder::sync has read the pools at  *)
(* the tip of the chain; block numbers are counted from that block, so they *)
(* may be negative.  Blocks mined from then until the subscription are      *)
(* never announced to the stream.                                           *)
(***************************************************************************)
EXTENDS Integers, Sequences, FiniteSets

CONSTANTS
    Pools,      \* pools in the state space
    Readers,    \* tasks that take the read lock
    Snapshot,   \* number of the block at whose end sync has read the pools
    Blocks,     \* numbers StateSpaceBuilder.latest_block may have: 0, or the
                \* argument of block()
    CAP,        \* capacity of the undo cache
    MaxBlocks,  \* bound on the blocks mined, replaced ones included
    MaxReorgs,  \* bound on reorganisations
    Failures    \* calls that may fail: "subscribe_blocks", "get_logs", "sync"

ASSUME ManagerAssumption ==
    /\ Snapshot \in Nat
    /\ Blocks \subseteq Nat
    /\ MaxBlocks \in Nat
    /\ MaxReorgs \in Nat
    /\ Failures \subseteq {"subscribe_blocks", "get_logs", "sync"}

INSTANCE StateChangeCache WITH AmmStates <- Seq(Nat)

VARIABLES
    \* The node.
    chain,         \* blocks after the snapshot: [hash, pools with logs in it]
    mined,         \* blocks mined so far, the last one's hash
    reorgs,        \* reorganisations so far
    heads,         \* announced block numbers the stream has not taken
    \* The shared state space and its lock.
    state,         \* StateSpace.state
    oldest_block,  \* StateChangeCache.oldest_block
    cache,         \* StateChangeCache.cache
    readers,       \* tasks that hold the read lock
    \* The stream.
    pc,            \* where the stream is
    block_number,  \* the block it works on
    logs,          \* pools that have logs in it, and its hash
    latest_block,  \* StateSpaceManager.latest_block
    \* History.
    done,          \* last block whose logs were applied
    missed,        \* a block was mined before the subscription
    replaced,      \* a block was replaced by a reorg
    failed         \* the pools whose amm.sync(log) failed

nodeVars == <<chain, mined, reorgs, heads>>
spaceVars == <<state, oldest_block, cache>>
streamVars == <<pc, block_number, logs, latest_block>>
historyVars == <<done, missed, replaced, failed>>
vars == <<nodeVars, spaceVars, readers, streamVars, historyVars>>

NoLogs == [hash |-> 0, pools |-> {}]

Block(pools) == [hash |-> mined + 1, pools |-> pools]

\* The stream waits for the write lock or is about to get it.
WantsWrite == pc = "sync"

Promise == INSTANCE ChainView
           WITH shown <- state, height <- done, number <- latest_block,
                lost <- missed \/ replaced \/ failed # {}

\* Number 0, the default of StateChangeCache.oldest_block and of
\* StateSpace.latest_block, which is never stored to.
Unset == 0 - Snapshot

\* The pools are read at the tip, whatever number the builder was given.
Init ==
    /\ chain = <<>>
    /\ mined = 0
    /\ reorgs = 0
    /\ heads = <<>>
    /\ state = [p \in Pools |-> <<>>]
    /\ oldest_block = Unset
    /\ cache = <<>>
    /\ readers = {}
    /\ pc = "built"
    /\ block_number = 0
    /\ logs = NoLogs
    /\ latest_block \in {b - Snapshot : b \in Blocks}
    /\ done = 0
    /\ missed = FALSE
    /\ replaced = FALSE
    /\ failed = {}

-----------------------------------------------------------------------------
(* The node.                                                                *)

Announced(n) == IF pc = "built" THEN heads ELSE Append(heads, n)

Mine(pools) ==
    /\ mined < MaxBlocks
    /\ chain' = Append(chain, Block(pools))
    /\ mined' = mined + 1
    /\ heads' = Announced(Len(chain'))
    /\ missed' = (missed \/ pc = "built")
    /\ UNCHANGED <<reorgs, spaceVars, readers, streamVars, done, replaced, failed>>

\* The blocks after the first k are replaced, and the new ones announced from
\* block k + 1 on as they come.
Reorg(k, pools) ==
    /\ mined < MaxBlocks
    /\ reorgs < MaxReorgs
    /\ chain' = Append(SubSeq(chain, 1, k), Block(pools))
    /\ mined' = mined + 1
    /\ reorgs' = reorgs + 1
    /\ heads' = Announced(k + 1)
    /\ replaced' = TRUE
    /\ UNCHANGED <<spaceVars, readers, streamVars, done, missed, failed>>

-----------------------------------------------------------------------------
(* The stream.                                                              *)

Subscribe ==
    /\ pc = "built"
    /\ pc' = "head"
    /\ UNCHANGED <<nodeVars, spaceVars, readers, block_number, logs, latest_block,
                   historyVars>>

\* subscribe_blocks().await? fails, or the subscription it made comes to its
\* end: the stream is over.
HeadsEnd ==
    /\ "subscribe_blocks" \in Failures
    /\ pc \in {"built", "head"}
    /\ heads = <<>>
    /\ pc' = "ended"
    /\ UNCHANGED <<nodeVars, spaceVars, readers, block_number, logs, latest_block,
                   historyVars>>

TakeHead ==
    /\ pc = "head"
    /\ heads # <<>>
    /\ block_number' = Head(heads)
    /\ heads' = Tail(heads)
    /\ pc' = "logs"
    /\ UNCHANGED <<chain, mined, reorgs, spaceVars, readers, logs, latest_block,
                   historyVars>>

\* Variant: the filter is left at the latest block.
GetLatestLogs ==
    /\ pc = "logs"
    /\ logs' = chain[Len(chain)]
    /\ pc' = "sync"
    /\ UNCHANGED <<nodeVars, spaceVars, readers, block_number, latest_block, historyVars>>

\* The filter selects a block by its number, so the logs are those of the
\* block that has this number when the node answers.
GetLogs ==
    /\ pc = "logs"
    /\ logs' = IF block_number <= Len(chain) THEN chain[block_number] ELSE NoLogs
    /\ pc' = "sync"
    /\ UNCHANGED <<nodeVars, spaceVars, readers, block_number, latest_block, historyVars>>

\* An error is yielded and the stream is over.
GetLogsFails ==
    /\ "get_logs" \in Failures
    /\ pc = "logs"
    /\ pc' = "ended"
    /\ UNCHANGED <<nodeVars, spaceVars, readers, block_number, logs, latest_block,
                   historyVars>>

\* StateSpace.latest_block.
SpaceLatest == Unset

\* sync's reorg check and what it leaves of the cache and makes of the pools.
Unwinds == SpaceLatest >= block_number

KeptRecords == IF Unwinds THEN Unwind(cache, block_number) ELSE cache

Restored ==
    LET amms == IF Unwinds THEN UnwoundAmms(cache, block_number) ELSE NoAmms
    IN  [p \in Pools |-> IF p \in DOMAIN amms THEN amms[p] ELSE state[p]]

\* sync(logs), one step of the other tasks: it holds the write lock and does
\* not await.  All logs are of one block, which is recorded at the end.
SyncLogs ==
    /\ pc = "sync"
    /\ readers = {}
    /\ IF logs.pools = {}
       THEN UNCHANGED spaceVars
       ELSE /\ state' = [p \in Pools |-> IF p \in logs.pools
                                         THEN Append(Restored[p], logs.hash)
                                         ELSE Restored[p]]
            /\ cache' = Push(KeptRecords,
                             [block_number |-> block_number,
                              state_change |-> [p \in logs.pools |-> Restored[p]]])
            /\ oldest_block' = OldestAfterPush(KeptRecords, oldest_block)
    /\ done' = block_number
    /\ pc' = "store"
    /\ UNCHANGED <<nodeVars, readers, block_number, logs, latest_block, missed, replaced,
                   failed>>

\* amm.sync(log)? fails for pool p once the logs of the pools in before have
\* been applied: they stay, nothing is recorded, and the stream is over.  The
\* failing pool may have been changed in part (0 stands for that part).
SyncFails(p, before) ==
    /\ "sync" \in Failures
    /\ pc = "sync"
    /\ readers = {}
    /\ p \in logs.pools
    /\ before \subseteq logs.pools \ {p}
    /\ \E left \in {Restored[p], Append(Restored[p], 0)} :
           state' = [q \in Pools |-> CASE q = p -> left
                                       [] q \in before -> Append(Restored[q], logs.hash)
                                       [] OTHER -> Restored[q]]
    /\ cache' = KeptRecords
    /\ failed' = failed \cup {p}
    /\ pc' = "ended"
    /\ UNCHANGED <<nodeVars, readers, oldest_block, block_number, logs, latest_block,
                   done, missed, replaced>>

\* The lock is released before the number is stored.
StoreLatest ==
    /\ pc = "store"
    /\ latest_block' = block_number
    /\ pc' = "yield"
    /\ UNCHANGED <<nodeVars, spaceVars, readers, block_number, logs, historyVars>>

\* The consumer has handled the affected pools and polls the stream again.
Poll ==
    /\ pc = "yield"
    /\ pc' = "head"
    /\ UNCHANGED <<nodeVars, spaceVars, readers, block_number, logs, latest_block,
                   historyVars>>

-----------------------------------------------------------------------------
(* The readers.  tokio's RwLock is fair: a waiting writer goes before later *)
(* readers.                                                                 *)

\* Variant: a lock that prefers readers.
AcquireReadFirst(r) ==
    /\ readers' = readers \cup {r}
    /\ UNCHANGED <<nodeVars, spaceVars, streamVars, historyVars>>

AcquireRead(r) ==
    /\ ~WantsWrite
    /\ readers' = readers \cup {r}
    /\ UNCHANGED <<nodeVars, spaceVars, streamVars, historyVars>>

ReleaseRead(r) ==
    /\ r \in readers
    /\ readers' = readers \ {r}
    /\ UNCHANGED <<nodeVars, spaceVars, streamVars, historyVars>>

-----------------------------------------------------------------------------
Node ==
    \/ \E pools \in SUBSET Pools : Mine(pools)
    \/ \E k \in 0..Len(chain) - 1, pools \in SUBSET Pools : Reorg(k, pools)

\* The stream between two items.
Stream ==
    \/ TakeHead
    \/ GetLogs
    \/ GetLogsFails
    \/ SyncLogs
    \/ \E p \in Pools, before \in SUBSET Pools : SyncFails(p, before)
    \/ StoreLatest

-----------------------------------------------------------------------------
(* Types of the node, the state space, the stream and the history.          *)
TypeOK ==
    /\ chain \in Seq([hash : 1..mined, pools : SUBSET Pools])
    /\ mined \in 0..MaxBlocks
    /\ reorgs \in 0..MaxReorgs
    /\ heads \in Seq(1..MaxBlocks)
    /\ state \in [Pools -> Seq(0..mined)]
    /\ oldest_block \in Unset..MaxBlocks
    /\ Len(cache) <= CAP
    /\ \A r \in RecordsIn(cache) :
          /\ r.block_number \in 1..MaxBlocks
          /\ \E D \in SUBSET Pools : r.state_change \in [D -> Seq(0..mined)]
    /\ readers \subseteq Readers
    /\ pc \in {"built", "head", "logs", "sync", "store", "yield", "ended"}
    /\ block_number \in 0..MaxBlocks
    /\ logs \in [hash : 0..mined, pools : SUBSET Pools]
    /\ latest_block \in 0..MaxBlocks \cup {b - Snapshot : b \in Blocks}
    /\ done \in 0..MaxBlocks
    /\ missed \in BOOLEAN
    /\ replaced \in BOOLEAN
    /\ failed \subseteq Pools

\* Readers are shown one block after the other, each whole and exactly once,
\* and from the first block on the latest_block they load is that block or the
\* one before it, until a block is missed or replaced or a log fails (subscribe
\* implements the abstract ChainView).  Until the first block is told, it is
\* the number the builder was given.
ShowsTheChain == Promise!Spec

\* Once all blocks announced since the subscription are handled, the state is
\* the chain's, also after a reorg (tech-docs/General/Module-Integration.md:
\* 695-712: sync detects the reorg, restores the pools and applies the events).
ReorgReverted ==
    ~missed /\ pc = "head" /\ heads = <<>> /\ block_number = Len(chain)
        => state = Promise!ViewAt(chain, Len(chain))
=============================================================================
