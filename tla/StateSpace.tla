----------------------------- MODULE StateSpace -----------------------------
(***************************************************************************)
(* StateSpace and its method sync(logs) (src/state_space/mod.rs).  One call *)
(* of sync is a run of the actions below from phase "idle" to "returned":   *)
(* the call never awaits, but its loop is modelled log by log because an    *)
(* error leaves it half way.                                                *)
(*                                                                         *)
(* The caller is the loop of StateSpaceManager::subscribe with one          *)
(* difference: after a successful call it stores the block number in the    *)
(* latest_block of the STATE SPACE, the counter sync compares with.         *)
(* Module StateSpaceManager models the loop as it is, which stores it       *)
(* elsewhere.  As in that loop, an error ends the calls.                    *)
(*                                                                         *)
(* What amm.sync(log) makes of a pool is any value: nothing here depends    *)
(* on it.  Logs of one call come in block order, as eth_getLogs returns     *)
(* them; a call for a block at or below an earlier one reports a reorg.     *)
(***************************************************************************)
EXTENDS StateChangeCache

CONSTANTS
    SnapshotBlock,  \* block the builder read the pools at
    MaxBlock        \* bound on block numbers

ASSUME BlockAssumption ==
    /\ SnapshotBlock \in Nat
    /\ MaxBlock \in Nat
    /\ SnapshotBlock < MaxBlock

VARIABLES
    state,          \* StateSpace.state
    latest_block,   \* StateSpace.latest_block
    oldest_block,   \* StateChangeCache.oldest_block
    cache,          \* StateChangeCache.cache
    phase,          \* where the current call of sync is
    block_number,   \* sync: block whose logs are being applied
    cached_amms,    \* sync: pools of that block as they were before it
    affected_amms,  \* sync: what the call returns
    \* History: what the state space should hold.
    versions,       \* versions[b]: the pools before block b of the chain
    touched,        \* pools the logs of the current call were applied to
    stale           \* a reorg came in a form sync does not roll back

spaceVars == <<state, latest_block, oldest_block, cache>>
callVars == <<phase, block_number, cached_amms, affected_amms>>
historyVars == <<versions, touched, stale>>
vars == <<spaceVars, callVars, historyVars>>

Blocks == 1..MaxBlock
Top == MaxBlock + 1
Versions == (SnapshotBlock + 1)..Top

Views == [Pools -> AmmStates]

Between == phase \in {"idle", "returned"}

-----------------------------------------------------------------------------
(* History: the chain as its logs were delivered.                           *)

\* The blocks from n on were replaced, so far by nothing.
RolledBack(n) ==
    IF n \in Versions
    THEN [b \in Versions |-> IF b > n THEN versions[n] ELSE versions[b]]
    ELSE versions

\* Block n made v of pool p.
Recorded(n, p, v) ==
    [b \in Versions |->
        IF b > n THEN [versions[b] EXCEPT ![p] = v] ELSE versions[b]]

-----------------------------------------------------------------------------
Init ==
    /\ state \in Views
    /\ latest_block = 0
    /\ oldest_block = 0
    /\ cache = <<>>
    /\ phase = "idle"
    /\ block_number = 0
    /\ cached_amms = NoAmms
    /\ affected_amms = {}
    /\ versions = [b \in Versions |-> state]
    /\ touched = {}
    /\ stale = FALSE

\* No logs for block n: sync returns before it compares block numbers, so a
\* record of block n or later that should be rolled back stays, and a reorg
\* too deep for the cache goes unnoticed.
SyncEmpty(n) ==
    /\ phase = "idle"
    /\ phase' = "returned"
    /\ block_number' = n
    /\ affected_amms' = {}
    /\ versions' = RolledBack(n)
    /\ touched' = {}
    /\ stale' = \/ stale
                \/ n <= SnapshotBlock
                \/ n < oldest_block
                \/ cache # <<>> /\ cache[1].block_number >= n
    /\ UNCHANGED <<spaceVars, cached_amms>>

\* The first log is of block n.  The pools were read at SnapshotBlock: logs up
\* to that block are in them already, and no record leads back before it.
EnterLoop(n) ==
    /\ phase' = "first"
    /\ block_number' = n
    /\ cached_amms' = NoAmms
    /\ affected_amms' = {}
    /\ versions' = RolledBack(n)
    /\ touched' = {}
    /\ stale' = (stale \/ n <= SnapshotBlock)

SyncForward(n) ==
    /\ phase = "idle"
    /\ latest_block < n
    /\ EnterLoop(n)
    /\ UNCHANGED spaceVars

\* The state after every pool of amms is inserted into it.
Reverted(block) ==
    LET amms == UnwoundAmms(cache, block)
    IN  [p \in Pools |-> IF p \in DOMAIN amms THEN amms[p] ELSE state[p]]

SyncUnwind(n) ==
    /\ phase = "idle"
    /\ latest_block >= n
    /\ ~UnwindPanics(oldest_block, n)
    /\ state' = Reverted(n)
    /\ cache' = Unwind(cache, n)
    /\ EnterLoop(n)
    /\ UNCHANGED <<latest_block, oldest_block>>

SyncPanic(n) ==
    /\ phase = "idle"
    /\ latest_block >= n
    /\ UnwindPanics(oldest_block, n)
    /\ phase' = "panicked"
    /\ UNCHANGED <<spaceVars, block_number, cached_amms, affected_amms, historyVars>>

\* Record the pools of the block that ends and report them as affected.
CacheBlock ==
    /\ cache' = Push(cache, [block_number |-> block_number, state_change |-> cached_amms])
    /\ oldest_block' = OldestAfterPush(cache, oldest_block)
    /\ affected_amms' = affected_amms \cup DOMAIN cached_amms

\* The head of the loop body: a log of another block ends the block before
\* it, which is recorded even when none of its logs was of a tracked pool.
AtLog(b) ==
    /\ phase \in {"first", "loop"}
    /\ phase = "first" => b = block_number
    /\ b >= block_number
    /\ block_number' = b
    /\ IF b = block_number
       THEN UNCHANGED <<cache, oldest_block, affected_amms>>
       ELSE CacheBlock

\* The pools cached when a log of block b is reached, and with p added:
\* HashSet::insert keeps the element it has.
CachedAt(b) == IF b = block_number THEN cached_amms ELSE NoAmms

\* Variant: a later clone of the pool replaces the first (HashSet::replace).
WithLastPool(amms, p) ==
    [q \in DOMAIN amms \cup {p} |-> IF q = p THEN state[p] ELSE amms[q]]

WithPool(amms, p) ==
    [q \in DOMAIN amms \cup {p} |-> IF q \in DOMAIN amms THEN amms[q] ELSE state[p]]

SyncLog(b, p, v) ==
    /\ AtLog(b)
    /\ phase' = "loop"
    /\ cached_amms' = WithPool(CachedAt(b), p)
    /\ state' = [state EXCEPT ![p] = v]
    /\ versions' = Recorded(b, p, v)
    /\ touched' = touched \cup {p}
    /\ UNCHANGED <<latest_block, stale>>

\* A log of an address that is not tracked.
SkipLog(b) ==
    /\ AtLog(b)
    /\ phase' = "loop"
    /\ cached_amms' = CachedAt(b)
    /\ UNCHANGED <<state, latest_block, historyVars>>

\* amm.sync(log)? fails, maybe after changing the pool: the call returns the
\* error and what it cached of this block is dropped.
SyncLogFails(b, p, v) ==
    /\ AtLog(b)
    /\ phase' = "failed"
    /\ cached_amms' = NoAmms
    /\ state' = [state EXCEPT ![p] = v]
    /\ touched' = touched \cup {p}
    /\ UNCHANGED <<latest_block, versions, stale>>

\* A log without a block number, at the start of a call or in its loop.
MissingBlockNumber ==
    /\ phase \in {"idle", "loop"}
    /\ phase' = "failed"
    /\ cached_amms' = NoAmms
    /\ touched' = IF phase = "idle" THEN {} ELSE touched
    /\ UNCHANGED <<spaceVars, block_number, affected_amms, versions, stale>>

SyncReturn ==
    /\ phase = "loop"
    /\ IF DOMAIN cached_amms = {}
       THEN UNCHANGED <<cache, oldest_block, affected_amms>>
       ELSE CacheBlock
    /\ phase' = "returned"
    /\ cached_amms' = NoAmms
    /\ UNCHANGED <<state, latest_block, block_number, historyVars>>

\* The caller notes the block it has synced.
StoreLatest ==
    /\ phase = "returned"
    /\ latest_block' = block_number
    /\ phase' = "idle"
    /\ UNCHANGED <<state, oldest_block, cache, block_number, cached_amms,
                   affected_amms, historyVars>>

Next ==
    \/ \E n \in Blocks : SyncEmpty(n) \/ SyncForward(n) \/ SyncUnwind(n) \/ SyncPanic(n)
    \/ \E b \in Blocks, p \in Pools, v \in AmmStates : SyncLog(b, p, v)
    \/ \E b \in Blocks, p \in Pools, v \in AmmStates : SyncLogFails(b, p, v)
    \/ \E b \in Blocks : SkipLog(b)
    \/ MissingBlockNumber
    \/ SyncReturn
    \/ StoreLatest

Spec == Init /\ [][Next]_vars

-----------------------------------------------------------------------------
(* Types of the state space, of the call in progress and of the history.    *)
TypeOK ==
    /\ state \in Views
    /\ latest_block \in 0..MaxBlock
    /\ oldest_block \in Nat
    /\ cache \in Seq(StateChange)
    /\ Len(cache) <= CAP
    /\ phase \in {"idle", "first", "loop", "returned", "failed", "panicked"}
    /\ block_number \in 0..MaxBlock
    /\ cached_amms \in AmmSet
    /\ affected_amms \in SUBSET Pools
    /\ versions \in [Versions -> Views]
    /\ touched \in SUBSET Pools
    /\ stale \in BOOLEAN

\* After every step of sync the pools are those of the chain whose logs were
\* delivered: a reorg's abandoned logs are undone before the new ones apply.
\* A call that failed spoils only the pools it had touched.
StateIsCanonical ==
    ~stale => \A p \in Pools :
        phase # "failed" \/ p \notin touched => state[p] = versions[Top][p]

\* Between calls, a rollback to any block the cache still accepts would
\* restore exactly the pools as they were before that block
\* (unwind_state_changes: the records are complete, in order, and the oldest
\* record of a pool wins).
RollbackExact ==
    Between /\ ~stale =>
        \A b \in Versions :
            ~UnwindPanics(oldest_block, b) => Reverted(b) = versions[b]

\* The records are those of different blocks, newest first, and none is of a
\* block before oldest_block, so a rollback that does not panic never stops
\* inside the history it needs.
RecordsOrdered ==
    ~stale => /\ Ordered(cache)
              /\ \A r \in RecordsIn(cache) : r.block_number >= oldest_block

\* A call reports exactly the pools its logs were applied to, over all the
\* blocks of the batch.
AffectedAreTouched == phase = "returned" => affected_amms = touched

-----------------------------------------------------------------------------
(* Why a rollback is exact: the inductive invariant.                        *)

\* How far the call in progress and the records have come.
CallBounds ==
    /\ phase = "idle" =>
        /\ oldest_block <= latest_block
        /\ \A r \in RecordsIn(cache) : r.block_number <= latest_block
    /\ phase \in {"first", "loop"} =>
        /\ SnapshotBlock < block_number
        /\ oldest_block <= block_number
        /\ \A r \in RecordsIn(cache) : r.block_number < block_number
    /\ phase = "returned" =>
        /\ oldest_block <= block_number
        /\ \A r \in RecordsIn(cache) : r.block_number <= block_number

CallLocals ==
    /\ phase # "loop" => DOMAIN cached_amms = {}
    /\ phase \in {"first", "loop"} =>
        touched = affected_amms \cup DOMAIN cached_amms

\* A record holds its pools as they were before its block, and so do the
\* pools cached for the block in progress.
RecordsExact ==
    /\ \A r \in RecordsIn(cache) :
        /\ r.block_number \in Versions
        /\ \A p \in DOMAIN r.state_change :
               r.state_change[p] = versions[r.block_number][p]
    /\ \A p \in DOMAIN cached_amms : cached_amms[p] = versions[block_number][p]

\* A pool that differs before blocks b and c has a record from in between.
ChangesRecorded ==
    \A p \in Pools, b, c \in Versions :
        oldest_block <= b /\ b <= c =>
            \/ versions[b][p] = versions[c][p]
            \/ \E r \in RecordsIn(cache) :
                  /\ p \in DOMAIN r.state_change
                  /\ b <= r.block_number
                  /\ r.block_number < c
            \/ /\ p \in DOMAIN cached_amms
               /\ b <= block_number
               /\ block_number < c

UndoInv ==
    /\ CallLocals
    /\ AffectedAreTouched
    /\ StateIsCanonical
    /\ RecordsOrdered
    /\ ~stale => CallBounds
    /\ ~stale /\ phase # "failed" => RecordsExact /\ ChangesRecorded
=============================================================================
