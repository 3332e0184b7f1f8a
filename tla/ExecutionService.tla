------------------------- MODULE ExecutionService --------------------------
(***************************************************************************)
(* The four services under examples/protocols that trade: the Moe service   *)
(* (moe/moe_monitor_executor_service.rs), the Agni services with legacy and *)
(* with EIP-1559 fees (agni/v3_monitor_executor_service.rs and its _1559    *)
(* twin) and the V2 service (agni/v2_monitor_executor_service.rs).  Each    *)
(* takes block heads from a subscription, applies the logs of the block     *)
(* before the head, prices its paths, drops those it has seen too often,    *)
(* selects some that share no pool and trades them.  Moe and Agni hand the  *)
(* trades to a worker task through a bounded queue, V2 trades in the loop   *)
(* itself.  Failures are remembered in a file across restarts.  Heads and   *)
(* the copies of pools are those of BlockFeed; simulation and profit are    *)
(* abstracted to the candidates they may yield.                             *)
(***************************************************************************)
EXTENDS FiniteSets, BlockFeed, GreedySelection

CONSTANTS
    Services,        \* the services that are started, of the four below
    Paths,           \* path signatures
    PoolsOf,         \* the pools of a path
    Inputs,          \* quantised inputs, the other half of OpportunitySignature
    Outcomes,        \* the candidates a search may yield, by falling net profit
    QUEUE,           \* capacity of the execution queue (64)
    MAX_APPEARANCES, \* (3)
    COOLDOWN,        \* block_cooldown (1 unless configured)
    MAX_RETRIES,     \* tries of the Moe service for one job (3)
    Unsynced,        \* pools whose logs may fail to apply
    Drained,         \* the sets of Moe pools that may hold nothing at a start
    MaxCrashes,      \* bound on crashes
    Failures         \* calls that may fail: "logs", "slot", "bins",
                     \* "send", "watch", "hang", "disk", "stream"

Inline == {"v2"}
Queued == {"moe", "v3", "v3_1559"}

ASSUME ServiceAssumption ==
    /\ Services \subseteq Inline \cup Queued
    /\ Activity \subseteq SUBSET Pools
    /\ PoolsOf \in [Paths -> (SUBSET Pools) \ {{}}]
    /\ Outcomes \subseteq Seq([path : Paths, input : Inputs])
    /\ {HEADS, QUEUE, MAX_APPEARANCES, COOLDOWN, MAX_RETRIES} \subseteq Nat \ {0}
    /\ MaxBlocks \in Nat \ {0}
    /\ Drained \subseteq SUBSET Pools
    /\ MaxCrashes \in Nat

Opportunities == [path : Paths, input : Inputs]

PoolsIn == [o \in Opportunities |-> PoolsOf[o.path]]

VARIABLES
    service,
    \* The start.
    latest_block, \* the block at which the pools were read
    indexed,      \* the pools the paths of the index are made of
    \* The loop.
    pc,
    target,     \* target_number
    pools,      \* the copies
    cache,      \* PathCache.state_pools
    changed,
    unread,     \* Moe: changed pools that could not be read again
    found,      \* fresh_candidates, best first
    selected,
    next,       \* the selected candidate to be dispatched
    appearances,
    \* The execution.
    queue,
    wpc,        \* where the worker is
    job,
    tries,
    last_executions,
    failed,     \* FailedOpportunityStore.failed_signatures
    \* The disk.
    file,       \* what the store's file holds
    \* History.
    crashes,
    confirmed,  \* trades that were confirmed since the start
    failures,   \* failures marked so far, also before a restart
    attempts    \* attempts on a path since the start

startVars == <<service, latest_block, indexed>>
poolVars == <<target, pools, cache, changed, unread>>
choiceVars == <<found, selected, next, appearances>>
workVars == <<wpc, job, tries, last_executions>>
storeVars == <<failed, file>>
historyVars == <<crashes, confirmed, failures, attempts>>
vars == <<startVars, feedVars, pc, poolVars, choiceVars, queue, workVars, storeVars,
          historyVars>>

Torn == {[path |-> "", input |-> 0]}   \* a file that was truncated and not written
NoJob == [path |-> "", input |-> 0, block |-> 0]

\* The readings a start may go on with: bins that cannot be read are reported.
MoeFirstReads == IF "bins" \in Failures THEN {{"slot", "bins"}, {"slot"}} ELSE {{"slot", "bins"}}

FirstReads == IF service = "moe" THEN MoeFirstReads ELSE {{"slot", "bins"}}

\* The pools an index is built from: the Moe service leaves out those that hold
\* nothing when it starts (is_pool_reasonable).
MoeIndexes == {Pools \ drained : drained \in Drained}

Indexes == IF service = "moe" THEN MoeIndexes ELSE {Pools}

\* What a process that starts, or has gone, has in memory: the pools read at
\* the latest block, and the failures of the file.
Reset(known, read, index) ==
    /\ latest_block' = Len(blocks)
    /\ indexed' = index
    /\ heads' = <<>>
    /\ target' = 0
    /\ pools' = [p \in Pools |-> FirstRead(p, Len(blocks), read)]
    /\ cache' = pools'
    /\ changed' = {}
    /\ unread' = {}
    /\ found' = <<>>
    /\ selected' = <<>>
    /\ next' = 1
    /\ appearances' = [p \in Paths |-> [block |-> 0, count |-> 0]]
    /\ queue' = <<>>
    /\ wpc' = "idle"
    /\ job' = NoJob
    /\ tries' = 0
    /\ last_executions' = [p \in Paths |-> 0]
    /\ failed' = known
    /\ confirmed' = {}
    /\ attempts' = [p \in Paths |-> 0]

\* The service is started when the first block is there, with no file.
Init ==
    /\ service \in Services
    /\ blocks \in [1..1 -> Activity]
    /\ heads = <<>>
    /\ pc = "init"
    /\ latest_block = 1
    /\ indexed \in Indexes
    /\ target = 0
    /\ \E read \in FirstReads : pools = [p \in Pools |-> FirstRead(p, 1, read)]
    /\ cache = pools
    /\ changed = {}
    /\ unread = {}
    /\ found = <<>>
    /\ selected = <<>>
    /\ next = 1
    /\ appearances = [p \in Paths |-> [block |-> 0, count |-> 0]]
    /\ queue = <<>>
    /\ wpc = "idle"
    /\ job = NoJob
    /\ tries = 0
    /\ last_executions = [p \in Paths |-> 0]
    /\ failed = {}
    /\ file = {}
    /\ crashes = 0
    /\ confirmed = {}
    /\ failures = {}
    /\ attempts = [p \in Paths |-> 0]

-----------------------------------------------------------------------------
(* The chain.                                                               *)

Running == pc \notin {"init", "down", "refused"}

Subscribed == Running /\ pc # "closing"

Mine(S) ==
    /\ MineBlock(S, Subscribed)
    /\ UNCHANGED <<startVars, pc, poolVars, choiceVars, queue, workVars, storeVars,
                   historyVars>>

-----------------------------------------------------------------------------
(* The loop.                                                                *)

\* Blocks may have come between the snapshot and this step: no head tells.
Subscribe ==
    /\ pc = "init"
    /\ pc' = "head"
    /\ UNCHANGED <<startVars, feedVars, poolVars, choiceVars, queue, workVars, storeVars,
                   historyVars>>

\* The websocket closes: the loop ends, the worker empties the queue.
StreamEnds ==
    /\ "stream" \in Failures
    /\ pc = "head"
    /\ heads = <<>>
    /\ pc' = "closing"
    /\ UNCHANGED <<startVars, feedVars, poolVars, choiceVars, queue, workVars, storeVars,
                   historyVars>>

\* What pool p is after its logs in the target block, and what could be read.
MoeApplied(p, read) == ReadAgain(p, pools[p], target', read)
AgniApplied(p) == Appended(pools[p], target')
PairApplied(p) == Told(p, target')

Applied(p, read) == CASE service = "moe" -> MoeApplied(p, read)
                      [] service = "v2"  -> PairApplied(p)
                      [] OTHER           -> AgniApplied(p)

\* V2 searches also when all logs were skipped, the others need a change.
Searches ==
    IF service = "v2" THEN blocks[target'] # {} ELSE changed' # {}

\* A head is taken, the logs of the block before it are fetched and applied,
\* and the Moe service reads again the pools they changed.  A log that does
\* not apply is reported and skipped.  All that is awaited here is of a block
\* that is past, so it is one step.
TakeBlock(skipped, read) ==
    /\ pc = "head"
    /\ heads # <<>>
    /\ target' = Head(heads) - 1
    /\ heads' = Tail(heads)
    /\ skipped \subseteq blocks[target'] \cap Unsynced
    /\ {"slot", "bins"} \ read \subseteq Failures
    /\ service = "moe" \/ read = {"slot", "bins"}
    /\ changed' = blocks[target'] \ skipped
    /\ unread' = IF read = {"slot", "bins"} THEN {} ELSE changed'
    /\ pools' = [p \in Pools |-> IF p \notin changed' THEN pools[p]
                                 ELSE Applied(p, read)]
    /\ pc' = IF Searches THEN "price" ELSE "head"
    /\ UNCHANGED <<startVars, blocks, cache, choiceVars, queue, workVars, storeVars,
                   historyVars>>

\* The logs cannot be fetched: the block is never asked for again.
LoseBlock ==
    /\ "logs" \in Failures
    /\ pc = "head"
    /\ heads # <<>>
    /\ target' = Head(heads) - 1
    /\ heads' = Tail(heads)
    /\ UNCHANGED <<startVars, blocks, pc, pools, cache, changed, unread, choiceVars, queue,
                   workVars, storeVars, historyVars>>

-----------------------------------------------------------------------------
(* Candidates and their selection.                                          *)

\* The copies that prices are taken from.  The Agni services simulate on the
\* pools as they were when the paths were built.
MoePrices == pools
AgniPrices == cache
PairPrices == pools

Prices == CASE service = "moe" -> MoePrices
            [] service = "v2" -> PairPrices
            [] OTHER -> AgniPrices

\* The paths that are simulated: the Moe service has an index of the paths
\* through each pool, the others take all.
MoeSearched == {p \in Paths : PoolsOf[p] \subseteq indexed /\ PoolsOf[p] \cap changed # {}}
AgniSearched == Paths
AgniFeesSearched == Paths
PairSearched == Paths

Searched == CASE service = "moe" -> MoeSearched
              [] service = "v3" -> AgniSearched
              [] service = "v3_1559" -> AgniFeesSearched
              [] OTHER -> PairSearched

Done ==
    /\ found' = <<>>
    /\ selected' = <<>>
    /\ next' = 1
    /\ changed' = {}
    /\ unread' = {}

\* A path is counted once a block, and let through max_appearances times.
Counted(p) == IF appearances[p].block = target
              THEN appearances[p]
              ELSE [block |-> target, count |-> appearances[p].count + 1]

\* Variant: the candidate is filtered by the count before this block.
FilterUncounted(ranking) ==
    SelectSeq(ranking, LAMBDA c : appearances[c.path].count <= MAX_APPEARANCES)

FilterAndUpdate(ranking) ==
    LET kept[n \in 0..Len(ranking)] ==
            IF n = 0 THEN <<>>
            ELSE IF Counted(ranking[n].path).count <= MAX_APPEARANCES
                 THEN Append(kept[n - 1], ranking[n])
                 ELSE kept[n - 1]
    IN  kept[Len(ranking)]

\* The paths are priced, filtered and selected without an await.
Choose(ranking) ==
    LET seen == {ranking[i].path : i \in DOMAIN ranking}
    IN  /\ pc = "price"
        /\ seen \subseteq Searched
        /\ appearances' = [p \in Paths |-> IF p \in seen THEN Counted(p) ELSE appearances[p]]
        /\ IF FilterAndUpdate(ranking) = <<>>
           THEN Done /\ pc' = "head"
           ELSE /\ found' = FilterAndUpdate(ranking)
                /\ selected' = SelectFrom(found', PoolsIn)
                /\ pc' = "dispatch"
                /\ UNCHANGED <<next, changed, unread>>
        /\ UNCHANGED <<startVars, feedVars, target, pools, cache, queue, workVars,
                       storeVars, historyVars>>

-----------------------------------------------------------------------------
(* Dispatch.                                                                *)

\* Where the loop awaits something while it holds the store's lock: nowhere,
\* the guard is dropped before the job is sent.
\* Variant: the guard is kept until the job is in the queue.
LockedWhileSending == {"send"}

LockedWhile == {}

WorkerHoldsStore == wpc = "write"

Candidate == selected[next]

Dispatched ==
    IF next < Len(selected)
    THEN /\ pc' = "dispatch"
         /\ next' = next + 1
         /\ UNCHANGED <<found, selected, changed, unread>>
    ELSE Done /\ pc' = "head"

IsFailed ==
    /\ pc = "dispatch"
    /\ ~WorkerHoldsStore
    /\ [path |-> Candidate.path, input |-> Candidate.input] \in failed
    /\ Dispatched
    /\ UNCHANGED <<startVars, feedVars, target, pools, cache, appearances, queue, workVars,
                   storeVars, historyVars>>

IsNotFailed ==
    /\ pc = "dispatch"
    /\ ~WorkerHoldsStore
    /\ [path |-> Candidate.path, input |-> Candidate.input] \notin failed
    /\ pc' = IF service \in Inline THEN "trade" ELSE "send"
    /\ UNCHANGED <<startVars, feedVars, poolVars, choiceVars, queue, workVars, storeVars,
                   historyVars>>

JobOf(c) == [path |-> c.path, input |-> c.input, block |-> target]

\* tx.send(job).await waits for room in the channel.
SendJob ==
    /\ pc = "send"
    /\ Len(queue) < QUEUE
    /\ queue' = Append(queue, JobOf(Candidate))
    /\ Dispatched
    /\ UNCHANGED <<startVars, feedVars, target, pools, cache, appearances, workVars,
                   storeVars, historyVars>>

\* The saturating difference of a job's block and the last execution's.
\* Variant: only executions of the same block count.
CoolingSameBlock(j) == last_executions[j.path] = j.block

Cooling(j) ==
    LET last == last_executions[j.path]
    IN  last # 0 /\ j.block < last + COOLDOWN

\* V2 trades in the loop: the block is not left before the trade is over.
TradeInline ==
    /\ pc = "trade"
    /\ IF Cooling(JobOf(Candidate))
       THEN /\ Dispatched
            /\ UNCHANGED <<wpc, job, tries, attempts>>
       ELSE /\ job' = JobOf(Candidate)
            /\ wpc' = "attempt"
            /\ tries' = 1
            /\ attempts' = [attempts EXCEPT ![Candidate.path] = @ + 1]
            /\ pc' = "trading"
            /\ UNCHANGED <<found, selected, next, changed, unread>>
    /\ UNCHANGED <<startVars, feedVars, target, pools, cache, appearances, queue,
                   last_executions, storeVars, crashes, confirmed, failures>>

TradedInline ==
    /\ pc = "trading"
    /\ wpc = "idle"
    /\ Dispatched
    /\ UNCHANGED <<startVars, feedVars, target, pools, cache, appearances, queue, workVars,
                   storeVars, historyVars>>

Loop ==
    \/ \E skipped \in SUBSET Unsynced, read \in SUBSET {"slot", "bins"} : TakeBlock(skipped, read)
    \/ LoseBlock
    \/ \E ranking \in Outcomes : Choose(ranking)
    \/ IsFailed
    \/ IsNotFailed
    \/ SendJob
    \/ TradeInline
    \/ TradedInline

-----------------------------------------------------------------------------
(* The worker, or the loop of V2 while it trades.                           *)

Receive ==
    /\ service \in Queued
    /\ wpc = "idle"
    /\ queue # <<>>
    /\ queue' = Tail(queue)
    /\ IF Cooling(Head(queue))
       THEN UNCHANGED <<wpc, job, tries, attempts>>
       ELSE /\ job' = Head(queue)
            /\ wpc' = "attempt"
            /\ tries' = 1
            /\ attempts' = [attempts EXCEPT ![Head(queue).path] = @ + 1]
    /\ UNCHANGED <<startVars, feedVars, pc, poolVars, choiceVars, last_executions,
                   storeVars, crashes, confirmed, failures>>

\* Transactions attempt_execution sends before it gives up.
MoeTries == MAX_RETRIES
AgniTries == 1
AgniFeesTries == 1
PairTries == 1

Tries == CASE service = "moe" -> MoeTries
           [] service = "v3" -> AgniTries
           [] service = "v3_1559" -> AgniFeesTries
           [] OTHER -> PairTries

Step(from, to) ==
    /\ wpc = from
    /\ wpc' = to
    /\ UNCHANGED <<startVars, feedVars, pc, poolVars, choiceVars, queue, failed, crashes>>

\* The balance cannot be read or is too low (zero for Moe, which trades what
\* there is), or the fee plan leaves no gain: nothing is sent.
Refuse ==
    /\ "send" \in Failures
    /\ tries = 1
    /\ Step("attempt", "mark")
    /\ UNCHANGED <<job, tries, last_executions, file, confirmed, failures, attempts>>

\* The node does not take the transaction, or does not say that it was mined:
\* it may be mined all the same when the next one is sent.
TryFails ==
    /\ "watch" \in Failures
    /\ Step("attempt", IF tries < Tries THEN "attempt" ELSE "mark")
    /\ tries' = IF tries < Tries THEN tries + 1 ELSE tries
    /\ UNCHANGED <<job, last_executions, file, confirmed, failures, attempts>>

\* watch() is given no timeout: a transaction the node drops is awaited for ever.
WatchHangs ==
    /\ "hang" \in Failures
    /\ Step("attempt", "hung")
    /\ UNCHANGED <<job, tries, last_executions, file, confirmed, failures, attempts>>

\* The transaction is mined, also when it is reverted.
Watched ==
    /\ Step("attempt", "idle")
    /\ last_executions' = [last_executions EXCEPT ![job.path] = job.block]
    /\ confirmed' = confirmed \cup {[path |-> job.path, block |-> job.block]}
    /\ job' = NoJob
    /\ tries' = 0
    /\ UNCHANGED <<file, failures, attempts>>

Opportunity == [path |-> job.path, input |-> job.input]

\* mark_as_failed: the file is truncated when it is opened ...
MarkAsFailed ==
    /\ wpc = "mark"
    /\ pc \notin LockedWhile
    /\ failed' = failed \cup {Opportunity}
    /\ \/ Opportunity \in failed /\ wpc' = "idle" /\ UNCHANGED file
       \/ Opportunity \notin failed /\ wpc' = "write" /\ file' = Torn
       \/ Opportunity \notin failed /\ "disk" \in Failures /\ wpc' = "idle" /\ UNCHANGED file
    /\ UNCHANGED <<startVars, feedVars, pc, poolVars, choiceVars, queue, job, tries,
                   last_executions, historyVars>>

\* ... and written as a whole.
\* Variant: only what is new is written.
WriteOne ==
    /\ Step("write", "idle")
    /\ file' = {Opportunity}
    /\ failures' = failures \cup {Opportunity}
    /\ UNCHANGED <<job, tries, last_executions, confirmed, attempts>>

Write ==
    /\ Step("write", "idle")
    /\ \/ file' = failed /\ failures' = failures \cup {Opportunity}
       \/ "disk" \in Failures /\ UNCHANGED <<file, failures>>
    /\ UNCHANGED <<job, tries, last_executions, confirmed, attempts>>

Worker ==
    \/ Receive
    \/ Refuse
    \/ TryFails
    \/ WatchHangs
    \/ Watched
    \/ MarkAsFailed
    \/ Write

-----------------------------------------------------------------------------
(* The process.                                                             *)

\* It is killed, or the loop ends on an error and takes the worker with it.
Crash ==
    /\ Running
    /\ crashes < MaxCrashes
    /\ crashes' = crashes + 1
    /\ pc' = "down"
    /\ Reset({}, {"slot", "bins"}, Pools)
    /\ UNCHANGED <<service, blocks, file, failures>>

\* The queue is closed and empty, the worker is joined.
Exit ==
    /\ pc = "closing"
    /\ queue = <<>>
    /\ wpc = "idle"
    /\ pc' = "down"
    /\ Reset({}, {"slot", "bins"}, Pools)
    /\ UNCHANGED <<service, blocks, file, crashes, failures>>

Restart ==
    /\ pc = "down"
    /\ file # Torn
    /\ pc' = "init"
    /\ \E read \in FirstReads, index \in Indexes : Reset(file, read, index)
    /\ UNCHANGED <<service, blocks, file, crashes, failures>>

\* A file that is not JSON is an error of load and ends the start.
RestartFails ==
    /\ pc = "down"
    /\ file = Torn
    /\ pc' = "refused"
    /\ UNCHANGED <<startVars, feedVars, poolVars, choiceVars, queue, workVars, storeVars,
                   historyVars>>

Next ==
    \/ \E S \in Activity : Mine(S)
    \/ Subscribe
    \/ StreamEnds
    \/ Loop
    \/ Worker
    \/ Crash
    \/ Exit
    \/ Restart
    \/ RestartFails

Spec == Init /\ [][Next]_vars

\* Calls to the node return, and tasks that can run are run.
Fairness == WF_vars(Subscribe) /\ WF_vars(Loop) /\ WF_vars(Worker) /\ WF_vars(Exit)

FairSpec == Spec /\ Fairness

-----------------------------------------------------------------------------
(* Types of the chain, the loop, the worker, the store and the history.     *)
TypeOK ==
    /\ service \in Services
    /\ blocks \in Seq(SUBSET Pools) /\ Len(blocks) \in 1..MaxBlocks
    /\ heads \in Seq(2..MaxBlocks) /\ Len(heads) <= HEADS
    /\ pc \in {"init", "head", "price", "dispatch", "send",
               "trade", "trading", "closing", "down", "refused"}
    /\ target \in 0..MaxBlocks - 1
    /\ latest_block \in 1..MaxBlocks /\ indexed \subseteq Pools
    /\ {pools, cache} \subseteq [Pools -> [Parts -> [1..MaxBlocks -> 0..2]]]
    /\ unread \subseteq changed /\ changed \subseteq Pools
    /\ {found, selected} \subseteq Seq(Opportunities)
    /\ next \in 1..Cardinality(Paths)
    /\ appearances \in [Paths -> [block : 0..MaxBlocks, count : 0..MaxBlocks]]
    /\ queue \in Seq([path : Paths, input : Inputs, block : 1..MaxBlocks])
    /\ Len(queue) <= QUEUE
    /\ wpc \in {"idle", "attempt", "hung", "mark", "write"}
    /\ tries \in 0..MAX_RETRIES
    /\ last_executions \in [Paths -> 0..MaxBlocks]
    /\ failed \subseteq Opportunities
    /\ file = Torn \/ file \subseteq Opportunities

\* Trades of one block are made of disjoint pools, and a candidate is left out
\* only for one at least as good that shares a pool with it.
SelectionIsGreedy ==
    found # <<>> =>
        /\ \A i, j \in DOMAIN selected : i # j => ~SharesPool(selected[i], selected[j], PoolsIn)
        /\ \A i \in DOMAIN found :
              \/ found[i] \in ToSet(selected)
              \/ \E k \in 1..i - 1 : /\ found[k] \in ToSet(selected)
                                     /\ SharesPool(found[k], found[i], PoolsIn)

\* Two confirmed trades of a path are at least the cooldown apart, however
\* long their jobs were queued.
CooldownKept ==
    \A c, d \in confirmed : c.path = d.path /\ c.block < d.block
                               => c.block + COOLDOWN <= d.block

\* Between two starts a path is traded at most max_appearances times, failed
\* trades included, whatever is still queued when the first of them fails.
AttemptsBounded == \A p \in Paths : attempts[p] <= MAX_APPEARANCES

\* A failure that is on disk is known to the service, also after a crash and a
\* restart: what is known then is never less.
FailuresSurvive == Running \/ pc = "init" => failures \subseteq failed

\* What a copy shows.  No logs of a block are in it twice, save those of the
\* block at which the pools were read, when that is the first block the loop
\* takes, and none of a later block than those read and taken.  A reading of
\* the Moe service, or a Sync log of a pair, heals what was doubled or lost in
\* what it tells, before the pool is priced; bins no reading tells stay as the
\* logs made them.
LogsCountOnce ==
    /\ \A p \in Pools, part \in Parts, k \in 1..MaxBlocks :
          /\ pools[p][part][k] <= IF k = latest_block THEN 2 ELSE 1
          /\ pools[p][part][k] > 0 => p \in blocks[k] /\ (k <= latest_block \/ k <= target)
    /\ pc = "price" /\ service \in {"moe", "v2"} =>
          \A p \in changed \ unread, part \in {"slot", "bins"} :
              Prices[p][part] = ContentAt(p, target)

\* No announced block is waited for ever, and a closed queue is emptied: the
\* loop and the worker never wait for one another.  Only a transaction that is
\* neither mined nor refused stops them.
LoopAndWorkerProgress ==
    /\ \A n \in 2..MaxBlocks :
          n \in ToSet(heads) ~> (target + 1 >= n \/ wpc = "hung" \/ ~Running)
    /\ pc = "send" ~> (pc # "send" \/ wpc = "hung")
    /\ pc = "closing" ~> (pc # "closing" \/ wpc = "hung")
=============================================================================
