-------------------------- MODULE UniswapV3Factory --------------------------
(***************************************************************************)
(* UniswapV3Factory (src/amms/uniswap_v3/mod.rs): how the pools are found   *)
(* (get_all_pools) and how their ticks are read (sync_all_pools) when the   *)
(* state space is built.  Both cut what they ask for into requests with     *)
(* limits, and only then await the answers, which come in any order.  The   *)
(* first error ends the whole call.                                         *)
(*                                                                         *)
(* Ticks are compressed, that is, divided by their pool's spacing: tick t   *)
(* is bit t % WordBits of word t \div WordBits of the pool's bitmap.  All   *)
(* calls are made for one block, so the contracts do not change meanwhile.  *)
(***************************************************************************)
EXTENDS Integers, Sequences, FiniteSets, SequencesExt, FiniteSetsExt, Filtering

CONSTANTS
    Pools,
    creation_block,  \* UniswapV3Factory.creation_block
    MaxTip,          \* bound on the block the pools are read at
    sync_step,       \* get_all_pools, 1000 in the code
    MinWord,         \* tick_to_word(MIN_TICK, spacing) of each pool
    MaxWord,         \* tick_to_word(MAX_TICK, spacing) of each pool
    WordBits,        \* bits of a word, 256
    max_range,       \* sync_tick_bitmaps, 6900
    max_ticks,       \* sync_tick_data, 60
    MaxInitialized   \* bound on the initialized ticks of a pool

ASSUME FactoryAssumption ==
    /\ IsFiniteSet(Pools)
    /\ creation_block \in Nat /\ MaxTip \in Nat
    /\ sync_step \in Nat /\ WordBits \in Nat \ {0} /\ MaxInitialized \in Nat
    /\ MinWord \in [Pools -> Int] /\ MaxWord \in [Pools -> Int]
    /\ \A p \in Pools : MinWord[p] < MaxWord[p]
    /\ max_range \in Nat \ {0} /\ max_ticks \in Nat \ {0}

VARIABLES
    \* The chain, and the pools the caller lists.
    block_number,  \* the block the pools are read at
    created,       \* block of the PoolCreated log of each pool
    initialized,   \* initialized ticks of each pool
    brought,       \* of a pool that is listed by hand, the ticks it was inited
                   \* with at an earlier block: bits and data
    \* The call.
    phase,
    latest_block,  \* get_all_pools: where the next window starts
    requests,      \* calls not answered yet
    pools,         \* the Vec of pools
    queue,         \* pools the current loop has not finished
    min_word,      \* sync_tick_bitmaps: first word of the next request
    word_range,    \* sync_tick_bitmaps: words left of the pool
    unread,        \* sync_tick_data: ticks left of the pool
    group,         \* calldata of the request being filled
    group_size,    \* group_range, or group_ticks
    tick_bitmap,   \* bits of each pool
    ticks          \* ticks whose data was read; of the others, a pool keeps
                   \* the data it brought

chainVars == <<block_number, created, initialized, brought>>
loopVars == <<queue, min_word, word_range, unread, group, group_size>>
factoryVars == <<chainVars, phase, latest_block, requests, pools, loopVars, tick_bitmap, ticks>>

WordOf(t) == t \div WordBits

WordsOf(p) == MinWord[p]..MaxWord[p]

TicksOf(p) == WordBits * MinWord[p]..WordBits * (MaxWord[p] + 1) - 1

FactoryInit ==
    /\ block_number \in creation_block..MaxTip
    /\ created \in [Pools -> creation_block..block_number]
    /\ initialized = [p \in Pools |-> {}]
    /\ brought = [p \in Pools |-> {}]
    /\ phase = "windows"
    /\ latest_block = creation_block
    /\ requests = <<>>
    /\ pools = <<>>
    /\ queue = <<>>
    /\ min_word = 0
    /\ word_range = 0
    /\ unread = <<>>
    /\ group = <<>>
    /\ group_size = 0
    /\ tick_bitmap = [p \in Pools |-> {}]
    /\ ticks = [p \in Pools |-> {}]

-----------------------------------------------------------------------------
(* get_all_pools.                                                           *)

\* Variant: windows that share a block.
TouchingWindow ==
    /\ phase = "windows"
    /\ latest_block < block_number
    /\ LET to_block == Min({latest_block + sync_step, block_number})
       IN  /\ requests' = Append(requests, [from |-> latest_block, to |-> to_block])
           /\ latest_block' = to_block
    /\ UNCHANGED <<chainVars, phase, pools, loopVars, tick_bitmap, ticks>>

Window ==
    /\ phase = "windows"
    /\ latest_block < block_number
    /\ LET to_block == Min({latest_block + sync_step, block_number})
       IN  /\ requests' = Append(requests, [from |-> latest_block, to |-> to_block])
           /\ latest_block' = to_block + 1
    /\ UNCHANGED <<chainVars, phase, pools, loopVars, tick_bitmap, ticks>>

LastWindow ==
    /\ phase = "windows"
    /\ ~(latest_block < block_number)
    /\ phase' = "logs"
    /\ UNCHANGED <<chainVars, latest_block, requests, pools, loopVars, tick_bitmap, ticks>>

\* The logs of a window, in the order of their blocks.
WindowLogs(i) ==
    /\ phase = "logs"
    /\ i \in DOMAIN requests
    /\ requests' = RemoveAt(requests, i)
    /\ \E found \in SetToSeqs({p \in Pools : created[p] \in requests[i].from..requests[i].to}) :
          /\ \A j, k \in DOMAIN found : j < k => created[found[j]] <= created[found[k]]
          /\ pools' = pools \o found
    /\ UNCHANGED <<chainVars, phase, latest_block, loopVars, tick_bitmap, ticks>>

-----------------------------------------------------------------------------
(* sync_all_pools.                                                          *)

\* A loop starts with a pool, or ends.
StartBitmap(q) ==
    /\ queue' = q
    /\ IF q = <<>>
       THEN min_word' = 0 /\ word_range' = 0
       ELSE /\ min_word' = MinWord[q[1]]
            /\ word_range' = MaxWord[q[1]] - MinWord[q[1]]

Ascending(S) ==
    CHOOSE s \in [1..Cardinality(S) -> S] : \A i, j \in DOMAIN s : i < j => s[i] < s[j]

StartTicks(q) ==
    /\ queue' = q
    /\ unread' = IF q = <<>> THEN <<>> ELSE Ascending(tick_bitmap[q[1]])

\* sync_slot_0 and sync_token_decimals; pools without liquidity or without a
\* decimals of either token are dropped.  What the contracts hold is chosen
\* here, where it is first asked for.  A pool with liquidity has the ticks at
\* the ends of a position, at least.
ReadPools ==
    /\ phase = "found"
    /\ phase' = "bitmaps"
    /\ \E live \in SUBSET Range(pools) :
          /\ \E held \in [live -> UNION {kSubset(n, UNION {TicksOf(p) : p \in Pools}) :
                                            n \in 2..MaxInitialized}] :
                /\ \A p \in live : held[p] \subseteq TicksOf(p)
                /\ initialized' = [p \in Pools |-> IF p \in live THEN held[p] ELSE {}]
          /\ pools' = Sift(pools, live)
    /\ StartBitmap(pools')
    /\ UNCHANGED <<block_number, created, brought, latest_block, requests, unread, group,
                   group_size, tick_bitmap, ticks>>

\* A group that has reached its limit is sent.
SendFull(g, size, limit) ==
    IF size >= limit
    THEN requests' = Append(requests, g) /\ group' = <<>> /\ group_size' = 0
    ELSE requests' = requests /\ group' = g /\ group_size' = size

\* sync_tick_bitmaps, an iteration of the while loop.
GroupWords ==
    /\ phase = "bitmaps"
    /\ queue # <<>>
    /\ word_range > 0
    /\ LET range == Min({word_range, max_range - group_size})
           info == [pool |-> queue[1], minWord |-> min_word, maxWord |-> min_word + range]
       IN  /\ word_range' = word_range - range
           /\ min_word' = min_word + (range - 1)
           /\ SendFull(Append(group, info), group_size + range, max_range)
    /\ UNCHANGED <<chainVars, phase, latest_block, pools, queue, unread, tick_bitmap, ticks>>

NextPoolWords ==
    /\ phase = "bitmaps"
    /\ queue # <<>>
    /\ word_range = 0
    /\ StartBitmap(Tail(queue))
    /\ UNCHANGED <<chainVars, phase, latest_block, requests, pools, unread, group,
                   group_size, tick_bitmap, ticks>>

\* What is left in the group is sent.
FlushTo(next) ==
    /\ queue = <<>>
    /\ phase' = next
    /\ requests' = IF group = <<>> THEN requests ELSE Append(requests, group)
    /\ group' = <<>>
    /\ group_size' = 0
    /\ UNCHANGED <<chainVars, latest_block, pools, queue, min_word, word_range, unread,
                   tick_bitmap, ticks>>

FlushWords == phase = "bitmaps" /\ FlushTo("words")

SetWords(info) ==
    {w \in info.minWord..info.maxWord : \E t \in initialized[info.pool] : WordOf(t) = w}

\* The batch contract allocates one slot per word and fills two for a word
\* that is not zero: it reverts when more than half of the words are set.
Reverts(g) ==
    \E i \in DOMAIN g : 2 * Cardinality(SetWords(g[i])) > g[i].maxWord - g[i].minWord + 1

\* The words of a pool that the answer to g has.
Answered(g, p) == UNION {SetWords(info) : info \in {x \in Range(g) : x.pool = p}}

\* Only the words that are not zero are answered, and replaced: a pool keeps
\* the bits it brought in the others.
WordsAnswer(i) ==
    /\ phase = "words"
    /\ i \in DOMAIN requests
    /\ ~Reverts(requests[i])
    /\ requests' = RemoveAt(requests, i)
    /\ tick_bitmap' =
          [p \in Pools |->
              {t \in tick_bitmap[p] : WordOf(t) \notin Answered(requests[i], p)}
              \cup {t \in initialized[p] : WordOf(t) \in Answered(requests[i], p)}]
    /\ UNCHANGED <<chainVars, phase, latest_block, pools, loopVars, ticks>>

WordsRevert(i) ==
    /\ phase = "words"
    /\ i \in DOMAIN requests
    /\ Reverts(requests[i])
    /\ phase' = "reverted"
    /\ UNCHANGED <<chainVars, latest_block, requests, pools, loopVars, tick_bitmap, ticks>>

\* What is read goes to the last of several copies of a pool, which is the one
\* that is listed by hand and the only one with bits before; copies without
\* bits take no part in sync_tick_data.
LastCopies(s) ==
    LET last == {i \in DOMAIN s : \A j \in DOMAIN s : s[j] = s[i] => j <= i}
    IN  [k \in 1..Cardinality(last) |-> s[Ascending(last)[k]]]

WordsRead ==
    /\ phase = "words"
    /\ requests = <<>>
    /\ phase' = "ticks"
    /\ StartTicks(Filter(LastCopies(pools), LAMBDA p : tick_bitmap[p] # {}))
    /\ UNCHANGED <<chainVars, latest_block, requests, pools, min_word, word_range, group,
                   group_size, tick_bitmap, ticks>>

\* Variant: the drained part ends one tick too far.
GroupTicksPast ==
    /\ phase = "ticks"
    /\ queue # <<>>
    /\ unread # <<>>
    /\ LET n == Min({Len(unread), max_ticks - group_size})
           info == [pool |-> queue[1], ticks |-> SubSeq(unread, 1, n)]
       IN  /\ unread' = SubSeq(unread, n + 2, Len(unread))
           /\ SendFull(Append(group, info), group_size + n, max_ticks)
    /\ UNCHANGED <<chainVars, phase, latest_block, pools, queue, min_word, word_range,
                   tick_bitmap, ticks>>

\* sync_tick_data, an iteration of the while loop.
GroupTicks ==
    /\ phase = "ticks"
    /\ queue # <<>>
    /\ unread # <<>>
    /\ LET n == Min({Len(unread), max_ticks - group_size})
           info == [pool |-> queue[1], ticks |-> SubSeq(unread, 1, n)]
       IN  /\ unread' = SubSeq(unread, n + 1, Len(unread))
           /\ SendFull(Append(group, info), group_size + n, max_ticks)
    /\ UNCHANGED <<chainVars, phase, latest_block, pools, queue, min_word, word_range,
                   tick_bitmap, ticks>>

NextPoolTicks ==
    /\ phase = "ticks"
    /\ queue # <<>>
    /\ unread = <<>>
    /\ StartTicks(Tail(queue))
    /\ UNCHANGED <<chainVars, phase, latest_block, requests, pools, min_word, word_range,
                   group, group_size, tick_bitmap, ticks>>

FlushTicks == phase = "ticks" /\ FlushTo("data")

TicksAnswer(i) ==
    /\ phase = "data"
    /\ i \in DOMAIN requests
    /\ requests' = RemoveAt(requests, i)
    /\ ticks' =
          [p \in Pools |-> ticks[p] \cup
              UNION {Range(info.ticks) :
                        info \in {x \in Range(requests[i]) : x.pool = p}}]
    /\ UNCHANGED <<chainVars, phase, latest_block, pools, loopVars, tick_bitmap>>

TicksRead ==
    /\ phase = "data"
    /\ requests = <<>>
    /\ phase' = "done"
    /\ UNCHANGED <<chainVars, latest_block, requests, pools, loopVars, tick_bitmap, ticks>>

\* A call of the node fails.
NodeFails ==
    /\ \/ phase \in {"logs", "found"}
       \/ phase \in {"words", "data"} /\ requests # <<>>
    /\ phase' = "failed"
    /\ UNCHANGED <<chainVars, latest_block, requests, pools, loopVars, tick_bitmap, ticks>>

-----------------------------------------------------------------------------
\* discover, for all the pools of the factory; the phase is left to the caller.
Discover ==
    \/ Window
    \/ LastWindow
    \/ \E i \in DOMAIN requests : WindowLogs(i)

\* sync, for the pools the caller keeps.
Sync ==
    \/ ReadPools
    \/ GroupWords \/ NextPoolWords \/ FlushWords
    \/ \E i \in DOMAIN requests : WordsAnswer(i) \/ WordsRevert(i)
    \/ WordsRead
    \/ GroupTicks \/ NextPoolTicks \/ FlushTicks
    \/ \E i \in DOMAIN requests : TicksAnswer(i)
    \/ TicksRead

-----------------------------------------------------------------------------
(* Properties.                                                              *)

Calldata == [pool : Pools, minWord : Int, maxWord : Int] \cup [pool : Pools, ticks : Seq(Int)]

\* Types; no loop leaves the words of its pool or empties a group it has filled.
FactoryTypeOK ==
    /\ block_number \in creation_block..MaxTip
    /\ created \in [Pools -> creation_block..block_number]
    /\ \A p \in Pools : ticks[p] \subseteq tick_bitmap[p]
                        /\ tick_bitmap[p] \subseteq initialized[p] \cup brought[p]
    /\ phase \in {"windows", "logs", "bitmaps", "words", "ticks", "data", "done", "merged",
                  "built", "found", "failed", "reverted"}
    /\ latest_block \in creation_block..block_number + 1
    /\ pools \in Seq(Pools)
    /\ queue \in Seq(Pools)
    /\ queue # <<>> /\ phase = "bitmaps" => min_word \in WordsOf(queue[1]) /\ word_range \in Nat
    /\ \A i \in DOMAIN group : group[i] \in Calldata
    /\ group_size \in 0..Max({max_range, max_ticks})

\* Every pool created up to the block is found, and found once; only a pool
\* created in that very block is not when the windows before it end just
\* short of it (get_all_pools).
PoolsFound ==
    phase = "logs" /\ requests = <<>> =>
        /\ Cardinality(Range(pools)) = Len(pools)
        /\ \A p \in Pools :
              \/ p \in Range(pools)
              \/ /\ created[p] = block_number
                 /\ (block_number - creation_block) % (sync_step + 1) = 0

\* How many words at the top of a pool the cuts between requests may lose.
LostWords(p) == (MaxWord[p] - MinWord[p] + max_range - 2) \div max_range

Lost(p, t) == WordOf(t) > MaxWord[p] - LostWords(p)

\* What is known of a pool is what its contract holds, wherever the groups were
\* cut and whatever order the answers came in, but for its topmost words: one
\* is lost for every cut.  A pool that was listed by hand keeps, of the bits it
\* brought, those of lost words and of words that have become zero since; all
\* bits have the data of this block (sync_tick_bitmaps, sync_tick_data).
TicksRecovered ==
    phase = "done" =>
        \A p \in Range(pools) :
            /\ ticks[p] = tick_bitmap[p]
            /\ \A t \in initialized[p] \ ticks[p] : Lost(p, t)
            /\ \A t \in ticks[p] \ initialized[p] :
                  /\ t \in brought[p]
                  /\ Lost(p, t) \/ \A u \in initialized[p] : WordOf(u) # WordOf(t)
=============================================================================
