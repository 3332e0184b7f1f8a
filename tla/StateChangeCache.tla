-------------------------- MODULE StateChangeCache --------------------------
(***************************************************************************)
(* The ring buffer of undo records behind StateSpace::sync                  *)
(* (src/state_space/cache.rs).  An undo record (StateChange) holds, for     *)
(* every pool a block touched, the pool as it was before that block.  The   *)
(* deque grows at its front: index 1 is the newest record.                  *)
(*                                                                         *)
(* A pool's contents are one opaque value of AmmStates: the cache clones    *)
(* and returns whole pools and never looks inside them.                     *)
(***************************************************************************)
EXTENDS Integers, Sequences

CONSTANTS
    Pools,      \* addresses of the pools the state space tracks
    AmmStates,  \* contents a pool can have
    CAP         \* capacity of the deque (CACHE_SIZE, 30 in the code)

\* push unwraps cache.back() after popping from a full deque, so a deque of
\* one record could not be pushed to twice.
ASSUME CapAssumption == CAP \in Nat /\ CAP >= 2

\* A set of pools without two of the same address, each with its contents
\* (AMMs are equal and hash alike when their addresses are equal).
AmmSet == UNION {[D -> AmmStates] : D \in SUBSET Pools}

NoAmms == [p \in {} |-> p]

StateChange == [block_number : Nat, state_change : AmmSet]

RecordsIn(cache) == {cache[i] : i \in 1..Len(cache)}

\* Newest first, one record per block.
Ordered(cache) ==
    \A i, j \in 1..Len(cache) :
        i < j => cache[i].block_number > cache[j].block_number

(***************************************************************************)
(* push: a full deque first loses its oldest record, and oldest_block then  *)
(* names the block of the oldest record left.                               *)
(***************************************************************************)
IsFull(cache) == Len(cache) = CAP

Kept(cache) == IF IsFull(cache) THEN SubSeq(cache, 1, CAP - 1) ELSE cache

Push(cache, change) == <<change>> \o Kept(cache)

\* Variant: oldest_block names the record that was popped.
OldestIsPopped(cache, oldest) ==
    IF IsFull(cache) THEN cache[CAP].block_number ELSE oldest

OldestAfterPush(cache, oldest) ==
    IF IsFull(cache) THEN cache[CAP - 1].block_number ELSE oldest

(***************************************************************************)
(* unwind_state_changes(block): drain the records in front of the first one *)
(* older than block, or all of them when there is none.  The early return   *)
(* (empty deque, or block newer than the front record) needs no case of its *)
(* own: no record is drained then.                                          *)
(***************************************************************************)
UnwindPanics(oldest, block) == block < oldest

IsPivot(cache, block, k) ==
    /\ k \in 0..Len(cache)
    /\ \A i \in 1..k : cache[i].block_number >= block
    /\ k < Len(cache) => cache[k + 1].block_number < block

DrainCount(cache, block) ==
    CHOOSE k \in 0..Len(cache) : IsPivot(cache, block, k)

Unwind(cache, block) ==
    SubSeq(cache, DrainCount(cache, block) + 1, Len(cache))

(***************************************************************************)
(* flatten_state_changes: the drained records folded from the oldest to the *)
(* newest with entry().or_insert, so the oldest record of a pool wins.      *)
(***************************************************************************)
RecordsOf(cache, block, p) ==
    {i \in 1..DrainCount(cache, block) : p \in DOMAIN cache[i].state_change}

\* Variant: a fold without rev().
NewestRecordOf(cache, block, p) ==
    CHOOSE i \in RecordsOf(cache, block, p) :
        \A j \in RecordsOf(cache, block, p) : j >= i

OldestRecordOf(cache, block, p) ==
    CHOOSE i \in RecordsOf(cache, block, p) :
        \A j \in RecordsOf(cache, block, p) : j <= i

UnwoundAmms(cache, block) ==
    [p \in {q \in Pools : RecordsOf(cache, block, q) # {}} |->
        cache[OldestRecordOf(cache, block, p)].state_change[p]]
=============================================================================
