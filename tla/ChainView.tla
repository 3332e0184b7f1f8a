----------------------------- MODULE ChainView -----------------------------
(***************************************************************************)
(* What StateSpaceManager::subscribe (src/state_space/mod.rs) promises to   *)
(* those who read the shared state space: the pools are those of one block  *)
(* of the chain, and the block advances by exactly one at a time, so that   *)
(* no block's logs are left out, applied twice or seen half applied.  The   *)
(* promise ends when a block was missed, replaced or failed to apply; from  *)
(* then on anything may be shown.  The number readers load beside the pools *)
(* is never ahead of them and at most one block behind, once the first      *)
(* block has been told; before, it is any number at all.                    *)
(*                                                                         *)
(* The contents of a pool are the sequence of the blocks whose logs were    *)
(* applied to it, the finest thing amm.sync can compute from.               *)
(***************************************************************************)
EXTENDS Integers, Sequences

CONSTANT Pools

VARIABLES
    chain,   \* the blocks after the one the pools were first read at
    shown,   \* the pools as readers see them
    height,  \* the block they are of
    number,  \* the block readers are told they are of
    lost     \* the promise has ended

\* The pools after the first h blocks of c.
ViewAt(c, h) ==
    [p \in Pools |->
        LET view[n \in 0..h] ==
                IF n = 0 THEN <<>>
                ELSE IF p \in c[n].pools THEN Append(view[n - 1], c[n].hash)
                ELSE view[n - 1]
        IN  view[h]]

Init ==
    /\ height = 0
    /\ number \in Int
    /\ shown = ViewAt(chain, 0)
    /\ lost = FALSE

Extend ==
    /\ Len(chain') = Len(chain) + 1
    /\ SubSeq(chain', 1, Len(chain)) = chain
    /\ UNCHANGED <<shown, height, number, lost>>

Advance ==
    /\ height < Len(chain)
    /\ height > 0 => number = height
    /\ height' = height + 1
    /\ shown' = ViewAt(chain, height')
    /\ UNCHANGED <<chain, number, lost>>

Tell ==
    /\ height > 0
    /\ number' = height
    /\ UNCHANGED <<chain, shown, height, lost>>

Lose == lost'

Next ==
    \/ ~lost /\ Extend
    \/ ~lost /\ Advance
    \/ ~lost /\ Tell
    \/ Lose

Spec == Init /\ [][Next]_<<chain, shown, height, number, lost>>
=============================================================================
