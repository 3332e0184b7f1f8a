----------------------------- MODULE BlockFeed -----------------------------
(***************************************************************************)
(* What the programs under examples/protocols share: block heads from a     *)
(* subscription that drops the oldest when its buffer is full, and copies   *)
(* of pools that are changed by the logs of single blocks.                  *)
(*                                                                         *)
(* A copy has parts, and each part is how often it shows the logs of each   *)
(* block: the slot (price, reserves, active bin), the bins that a reading   *)
(* of a Moe pool tells, and the rest.  A reading tells the bins that are    *)
(* not empty within a radius of the active one and removes none: the rest   *)
(* are bins that no reading since the start has told, out of the radius or  *)
(* emptied.  In other pools bins and rest are the ticks.                    *)
(***************************************************************************)
EXTENDS Naturals, Sequences

CONSTANTS
    Pools,
    HEADS,      \* heads the subscription buffers before it drops some
    Activity,   \* the sets of pools that may have logs in a block
    MaxBlocks   \* bound on the blocks mined

VARIABLES
    blocks,     \* the pools with logs in each block
    heads       \* numbers announced and not taken

feedVars == <<blocks, heads>>

Parts == {"slot", "bins", "rest"}

\* What an exact copy of pool p shows at block n: the logs up to n, each once.
ContentAt(p, n) ==
    [k \in 1..MaxBlocks |-> IF k \in 1..n /\ p \in blocks[k] THEN 1 ELSE 0]

ExactAt(p, n) == [part \in Parts |-> ContentAt(p, n)]

\* The pool is read at block n when a program starts; a Moe program goes on
\* without bins when those cannot be read.
Nothing == [k \in 1..MaxBlocks |-> 0]

FirstRead(p, n, read) ==
    [part \in Parts |-> IF part = "slot" \/ "bins" \in read THEN ContentAt(p, n) ELSE Nothing]

\* A head is announced to the subscription; a full buffer loses the oldest.
Announced(subscribed, n) ==
    IF subscribed
    THEN Append(IF Len(heads) < HEADS THEN heads ELSE Tail(heads), n)
    ELSE heads

MineBlock(S, subscribed) ==
    /\ Len(blocks) < MaxBlocks
    /\ blocks' = Append(blocks, S)
    /\ heads' = Announced(subscribed, Len(blocks) + 1)

\* Moe and Agni logs of block n change what the copy was ...
Again(shown, n) == [shown EXCEPT ![n] = @ + 1]

Appended(copy, n) == [part \in Parts |-> Again(copy[part], n)]

\* ... a Sync log of a pair tells both reserves ...
Told(p, n) == ExactAt(p, n)

\* ... and the Moe programs read slots and bins again at block n, each of which
\* may fail.  A failure of the slots is only reported; after one of the bins all
\* is left as the logs made it, and so is the rest in any case.
ReadParts(read) == IF "bins" \in read THEN read ELSE {}

\* Variant: they are read at the latest block.
ReadLatest(p, copy, n, read) ==
    [part \in Parts |-> IF part \in ReadParts(read)
                        THEN ContentAt(p, Len(blocks))
                        ELSE Again(copy[part], n)]

ReadAgain(p, copy, n, read) ==
    [part \in Parts |-> IF part \in ReadParts(read)
                        THEN ContentAt(p, n)
                        ELSE Again(copy[part], n)]
=============================================================================
