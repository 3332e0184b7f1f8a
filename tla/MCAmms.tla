------------------------------- MODULE MCAmms -------------------------------
(* The copies of pools that PoolProofs is about, each kind tried while the  *)
(* other stays as it starts: UniswapV3Pool and AgniPool with a few ticks,   *)
(* and words of two bits, so that a swap crosses several ticks and several  *)
(* words; and a MoeLbPair of four bins, of which readings reach one below   *)
(* the active bin and two above it.                                         *)
EXTENDS AgniPool, MoeLbPair

LowTick == -4

\* A basic copy is read when the contract has a few overlapping positions.
MCGenesis ==
    {[r \in Ranges |-> IF r \in minted THEN 1 ELSE 0] :
        minted \in {{<<-4, 4>>, <<-2, 0>>}, {<<-2, 2>>, <<0, 4>>, <<-2, 4>>}}}

MCIds == 0..3
MCFees == {0, 1}
MCPrice == [id \in MCIds |-> IF id = 0 THEN 2 ELSE 3]
MCGenesisPair ==
    [active_id |-> 1, fee |-> 0,
     bins |-> [id \in MCIds |-> CASE id = 0 -> [x |-> 0, y |-> 5]
                                  [] id = 1 -> [x |-> 1, y |-> 5]
                                  [] id = 2 -> [x |-> 1, y |-> 0]
                                  [] OTHER -> Empty]]

VARIABLE part  \* what is tried

\* A state of each kind to stay in.
TicksRest == kind = "uniswap" /\ sqrt_price = Lowest /\ tick = MinTick /\ PoolsInit
BinsRest == MoeInit /\ DOMAIN pair.bins = {}

MCInit ==
    \/ part = "ticks" /\ PoolsInit /\ BinsRest
    \/ part = "bins" /\ TicksRest /\ MoeInit

MCNext ==
    \/ part = "ticks" /\ PoolsNext /\ UNCHANGED <<moeVars, part>>
    \/ part = "bins" /\ MoeNext /\ UNCHANGED <<agniVars, part>>

MCSpec == MCInit /\ [][MCNext]_<<agniVars, moeVars, part>>
=============================================================================
