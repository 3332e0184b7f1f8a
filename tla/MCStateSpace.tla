---------------------------- MODULE MCStateSpace ----------------------------
(* StateSpace on two pools with two contents each.                          *)
EXTENDS StateSpace, TLC

CONSTANTS p1, p2, s1, s2

MCPools == {p1, p2}
MCAmmStates == {s1, s2}
Symmetry == Permutations(MCPools) \cup Permutations(MCAmmStates)

\* Once a reorg took a form sync does not roll back every property but the
\* types is void: the stale state itself is checked, its successors are not
\* explored.
NotStale == ~stale
=============================================================================
