------------------------ MODULE MCStateSpaceManager ------------------------
(* ArbitrageMonitor with two pools and a scan, and its StateSpaceManager    *)
(* with readers that come and go.                                           *)
EXTENDS ArbitrageMonitor, TLC

CONSTANTS p1, p2, scan1, consumer

MCPools == {p1, p2}
MCScans == {scan1}
MCReaders == {scan1, consumer}
Symmetry == Permutations(MCPools)
MCBlocks == {0, 4}
AllFailures == {"subscribe_blocks", "get_logs", "sync"}
=============================================================================
