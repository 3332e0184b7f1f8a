--------------------------- MODULE MCMonitorLoop --------------------------
(* Three paths of at most two pools: the best of them shares one pool with  *)
(* each of the others, or they form a triangle.                             *)
EXTENDS MonitorLoop

CONSTANTS a, b, c, wide, left, right

MCPools == {a, b, c}
MCPaths == {wide, left, right}
MCPoolMaps == {(wide :> {a, b}) @@ (left :> {a}) @@ (right :> {b}),
               (wide :> {a, b}) @@ (left :> {b, c}) @@ (right :> {a, c})}
MCProfits == {3, 4, 7}
MCGains == {<<>>, wide :> 3, (wide :> 7) @@ (left :> 4) @@ (right :> 4),
            (wide :> 4) @@ (left :> 4), (wide :> 4) @@ (left :> 3) @@ (right :> 3),
            (left :> 7) @@ (right :> 3)}
MCPrograms == {"v2", "v3", "moe", "test"}
MCPairs == {a}
MCActivity == {{a}, {b, c}}
MCUnsynced == {b}
MCDrained == {{}, {a}}
MCFailures == {"logs", "slot", "bins", "disk"}
=============================================================================
