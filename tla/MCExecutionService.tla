------------------------- MODULE MCExecutionService ------------------------
(* Three paths through two pools that trade (and others that do not): the   *)
(* second shares a pool with each of the others.                            *)
EXTENDS ExecutionService

CONSTANTS left, both, right, a, b

MCPaths == {left, both, right}
MCPools == {a, b}
MCPoolsOf == (left :> {a}) @@ (both :> {a, b}) @@ (right :> {b})
MCInputs == {1, 2}
MCServices == {"moe", "v3", "v2"}
On(path, i) == [path |-> path, input |-> i]
MCOutcomes == {<<On(left, 2)>>, <<On(left, 1), On(both, 1), On(right, 1)>>}
MCActivity == {{a, b}}
MCUnsynced == {b}
MCDrained == {{}, {b}}
MCFailures == {"logs", "send", "watch", "hang", "disk", "stream"}
=============================================================================
