----------------------------- MODULE PathFinder -----------------------------
(***************************************************************************)
(* The search for paths of swaps: build_graph (src/arbitrage/graph.rs) and  *)
(* PathFinder::find_cycles and find_two_pool_misprices                      *)
(* (src/arbitrage/pathfinder.rs).  One step takes one entry off the queue   *)
(* of the breadth-first search, or one node of the pair search.             *)
(*                                                                         *)
(* The pools are numbered in the order the hash map of the state space      *)
(* yields them.  That order is arbitrary, and so is what each pool trades:  *)
(* every pool can be anywhere in the graph.                                 *)
(***************************************************************************)
EXTENDS Integers, Sequences, FiniteSets, SequencesExt, Filtering

CONSTANTS
    Tokens,
    NumPools,   \* pools in the state space
    NoToken,    \* no token required
    max_length  \* PathConstraints.max_length

ASSUME FinderAssumption ==
    /\ NumPools \in Nat
    /\ NoToken \notin Tokens
    /\ max_length \in Nat

VARIABLES
    pools,      \* the tokens of each pool, or Unsupported
    constraints,
    edges,      \* PoolGraph: edges in the order they were added
    nodes,      \* PoolGraph: tokens in the order they were added
    stage,
    next_node,  \* node_indices() of the loop in progress
    start,      \* find_cycles: the token a search starts at
    queue,      \* find_cycles: (node, path, tokens_seen), front first
    cycles,     \* find_cycles: what is found, in that order
    misprices   \* find_two_pool_misprices: what is found

graph == <<edges, nodes>>
finderVars == <<pools, constraints, graph, stage, next_node, start, queue, cycles, misprices>>

\* extract_pool fails on a token without decimals.
Unsupported == <<>>

Pairs == {ab \in Tokens \X Tokens : ab[1] # ab[2]}

Constraints == [allow_self_cycle : BOOLEAN,
                required_start_token : Tokens \cup {NoToken},
                required_end_token : Tokens \cup {NoToken}]

Edge == [pool : 1..NumPools, token_in : Tokens, token_out : Tokens]

FinderInit ==
    /\ pools \in [1..NumPools -> Pairs \cup {Unsupported}]
    /\ constraints \in Constraints
    /\ edges = <<>>
    /\ nodes = <<>>
    /\ stage = "graph"
    /\ next_node = 1
    /\ start = NoToken
    /\ queue = <<>>
    /\ cycles = <<>>
    /\ misprices = {}

-----------------------------------------------------------------------------
(* build_graph.                                                             *)

\* into_edges
EdgesOf(p) ==
    IF pools[p] = Unsupported THEN <<>>
    ELSE LET a == pools[p][1]
             b == pools[p][2]
         IN  <<[pool |-> p, token_in |-> a, token_out |-> b],
               [pool |-> p, token_in |-> b, token_out |-> a]>>

AddNode(known, token) == IF Contains(known, token) THEN known ELSE Append(known, token)

\* The node of a token is added with the first edge from it.
NodesOf(es) ==
    LET known[n \in 0..Len(es)] ==
            IF n = 0 THEN <<>> ELSE AddNode(known[n - 1], es[n].token_in)
    IN  known[Len(es)]

BuildGraph ==
    /\ stage = "graph"
    /\ stage' = "cycles"
    /\ edges' = FlattenSeq([p \in 1..NumPools |-> EdgesOf(p)])
    /\ nodes' = NodesOf(edges')
    /\ UNCHANGED <<pools, constraints, next_node, start, queue, cycles, misprices>>

\* petgraph walks the edges of a node from the last one added to the first.
EdgesFrom(token) == Reverse(Filter(edges, LAMBDA e : e.token_in = token))

\* Graph::find_edge: of parallel edges, the last one added.
FindEdge(a, b) == Filter(EdgesFrom(a), LAMBDA e : e.token_out = b)[1]

-----------------------------------------------------------------------------
(* find_cycles.                                                             *)

\* path_matches_constraints
Matches(path) ==
    /\ constraints.required_start_token \in {NoToken, path[1].token_in}
    /\ constraints.required_end_token \in {NoToken, path[Len(path)].token_out}

StartSearch ==
    /\ stage = "cycles"
    /\ queue = <<>>
    /\ next_node <= Len(nodes)
    /\ next_node' = next_node + 1
    /\ LET token == nodes[next_node]
       IN  IF constraints.required_start_token \in {NoToken, token}
           THEN /\ start' = token
                /\ queue' = <<[node |-> token, path |-> <<>>, tokens_seen |-> {token}]>>
           ELSE UNCHANGED <<start, queue>>
    /\ UNCHANGED <<pools, constraints, graph, stage, cycles, misprices>>

TooLong(path) == Len(path) >= max_length

\* Variant: a token seen before is entered again.
MayEnterAny(entry, token) == TRUE

\* A token that closes the path, or may be entered on the way.
MayEnter(entry, token) ==
    constraints.allow_self_cycle \/ token \notin entry.tokens_seen \/ token = start

Enqueue(rest, new) == rest \o new

Visit ==
    /\ stage = "cycles"
    /\ queue # <<>>
    /\ LET entry == Head(queue)
           out == IF TooLong(entry.path) THEN <<>>
                  ELSE Filter(EdgesFrom(entry.node),
                                 LAMBDA e : MayEnter(entry, e.token_out))
           paths == [i \in DOMAIN out |-> Append(entry.path, out[i])]
           closed == Filter(paths, LAMBDA path : Last(path).token_out = start)
           open == Filter(paths, LAMBDA path : Last(path).token_out # start)
       IN  /\ cycles' = cycles \o Filter(closed, Matches)
           /\ queue' = Enqueue(Tail(queue),
                  [i \in DOMAIN open |->
                      [node |-> Last(open[i]).token_out,
                       path |-> open[i],
                       tokens_seen |-> entry.tokens_seen \cup {Last(open[i]).token_out}]])
    /\ UNCHANGED <<pools, constraints, graph, stage, next_node, start, misprices>>

\* unique_by finds nothing to drop: CyclesExact.
CyclesDone ==
    /\ stage = "cycles"
    /\ queue = <<>>
    /\ next_node > Len(nodes)
    /\ stage' = "misprices"
    /\ next_node' = 1
    /\ UNCHANGED <<pools, constraints, graph, start, queue, cycles, misprices>>

-----------------------------------------------------------------------------
(* find_two_pool_misprices.                                                 *)

\* Every pool has an edge each way, so the incoming neighbours are these too.
Neighbors(token) == {e.token_out : e \in ToSet(EdgesFrom(token))}

\* Variant: back to where the first hop came from.
PairsReturning(token) ==
    {<<FindEdge(n, token), FindEdge(token, n)>> : n \in Neighbors(token)}

PairsThrough(token) ==
    {<<FindEdge(ab[1], token), FindEdge(token, ab[2])>> :
        ab \in {nn \in Neighbors(token) \X Neighbors(token) : nn[1] # nn[2]}}

VisitPairs ==
    /\ stage = "misprices"
    /\ next_node <= Len(nodes)
    /\ next_node' = next_node + 1
    /\ misprices' = misprices \cup {path \in PairsThrough(nodes[next_node]) : Matches(path)}
    /\ UNCHANGED <<pools, constraints, graph, stage, start, queue, cycles>>

MispricesDone ==
    /\ stage = "misprices"
    /\ next_node > Len(nodes)
    /\ stage' = "done"
    /\ UNCHANGED <<pools, constraints, graph, next_node, start, queue, cycles, misprices>>

FinderNext ==
    \/ BuildGraph
    \/ StartSearch
    \/ Visit
    \/ CyclesDone
    \/ VisitPairs
    \/ MispricesDone

FinderSpec == FinderInit /\ [][FinderNext]_finderVars

-----------------------------------------------------------------------------
(* Properties.                                                              *)

\* Types; no path in the queue is longer than allowed.
FinderTypeOK ==
    /\ pools \in [1..NumPools -> Pairs \cup {Unsupported}]
    /\ constraints \in Constraints
    /\ edges \in Seq(Edge)
    /\ nodes \in Seq(Tokens)
    /\ stage \in {"graph", "cycles", "misprices", "done"}
    /\ next_node \in 1..Len(nodes) + 1
    /\ start \in Tokens \cup {NoToken}
    /\ \A i \in DOMAIN queue :
          /\ queue[i].node \in Tokens
          /\ queue[i].path \in Seq(Edge) /\ Len(queue[i].path) <= max_length
          /\ queue[i].tokens_seen \subseteq Tokens
    /\ cycles \in Seq(Seq(Edge))
    /\ \A path \in misprices : path \in Edge \X Edge

\* The swaps the pools offer.
PoolSwaps == {e \in Edge : pools[e.pool] # Unsupported
                       /\ {e.token_in, e.token_out} = ToSet(pools[e.pool])}

Joined(path) == \A i \in 1..Len(path) - 1 : path[i].token_out = path[i + 1].token_in

\* What a search for cycles should find: a chain of swaps back to its first
\* token, which it meets only there, and through no token twice unless asked.
IsCycle(path) ==
    /\ Joined(path)
    /\ path[Len(path)].token_out = path[1].token_in
    /\ \A i \in 2..Len(path) : path[i].token_in # path[1].token_in
    /\ ~constraints.allow_self_cycle =>
          \A i, j \in 1..Len(path) : path[i].token_in = path[j].token_in => i = j

\* find_cycles finds every cycle of at most max_length hops that meets the
\* constraints, from each of its tokens, over every choice of parallel pools,
\* nothing else, and nothing twice.
CyclesExact ==
    stage = "misprices" /\ next_node = 1 =>
        /\ ToSet(cycles) =
              {path \in UNION {[1..n -> PoolSwaps] : n \in 1..max_length} :
                  IsCycle(path) /\ Matches(path)}
        /\ Cardinality(ToSet(cycles)) = Len(cycles)

\* find_two_pool_misprices gives one path for every three tokens joined by
\* pools, and of parallel pools considers one only.
OnePathPerTriple ==
    stage = "done" =>
        LET ends == {<<path[1].token_in, path[1].token_out, path[2].token_out>> : path \in misprices}
        IN  /\ \A path \in misprices : Joined(path) /\ ToSet(path) \subseteq PoolSwaps
            /\ Cardinality(misprices) = Cardinality(ends)
            /\ ends = {t \in Tokens \X Tokens \X Tokens :
                          /\ Cardinality(ToSet(t)) = 3
                          /\ \E e, f \in PoolSwaps : /\ <<e.token_in, e.token_out>> = <<t[1], t[2]>>
                                                 /\ <<f.token_in, f.token_out>> = <<t[2], t[3]>>
                                                 /\ Matches(<<e, f>>)}

\* What tech-docs/General/Arbitrage-Module.md:472-474 says of
\* find_two_pool_misprices: a path goes from A over B and C back to A.  None of
\* those it finds returns to its first token.
MispricesReturn ==
    stage = "done" =>
        \A path \in misprices : path[Len(path)].token_out = path[1].token_in
=============================================================================
