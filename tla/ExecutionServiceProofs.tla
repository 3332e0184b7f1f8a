----------------------- MODULE ExecutionServiceProofs -----------------------
(***************************************************************************)
(* Proofs about ExecutionService, for any services, pools, paths, chain and *)
(* capacities: selections share no pool, cooldowns and appearance limits    *)
(* hold whatever waits in the queue, failures on disk survive crashes, and  *)
(* copies show no block twice.                                              *)
(***************************************************************************)
EXTENDS ExecutionService, SequenceTheorems, FiniteSetTheorems, CommonFacts, TLAPS

-----------------------------------------------------------------------------
(* The inductive invariant.                                                 *)

Jobs == [path : Paths, input : Inputs, block : Nat \ {0}]

Dispatching == pc \in {"dispatch", "send", "trade", "trading"}

\* What the loop knows of the chain is past, and every head it will take is of
\* a later block than the one at hand.
FeedInv ==
    /\ blocks \in Seq(SUBSET Pools)
    /\ heads \in Seq(Nat)
    /\ target \in Nat /\ target < Len(blocks)
    /\ \A i \in 1..Len(heads) : target + 1 < heads[i] /\ heads[i] <= Len(blocks)
    /\ \A i, j \in 1..Len(heads) : i < j => heads[i] < heads[j]
    /\ pc = "price" \/ Dispatching => target > 0

\* A path is counted once a block: in the block to be priced none is yet.
CountsInv ==
    /\ appearances \in [Paths -> [block : Nat, count : Nat]]
    /\ \A p \in Paths : /\ appearances[p].block <= target
                        /\ pc = "price" => appearances[p].block < target

\* A selection is at hand while it is dispatched and at no other time.
ChoiceInv ==
    /\ found \in Seq(Opportunities)
    /\ selected = SelectFrom(found, PoolsIn)
    /\ next \in Nat \ {0}
    /\ IF Dispatching THEN next <= Len(selected) ELSE found = <<>> /\ next = 1

\* What is queued and worked on; none of it without the service.
WorkInv ==
    /\ queue \in Seq(Jobs)
    /\ wpc # "idle" => job \in Jobs
    /\ wpc # "idle" \/ queue # <<>> => Running

\* The worker waits out the cooldown before it takes a job, and last_executions
\* is the last that was confirmed.
CoolInv ==
    /\ last_executions \in [Paths -> Nat]
    /\ wpc = "attempt" =>
          LET last == last_executions[job.path]
          IN  last = 0 \/ last + COOLDOWN <= job.block
    /\ \A c \in confirmed : /\ c.path \in Paths
                            /\ c.block \in Nat \ {0}
                            /\ c.block <= last_executions[c.path]

\* The jobs of path p in queue q, and the candidates that may still become one.
JobsFor(q, p) == {i \in 1..Len(q) : q[i].path = p}

Open == {i \in 1..Len(selected) : next < i \/ (next = i /\ pc # "trading")}

OpenFor(p) == IF \E i \in Open : selected[i].path = p THEN 1 ELSE 0

\* Every attempt, job and open candidate of a path is an appearance of its own.
Tally(p) == attempts[p] + Cardinality(JobsFor(queue, p)) + OpenFor(p)

AttemptsInv ==
    /\ attempts \in [Paths -> Nat]
    /\ \A p \in Paths : Tally(p) <= appearances[p].count /\ Tally(p) <= MAX_APPEARANCES

\* The file is torn or has every failure, and so has a service that is up.
StoreInv ==
    /\ file = Torn \/ failures \subseteq file
    /\ wpc = "write" => Opportunity \in failed
    /\ FailuresSurvive

\* How often a copy of p shows block k.
CountedIn(shown, p, k) ==
    /\ shown[k] <= IF k = latest_block THEN 2 ELSE 1
    /\ shown[k] > 0 => p \in blocks[k] /\ k <= Len(blocks) /\ (k <= latest_block \/ k <= target)

\* The pools that changed are what was read or told of the block to be priced.
ReadInv ==
    /\ changed \subseteq Pools
    /\ pc = "price" /\ service \in {"moe", "v2"} =>
          \A p \in changed \ unread, part \in {"slot", "bins"} :
              pools[p][part] = ContentAt(p, target)

\* The heads to come are later than the block the pools were read at, and until
\* one is taken nothing is shown twice.
CopiesInv ==
    /\ latest_block \in 1..Len(blocks)
    /\ \A i \in 1..Len(heads) : latest_block < heads[i]
    /\ target = 0 \/ latest_block <= target
    /\ \A p \in Pools, part \in Parts : pools[p][part] \in [1..MaxBlocks -> Nat]
    /\ \A p \in Pools, part \in Parts, k \in 1..MaxBlocks :
          /\ CountedIn(pools[p][part], p, k)
          /\ target = 0 => pools[p][part][k] <= 1
    /\ ReadInv

IInv ==
    /\ FeedInv
    /\ CountsInv
    /\ ChoiceInv
    /\ WorkInv
    /\ CoolInv
    /\ CooldownKept
    /\ AttemptsInv
    /\ StoreInv
    /\ CopiesInv

-----------------------------------------------------------------------------
(* What the loops over candidates compute.                                  *)

\* filter_and_update lets candidates through that have not been seen too often.
LEMMA FilterAndUpdateIs ==
    ASSUME NEW ranking, ranking \in Seq(Opportunities)
    PROVE  LET s == FilterAndUpdate(ranking)
           IN  /\ s \in Seq(Opportunities)
               /\ \A j \in 1..Len(s) : /\ Counted(s[j].path).count <= MAX_APPEARANCES
                                       /\ \E k \in 1..Len(ranking) : s[j] = ranking[k]
<1> DEFINE N == Len(ranking)
           C == Opportunities
           Passes(c) == Counted(c.path).count <= MAX_APPEARANCES
           Is(f) == f = [n \in 0..N |->
                            IF n = 0 THEN <<>>
                            ELSE IF Passes(ranking[n])
                                 THEN Append(f[n - 1], ranking[n])
                                 ELSE f[n - 1]]
           Take == [x \in Seq(C) \X (1..N) |->
                       IF Passes(ranking[x[2]]) THEN Append(x[1], ranking[x[2]]) ELSE x[1]]
           g == CHOOSE f : Is(f)
<1>1. Take \in [Seq(C) \X (1..N) -> Seq(C)]
  <2>1. ranking \in Seq(C)
    OBVIOUS
  <2> HIDE DEF Passes, C
  <2>2. QED BY <2>1
<1>2. N \in Nat /\ <<>> \in Seq(C)
  OBVIOUS
<1>3. PICK f : Computes(f, Seq(C), <<>>, N, Take)
  <2> HIDE DEF N, Take, Is, C
  <2>1. QED BY <1>1, <1>2, FoldExists
<1> HIDE DEF C
<1>4. Is(f)
  <2> HIDE DEF Passes
  <2>1. \A n \in 1..N : f[n - 1] \in Seq(C)
    BY <1>2, <1>3 DEF Computes
  <2>2. \A n \in 0..N : n = 0 \/ n \in 1..N
    BY <1>2
  <2>3. \A n \in 0..N :
            f[n] = IF n = 0 THEN <<>>
                   ELSE IF Passes(ranking[n])
                        THEN Append(f[n - 1], ranking[n])
                        ELSE f[n - 1]
    BY <1>3, <2>1, <2>2 DEF Computes
  <2>4. QED BY <1>3, <2>3 DEF Computes
<1>5. Is(g)
  BY <1>4, Zenon
<1>6. FilterAndUpdate(ranking) = g[N]
  BY DEF FilterAndUpdate
<1> HIDE DEF g, Take, N, Passes
<1>7. g[0] = <<>>
  BY <1>2, <1>5
<1>8. ASSUME NEW n \in 1..N
      PROVE  g[n] = IF Passes(ranking[n]) THEN Append(g[n - 1], ranking[n]) ELSE g[n - 1]
  <2>1. n \in 0..N /\ n # 0
    BY <1>2
  <2>2. QED BY <1>5, <2>1, Zenon
<1> DEFINE Good(s) == /\ s \in Seq(C)
                      /\ \A j \in 1..Len(s) : /\ Passes(s[j])
                                              /\ \E k \in 1..N : s[j] = ranking[k]
           S == {n \in 0..N : Good(g[n])}
<1>9. 0 \in S
  <2>1. g[0] \in Seq(C) /\ Len(g[0]) = 0
    BY <1>7
  <2>2. Good(g[0])
    BY <2>1
  <2> HIDE DEF Good
  <2>3. QED BY <1>2, <2>2
<1>10. ASSUME NEW n \in 0..N - 1, n \in S
       PROVE  n + 1 \in S
  <2>1. n + 1 \in 1..N /\ n + 1 \in 0..N /\ (n + 1) - 1 = n
    BY <1>2
  <2>2. g[n + 1] = IF Passes(ranking[n + 1]) THEN Append(g[n], ranking[n + 1]) ELSE g[n]
    BY <1>8, <2>1
  <2>3. Good(g[n])
    BY <1>10
  <2>4. ranking[n + 1] \in C
    BY <2>1 DEF N, C
  <2>5. CASE Passes(ranking[n + 1])
    <3> DEFINE t == Append(g[n], ranking[n + 1])
    <3>1. /\ t \in Seq(C) /\ Len(t) = Len(g[n]) + 1 /\ Len(g[n]) \in Nat
          /\ t[Len(g[n]) + 1] = ranking[n + 1]
          /\ \A j \in 1..Len(g[n]) : t[j] = g[n][j]
      BY <2>3, <2>4
    <3> HIDE DEF t
    <3>2. \A j \in 1..Len(t) : j \in 1..Len(g[n]) \/ j = Len(g[n]) + 1
      BY <3>1
    <3>3. Good(t)
      BY <2>1, <2>3, <2>5, <3>1, <3>2
    <3>4. QED BY <2>1, <2>2, <2>5, <3>3 DEF t
  <2>6. CASE ~Passes(ranking[n + 1])
    BY <2>1, <2>2, <2>3, <2>6
  <2>7. QED BY <2>5, <2>6
<1>11. N \in S
  <2>1. \A n \in 0..N : n \in S
    <3> HIDE DEF S
    <3>1. QED BY <1>2, <1>9, <1>10, UpTo
  <2>2. QED BY <1>2, <2>1
<1>12. Good(FilterAndUpdate(ranking))
  BY <1>6, <1>11
<1>13. QED BY <1>12 DEF C, N, Passes

-----------------------------------------------------------------------------
(* Heads and blocks.                                                        *)

LEMMA ConstantsAre ==
    /\ HEADS \in Nat \ {0} /\ MAX_APPEARANCES \in Nat \ {0} /\ COOLDOWN \in Nat \ {0}
    /\ Activity \subseteq SUBSET Pools
    /\ PoolsOf \in [Paths -> SUBSET Pools]
    /\ \A p \in Paths : PoolsOf[p] # {}
    /\ Outcomes \subseteq Seq(Opportunities)
BY ServiceAssumption DEF Opportunities

LEMMA AnnouncedIs ==
    ASSUME NEW on \in BOOLEAN, NEW n
    PROVE  /\ ~on => Announced(on, n) = heads
           /\ on /\ Len(heads) < HEADS => Announced(on, n) = Append(heads, n)
           /\ on /\ ~(Len(heads) < HEADS) => Announced(on, n) = Append(Tail(heads), n)
BY DEF Announced

\* A head that is announced is of a later block than all others.
LEMMA MineFeed ==
    ASSUME FeedInv, NEW S \in Activity, Mine(S)
    PROVE  FeedInv'
<1> DEFINE n == Len(blocks) + 1
<1>1. /\ blocks' = Append(blocks, S) /\ S \in SUBSET Pools
      /\ heads' = Announced(Subscribed, n)
      /\ target' = target /\ pc' = pc
  BY ConstantsAre DEF Mine, MineBlock, poolVars
<1>2. /\ blocks' \in Seq(SUBSET Pools) /\ Len(blocks') = n /\ n \in Nat
      /\ Len(blocks) \in Nat
  BY <1>1 DEF FeedInv
<1>3. /\ heads' \in Seq(Nat)
      /\ \A i \in 1..Len(heads') : target + 1 < heads'[i] /\ heads'[i] <= n
      /\ \A i, j \in 1..Len(heads') : i < j => heads'[i] < heads'[j]
  <2>1. /\ \A i \in 1..Len(heads) : target + 1 < heads[i] /\ heads[i] <= Len(blocks)
        /\ \A i, j \in 1..Len(heads) : i < j => heads[i] < heads[j]
        /\ target \in Nat /\ target < Len(blocks) /\ heads \in Seq(Nat) /\ Len(heads) \in Nat
    BY DEF FeedInv
  <2>0. Subscribed \in BOOLEAN
    BY DEF Subscribed, Running
  <2>2. CASE ~Subscribed
    BY <1>1, <1>2, <2>1, <2>2, <2>0, AnnouncedIs
  <2>3. ASSUME NEW h \in Seq(Nat), heads' = Append(h, n),
               \A i \in 1..Len(h) : target + 1 < h[i] /\ h[i] <= Len(blocks),
               \A i, j \in 1..Len(h) : i < j => h[i] < h[j]
        PROVE  /\ heads' \in Seq(Nat)
               /\ \A i \in 1..Len(heads') : target + 1 < heads'[i] /\ heads'[i] <= n
               /\ \A i, j \in 1..Len(heads') : i < j => heads'[i] < heads'[j]
    <3>1. /\ Len(heads') = Len(h) + 1 /\ Len(h) \in Nat /\ heads'[Len(h) + 1] = n
          /\ \A i \in 1..Len(h) : heads'[i] = h[i]
          /\ heads' \in Seq(Nat)
      BY <1>2, <2>3
    <3>2. \A i \in 1..Len(heads') : i \in 1..Len(h) \/ i = Len(h) + 1
      BY <3>1
    <3>3. \A i \in 1..Len(h) : h[i] \in Nat
      OBVIOUS
    <3>4. QED BY <1>2, <2>1, <2>3, <3>1, <3>2, <3>3
  <2>4. CASE Subscribed /\ Len(heads) < HEADS
    BY <1>1, <2>0, <2>1, <2>3, <2>4, AnnouncedIs
  <2>5. CASE Subscribed /\ ~(Len(heads) < HEADS)
    <3>1. heads # <<>>
      BY <2>1, <2>5, ConstantsAre
    <3>2. /\ Tail(heads) \in Seq(Nat) /\ Len(Tail(heads)) = Len(heads) - 1
          /\ \A i \in 1..Len(Tail(heads)) : Tail(heads)[i] = heads[i + 1]
      BY <2>1, <3>1
    <3>3. \A i \in 1..Len(Tail(heads)) : i + 1 \in 1..Len(heads)
      BY <2>1, <3>2
    <3>4. heads' = Append(Tail(heads), n)
      BY <1>1, <2>0, <2>5, AnnouncedIs
    <3>5. /\ \A i \in 1..Len(Tail(heads)) :
                target + 1 < Tail(heads)[i] /\ Tail(heads)[i] <= Len(blocks)
          /\ \A i, j \in 1..Len(Tail(heads)) : i < j => Tail(heads)[i] < Tail(heads)[j]
      <4>1. \A i, j \in 1..Len(Tail(heads)) : i < j => i + 1 < j + 1
        BY <2>1, <3>2
      <4>2. QED BY <2>1, <3>2, <3>3, <4>1
    <3> HIDE DEF n
    <3>6. QED BY <2>3, <3>2, <3>4, <3>5
  <2>6. QED BY <2>2, <2>4, <2>5
<1>4. QED BY <1>1, <1>2, <1>3 DEF FeedInv, Dispatching

LEMMA HeadFeed ==
    ASSUME FeedInv, heads # <<>>, target' = Head(heads) - 1, heads' = Tail(heads),
           blocks' = blocks
    PROVE  FeedInv' /\ target' > target /\ target' \in 1..Len(blocks)
<1>1. /\ heads \in Seq(Nat) /\ Len(heads) \in Nat /\ Len(heads) > 0
      /\ Head(heads) = heads[1]
      /\ Tail(heads) \in Seq(Nat) /\ Len(Tail(heads)) = Len(heads) - 1
      /\ \A i \in 1..Len(Tail(heads)) : Tail(heads)[i] = heads[i + 1]
  BY DEF FeedInv
<1>2. /\ target \in Nat /\ heads[1] \in Nat /\ Len(blocks) \in Nat
      /\ target + 1 < heads[1] /\ heads[1] <= Len(blocks)
  BY <1>1 DEF FeedInv
<1>3. target' \in Nat /\ target' > target /\ target' < Len(blocks)
  BY <1>1, <1>2
<1>4. \A i \in 1..Len(Tail(heads)) : i + 1 \in 1..Len(heads) /\ 1 < i + 1
  BY <1>1
<1>5. \A i \in 1..Len(heads') : target' + 1 < heads'[i] /\ heads'[i] <= Len(blocks)
  BY <1>1, <1>2, <1>4 DEF FeedInv
<1>6. \A i, j \in 1..Len(heads') : i < j => heads'[i] < heads'[j]
  BY <1>1, <1>4 DEF FeedInv
<1>7. FeedInv'
  BY <1>1, <1>2, <1>3, <1>5, <1>6 DEF FeedInv, Dispatching
<1>8. QED BY <1>2, <1>3, <1>7

LEMMA QuietFeed ==
    ASSUME FeedInv, blocks' = blocks, heads' = heads, target' = target,
           pc' = "price" \/ Dispatching' => pc = "price" \/ Dispatching
    PROVE  FeedInv'
BY DEF FeedInv

LEMMA ResetFeed ==
    ASSUME FeedInv, NEW known, NEW read, NEW index, Reset(known, read, index), blocks' = blocks, pc' \in {"down", "init"}
    PROVE  FeedInv'
BY DEF FeedInv, Reset, Dispatching

\* What a step of the worker leaves alone.
LEMMA WorkerFrame ==
    ASSUME Worker
    PROVE  /\ UNCHANGED <<service, latest_block, blocks, heads, pc, target, pools, cache, changed, unread,
                          found, selected, next, appearances, crashes>>
           /\ wpc # "idle" \/ queue # <<>>
BY DEF Worker, Receive, Refuse, TryFails, WatchHangs, Watched, MarkAsFailed, Write, Step,
       startVars, feedVars, poolVars, choiceVars, workVars, storeVars, historyVars

\* What a step of the loop does to the chain, the heads and the copies.
LEMMA DispatchFrame ==
    ASSUME \/ \E ranking \in Outcomes : Choose(ranking)
           \/ IsFailed \/ IsNotFailed \/ SendJob \/ TradeInline \/ TradedInline
    PROVE  /\ UNCHANGED <<service, latest_block, blocks, heads, target, pools, cache, last_executions,
                          failed, file, crashes, confirmed, failures>>
           /\ changed' = changed \/ changed' = {}
           /\ pc = "price" \/ Dispatching
           /\ pc' \in {"head", "dispatch", "send", "trade", "trading"}
BY DEF Choose, IsFailed, IsNotFailed, SendJob, TradeInline, TradedInline, Dispatched, Done,
       Dispatching, startVars, feedVars, poolVars, choiceVars, workVars, storeVars, historyVars

\* A process that starts, or has gone, has nothing at hand.
LEMMA ResetFrame ==
    ASSUME Crash \/ Exit \/ Restart
    PROVE  /\ pc' \in {"down", "init"} /\ blocks' = blocks
           /\ found' = <<>> /\ selected' = <<>> /\ next' = 1
           /\ queue' = <<>> /\ wpc' = "idle"
           /\ last_executions' = [p \in Paths |-> 0] /\ confirmed' = {}
           /\ attempts' = [p \in Paths |-> 0]
           /\ appearances' = [p \in Paths |-> [block |-> 0, count |-> 0]]
           /\ changed' = {} /\ unread' = {}
           /\ file' = file /\ failures' = failures
           /\ Restart \/ pc' = "down"
           /\ Restart => file # Torn /\ failed' = file
<1>1. CASE Crash
  BY <1>1 DEF Crash, Reset, Restart, Running
<1>2. CASE Exit
  BY <1>2 DEF Exit, Reset, Restart
<1>3. CASE Restart
  BY <1>3 DEF Restart, Reset
<1>4. QED BY <1>1, <1>2, <1>3

LEMMA FeedStep ==
    ASSUME FeedInv, [Next]_vars
    PROVE  FeedInv'
<1>1. ASSUME NEW S \in Activity, Mine(S) PROVE FeedInv'
  BY <1>1, MineFeed
<1>2. ASSUME NEW skipped, NEW read, TakeBlock(skipped, read) PROVE FeedInv'
  BY <1>2, HeadFeed DEF TakeBlock
<1>3. CASE LoseBlock
  BY <1>3, HeadFeed DEF LoseBlock
<1>4. CASE \/ \E ranking \in Outcomes : Choose(ranking)
           \/ IsFailed \/ IsNotFailed \/ SendJob \/ TradeInline \/ TradedInline
  BY <1>4, DispatchFrame, QuietFeed
<1>5. CASE Worker
  BY <1>5, WorkerFrame, QuietFeed DEF Dispatching
<1>6. CASE Crash \/ Exit \/ Restart
  BY <1>6, ResetFeed DEF Crash, Exit, Restart
<1>7. CASE Subscribe \/ StreamEnds \/ RestartFails \/ UNCHANGED vars
  BY <1>7, QuietFeed DEF Subscribe, StreamEnds, RestartFails, vars, startVars, feedVars, poolVars,
                         Dispatching
<1>8. QED BY <1>1, <1>2, <1>3, <1>4, <1>5, <1>6, <1>7 DEF Next, Loop

-----------------------------------------------------------------------------
(* Appearances.                                                             *)

LEMMA CountsStep ==
    ASSUME FeedInv, CountsInv, [Next]_vars
    PROVE  CountsInv'
<1> DEFINE Quiet == /\ appearances' = appearances
                    /\ target' = target
                    /\ pc' = "price" => pc = "price"
<1>1. CASE Quiet
  BY <1>1 DEF CountsInv
<1>2. ASSUME NEW skipped, NEW read, TakeBlock(skipped, read) PROVE CountsInv'
  <2>1. target' > target /\ target' \in Nat /\ target \in Nat
    BY <1>2, HeadFeed DEF TakeBlock, FeedInv
  <2>2. appearances' = appearances
    BY <1>2 DEF TakeBlock, choiceVars
  <2>3. QED BY <2>1, <2>2 DEF CountsInv
<1>3. CASE LoseBlock
  <2>1. target' > target /\ target' \in Nat /\ target \in Nat
    BY <1>3, HeadFeed DEF LoseBlock, FeedInv
  <2>2. appearances' = appearances
    BY <1>3 DEF LoseBlock, choiceVars
  <2>3. QED BY <2>1, <2>2 DEF CountsInv
<1>4. ASSUME NEW ranking \in Outcomes, Choose(ranking) PROVE CountsInv'
  <2>1. target' = target /\ pc' # "price" /\ target \in Nat
    BY <1>4 DEF Choose, Done, FeedInv
  <2>2. \A p \in Paths : Counted(p) \in [block : Nat, count : Nat] /\ Counted(p).block <= target
    BY <2>1 DEF Counted, CountsInv
  <2> DEFINE seen == {ranking[i].path : i \in DOMAIN ranking}
  <2>3. appearances' = [p \in Paths |-> IF p \in seen THEN Counted(p) ELSE appearances[p]]
    BY <1>4 DEF Choose
  <2> HIDE DEF seen
  <2>4. QED BY <2>1, <2>2, <2>3 DEF CountsInv
<1>5. CASE IsFailed \/ IsNotFailed \/ SendJob \/ TradeInline \/ TradedInline
  BY <1>1, <1>5 DEF IsFailed, IsNotFailed, SendJob, TradeInline, TradedInline, Dispatched, Done,
                    poolVars, choiceVars
<1>6. CASE Worker
  BY <1>1, <1>6, WorkerFrame
<1>7. CASE Crash \/ Exit \/ Restart
  BY <1>7 DEF Crash, Exit, Restart, Reset, CountsInv
<1>8. CASE \/ \E S \in Activity : Mine(S)
           \/ Subscribe \/ StreamEnds \/ RestartFails \/ UNCHANGED vars
  BY <1>1, <1>8 DEF Mine, Subscribe, StreamEnds, RestartFails, vars, poolVars, choiceVars
<1>9. QED BY <1>2, <1>3, <1>4, <1>5, <1>6, <1>7, <1>8 DEF Next, Loop

-----------------------------------------------------------------------------
(* The selection.                                                           *)

LEMMA SelectFromNone == SelectFrom(<<>>, PoolsIn) = <<>>
<1>1. <<>> \in Seq(Opportunities) /\ Len(<<>>) = 0
  OBVIOUS
<1>2. PICK f : Selects(f, <<>>, PoolsIn) /\ SelectFrom(<<>>, PoolsIn) = f[0]
  BY <1>1, SelectFromIs
<1>3. QED BY <1>2 DEF Selects

\* The best candidate is always selected.
LEMMA SelectedIs ==
    ASSUME NEW ranking, ranking \in Seq(Opportunities)
    PROVE  LET s == SelectFrom(ranking, PoolsIn)
           IN  /\ s \in Seq(Opportunities)
               /\ Greedily(s, ranking, Len(ranking), PoolsIn)
               /\ ranking # <<>> => 1 <= Len(s)
<1> DEFINE s == SelectFrom(ranking, PoolsIn)
<1>1. s \in Seq(Opportunities) /\ Greedily(s, ranking, Len(ranking), PoolsIn)
  BY SelectFromGreedy
<1> HIDE DEF s
<1>2. ASSUME ranking # <<>> PROVE 1 <= Len(s)
  <2>1. 1 \in 1..Len(ranking) /\ Len(s) \in Nat
    BY <1>1, <1>2
  <2>2. Len(s) # 0
    BY <1>1, <2>1 DEF Greedily
  <2>3. QED BY <2>1, <2>2
<1>3. QED BY <1>1, <1>2 DEF s

LEMMA DispatchedChoice ==
    ASSUME ChoiceInv, Dispatching, Dispatched
    PROVE  ChoiceInv'
<1>1. Len(selected) \in Nat /\ next \in Nat \ {0} /\ next <= Len(selected)
  BY SelectedIs DEF ChoiceInv
<1>2. CASE next < Len(selected)
  BY <1>1, <1>2 DEF Dispatched, ChoiceInv, Dispatching
<1>3. CASE ~(next < Len(selected))
  BY <1>3, SelectFromNone DEF Dispatched, Done, ChoiceInv, Dispatching
<1>4. QED BY <1>2, <1>3

LEMMA ChooseChoice ==
    ASSUME ChoiceInv, NEW ranking \in Outcomes, Choose(ranking)
    PROVE  ChoiceInv'
<1> DEFINE passed == FilterAndUpdate(ranking)
<1>1. passed \in Seq(Opportunities)
  BY FilterAndUpdateIs, ConstantsAre
<1>2. next = 1
  BY DEF Choose, ChoiceInv, Dispatching
<1>3. CASE passed = <<>>
  BY <1>3, SelectFromNone DEF Choose, Done, ChoiceInv, Dispatching
<1>4. CASE passed # <<>>
  <2>1. found' = passed /\ selected' = SelectFrom(passed, PoolsIn) /\ next' = 1
        /\ pc' = "dispatch"
    BY <1>2, <1>4 DEF Choose
  <2> HIDE DEF passed
  <2>2. 1 <= Len(selected')
    BY <1>1, <1>4, <2>1, SelectedIs
  <2>3. QED BY <1>1, <2>1, <2>2 DEF ChoiceInv, Dispatching
<1>5. QED BY <1>3, <1>4

LEMMA ChoiceStep ==
    ASSUME ChoiceInv, [Next]_vars
    PROVE  ChoiceInv'
<1> DEFINE Quiet == UNCHANGED <<found, selected, next>> /\ (Dispatching' <=> Dispatching)
<1>1. CASE Quiet
  BY <1>1 DEF ChoiceInv
<1>2. CASE IsFailed \/ SendJob \/ TradedInline
  BY <1>2, DispatchedChoice DEF IsFailed, SendJob, TradedInline, Dispatching
<1>3. CASE TradeInline
  <2>1. CASE Cooling(JobOf(Candidate))
    BY <1>3, <2>1, DispatchedChoice DEF TradeInline, Dispatching
  <2>2. CASE ~Cooling(JobOf(Candidate))
    BY <1>1, <1>3, <2>2 DEF TradeInline, Dispatching
  <2>3. QED BY <2>1, <2>2
<1>4. ASSUME NEW ranking \in Outcomes, Choose(ranking) PROVE ChoiceInv'
  BY <1>4, ChooseChoice
<1>5. CASE Worker
  BY <1>1, <1>5, WorkerFrame DEF Dispatching
<1>6. CASE Crash \/ Exit \/ Restart
  <2>1. ~Dispatching' /\ found' = <<>> /\ selected' = <<>> /\ next' = 1
    BY <1>6, ResetFrame DEF Dispatching
  <2>2. QED BY <2>1, SelectFromNone DEF ChoiceInv
<1>7. CASE IsNotFailed
  BY <1>1, <1>7 DEF IsNotFailed, choiceVars, Dispatching
<1>8. ASSUME NEW skipped, NEW read, TakeBlock(skipped, read) PROVE ChoiceInv'
  BY <1>1, <1>8 DEF TakeBlock, choiceVars, Dispatching
<1>9. CASE \/ \E S \in Activity : Mine(S)
           \/ LoseBlock \/ Subscribe \/ StreamEnds \/ RestartFails \/ UNCHANGED vars
  BY <1>1, <1>9 DEF Mine, LoseBlock, Subscribe, StreamEnds, RestartFails, vars, choiceVars,
                    Dispatching
<1>10. QED BY <1>2, <1>3, <1>4, <1>5, <1>6, <1>7, <1>8, <1>9 DEF Next, Loop

\* The candidate at hand.
LEMMA CandidateIs ==
    ASSUME FeedInv, ChoiceInv, Dispatching
    PROVE  /\ Candidate \in Opportunities
           /\ next \in 1..Len(selected)
           /\ JobOf(Candidate) \in Jobs
<1>1. selected \in Seq(Opportunities) /\ next \in Nat \ {0} /\ next <= Len(selected)
  BY SelectedIs DEF ChoiceInv
<1>2. target \in Nat \ {0}
  BY DEF FeedInv
<1>3. next \in 1..Len(selected) /\ Candidate \in Opportunities
  BY <1>1 DEF Candidate
<1>4. Candidate.path \in Paths /\ Candidate.input \in Inputs
  BY <1>3 DEF Opportunities
<1>5. QED BY <1>2, <1>3, <1>4 DEF JobOf, Jobs

-----------------------------------------------------------------------------
(* The queue and the worker.                                                *)

LEMMA HeadOfQueue ==
    ASSUME NEW q, q \in Seq(Jobs), q # <<>>
    PROVE  Head(q) \in Jobs /\ Tail(q) \in Seq(Jobs) /\ Head(q) = q[1]
OBVIOUS

LEMMA WorkStep ==
    ASSUME FeedInv, ChoiceInv, WorkInv, [Next]_vars
    PROVE  WorkInv'
<1> DEFINE Quiet == UNCHANGED <<queue, wpc, job>> /\ (Running => Running')
<1>1. CASE Quiet
  BY <1>1 DEF WorkInv
<1>2. CASE SendJob
  <2>1. JobOf(Candidate) \in Jobs
    BY <1>2, CandidateIs DEF SendJob, Dispatching
  <2>2. queue' \in Seq(Jobs) /\ wpc' = wpc /\ job' = job
    BY <1>2, <2>1 DEF SendJob, WorkInv, workVars
  <2>3. Running'
    BY <1>2 DEF SendJob, Dispatched, Running
  <2>4. QED BY <2>2, <2>3 DEF WorkInv
<1>3. CASE TradeInline
  <2>1. JobOf(Candidate) \in Jobs
    BY <1>3, CandidateIs DEF TradeInline, Dispatching
  <2>2. Running'
    BY <1>3 DEF TradeInline, Dispatched, Running
  <2>3. queue' = queue
    BY <1>3 DEF TradeInline
  <2>4. (job' = job /\ wpc' = wpc) \/ job' = JobOf(Candidate)
    BY <1>3 DEF TradeInline
  <2>5. QED BY <2>1, <2>2, <2>3, <2>4 DEF WorkInv
<1>4. CASE Receive
  <2>1. Head(queue) \in Jobs /\ Tail(queue) \in Seq(Jobs)
    BY <1>4, HeadOfQueue DEF Receive, WorkInv
  <2>2. Running'
    BY <1>4 DEF Receive, WorkInv, Running
  <2>3. queue' = Tail(queue) /\ (job' = Head(queue) \/ (wpc' = wpc /\ wpc = "idle"))
    BY <1>4 DEF Receive
  <2>4. QED BY <2>1, <2>2, <2>3 DEF WorkInv
<1>5. CASE Refuse \/ TryFails \/ WatchHangs \/ Watched \/ MarkAsFailed \/ Write
  <2>1. queue' = queue /\ pc' = pc /\ wpc # "idle" /\ (job' = job \/ wpc' = "idle")
    BY <1>5 DEF Refuse, TryFails, WatchHangs, Watched, MarkAsFailed, Write, Step
  <2>2. QED BY <2>1 DEF WorkInv, Running
<1>6. CASE Crash \/ Exit \/ Restart
  <2>1. queue' = <<>> /\ wpc' = "idle"
    BY <1>6, ResetFrame
  <2>2. QED BY <2>1 DEF WorkInv
<1>7. CASE IsFailed \/ IsNotFailed \/ TradedInline
  BY <1>1, <1>7 DEF IsFailed, IsNotFailed, TradedInline, Dispatched, Done, workVars, Running
<1>8. ASSUME NEW ranking \in Outcomes, Choose(ranking) PROVE WorkInv'
  BY <1>1, <1>8 DEF Choose, workVars, Running
<1>9. ASSUME NEW skipped, NEW read, TakeBlock(skipped, read) PROVE WorkInv'
  BY <1>1, <1>9 DEF TakeBlock, workVars, Running
<1>10. CASE \/ \E S \in Activity : Mine(S)
            \/ LoseBlock \/ Subscribe \/ StreamEnds \/ UNCHANGED vars
  BY <1>1, <1>10 DEF Mine, LoseBlock, Subscribe, StreamEnds, vars, workVars, Running
<1>11. CASE RestartFails
  BY <1>11 DEF RestartFails, workVars, WorkInv, Running
<1>12. QED BY <1>2, <1>3, <1>4, <1>5, <1>6, <1>7, <1>8, <1>9, <1>10, <1>11
           DEF Next, Loop, Worker
-----------------------------------------------------------------------------
(* The cooldown.                                                            *)

LEMMA CoolKept ==
    ASSUME CoolInv, UNCHANGED <<last_executions, confirmed, job>>,
           wpc' = "attempt" => wpc = "attempt"
    PROVE  CoolInv'
BY DEF CoolInv

\* Only a job that is past its cooldown is begun.
LEMMA CoolBegun ==
    ASSUME CoolInv, NEW j \in Jobs, ~Cooling(j), job' = j,
           UNCHANGED <<last_executions, confirmed>>
    PROVE  CoolInv'
<1>1. /\ last_executions[j.path] \in Nat /\ j.block \in Nat /\ COOLDOWN \in Nat
  BY ConstantsAre DEF CoolInv, Jobs
<1>2. last_executions[j.path] = 0 \/ last_executions[j.path] + COOLDOWN <= j.block
  BY <1>1 DEF Cooling
<1>3. QED BY <1>2 DEF CoolInv

LEMMA CoolWatched ==
    ASSUME WorkInv, CoolInv, Watched
    PROVE  CoolInv'
<1> DEFINE last == last_executions[job.path]
<1>1. wpc = "attempt" /\ wpc' = "idle" /\ job \in Jobs
  BY DEF Watched, Step, WorkInv
<1>2. /\ job.path \in Paths /\ job.block \in Nat \ {0} /\ COOLDOWN \in Nat
      /\ last_executions \in [Paths -> Nat] /\ last \in Nat
  BY <1>1, ConstantsAre DEF Jobs, CoolInv
<1>3. last <= job.block
  BY <1>1, <1>2 DEF CoolInv
<1>4. last_executions' = [last_executions EXCEPT ![job.path] = job.block]
  BY DEF Watched
<1>5. /\ last_executions' \in [Paths -> Nat] /\ last_executions'[job.path] = job.block
      /\ \A p \in Paths : last_executions[p] <= last_executions'[p]
  BY <1>2, <1>3, <1>4
<1>6. confirmed' = confirmed \cup {[path |-> job.path, block |-> job.block]}
  BY DEF Watched
<1>7. ASSUME NEW c \in confirmed
      PROVE  c.path \in Paths /\ c.block \in Nat \ {0} /\ c.block <= last_executions'[c.path]
  <2>1. c.path \in Paths /\ c.block \in Nat \ {0} /\ c.block <= last_executions[c.path]
    BY DEF CoolInv
  <2>2. last_executions[c.path] \in Nat /\ last_executions'[c.path] \in Nat
    BY <1>2, <1>5, <2>1
  <2>3. QED BY <1>5, <2>1, <2>2
<1>8. \A c \in confirmed' : /\ c.path \in Paths
                            /\ c.block \in Nat \ {0}
                            /\ c.block <= last_executions'[c.path]
  BY <1>2, <1>5, <1>6, <1>7
<1>9. QED BY <1>1, <1>5, <1>8 DEF CoolInv

\* The trade that is confirmed waited for the last one, and so for all of its path.
LEMMA CooldownStep ==
    ASSUME FeedInv, WorkInv, CoolInv, CooldownKept, [Next]_vars
    PROVE  CooldownKept'
<1>1. CASE confirmed' = confirmed
  BY <1>1 DEF CooldownKept
<1>2. CASE Watched
  <2> DEFINE last == last_executions[job.path]
             new == [path |-> job.path, block |-> job.block]
  <2>1. /\ wpc = "attempt" /\ job \in Jobs /\ confirmed' = confirmed \cup {new}
        /\ COOLDOWN \in Nat
    BY <1>2, ConstantsAre DEF Watched, Step, WorkInv
  <2>2. /\ job.path \in Paths /\ job.block \in Nat \ {0} /\ last \in Nat
        /\ last = 0 \/ last + COOLDOWN <= job.block
    BY <2>1 DEF Jobs, CoolInv
  <2>3. ASSUME NEW c \in confirmed, c.path = job.path
        PROVE  c.block + COOLDOWN <= job.block /\ c.block \in Nat
    <3>1. c.block \in Nat \ {0} /\ c.block <= last
      BY <2>3 DEF CoolInv
    <3>2. QED BY <2>1, <2>2, <3>1
  <2> HIDE DEF last
  <2>4. ASSUME NEW c \in confirmed', NEW d \in confirmed', c.path = d.path, c.block < d.block
        PROVE  c.block + COOLDOWN <= d.block
    <3>1. CASE c \in confirmed /\ d \in confirmed
      BY <2>4, <3>1 DEF CooldownKept
    <3>2. CASE c \in confirmed /\ d = new
      BY <2>3, <2>4, <3>2
    <3>3. CASE c = new /\ d \in confirmed
      BY <2>1, <2>2, <2>3, <2>4, <3>3
    <3>4. CASE c = new /\ d = new
      BY <2>2, <2>4, <3>4
    <3>5. QED BY <2>1, <3>1, <3>2, <3>3, <3>4
  <2>5. QED BY <2>4 DEF CooldownKept
<1>3. CASE Crash \/ Exit \/ Restart
  BY <1>3, ResetFrame DEF CooldownKept
<1>4. CASE Receive \/ Refuse \/ TryFails \/ WatchHangs \/ MarkAsFailed \/ Write
  BY <1>1, <1>4 DEF Receive, Refuse, TryFails, WatchHangs, MarkAsFailed, Write, historyVars
<1>5. CASE \/ \E ranking \in Outcomes : Choose(ranking)
           \/ IsFailed \/ IsNotFailed \/ SendJob \/ TradeInline \/ TradedInline
  BY <1>1, <1>5, DispatchFrame
<1>6. ASSUME NEW skipped, NEW read, TakeBlock(skipped, read) PROVE CooldownKept'
  BY <1>1, <1>6 DEF TakeBlock, historyVars
<1>7. CASE \/ \E S \in Activity : Mine(S)
           \/ LoseBlock \/ Subscribe \/ StreamEnds \/ RestartFails \/ UNCHANGED vars
  BY <1>1, <1>7 DEF Mine, LoseBlock, Subscribe, StreamEnds, RestartFails, vars, historyVars
<1>8. QED BY <1>2, <1>3, <1>4, <1>5, <1>6, <1>7 DEF Next, Loop, Worker

LEMMA CoolStep ==
    ASSUME FeedInv, ChoiceInv, WorkInv, CoolInv, [Next]_vars
    PROVE  CoolInv'
<1>1. CASE TradeInline
  <2>1. CASE Cooling(JobOf(Candidate))
    BY <1>1, <2>1, CoolKept DEF TradeInline
  <2>2. CASE ~Cooling(JobOf(Candidate))
    BY <1>1, <2>2, CoolBegun, CandidateIs DEF TradeInline, Dispatching
  <2>3. QED BY <2>1, <2>2
<1>2. CASE Receive
  <2>1. Head(queue) \in Jobs
    BY <1>2, HeadOfQueue DEF Receive, WorkInv
  <2>2. CASE Cooling(Head(queue))
    BY <1>2, <2>2, CoolKept DEF Receive
  <2>3. CASE ~Cooling(Head(queue))
    BY <1>2, <2>1, <2>3, CoolBegun DEF Receive
  <2>4. QED BY <2>2, <2>3
<1>3. CASE Watched
  BY <1>3, CoolWatched
<1>4. CASE Refuse \/ TryFails \/ WatchHangs \/ MarkAsFailed \/ Write
  BY <1>4, CoolKept DEF Refuse, TryFails, WatchHangs, MarkAsFailed, Write, Step, historyVars
<1>5. CASE Crash \/ Exit \/ Restart
  <2>1. wpc' = "idle" /\ last_executions' = [p \in Paths |-> 0] /\ confirmed' = {}
    BY <1>5, ResetFrame
  <2>2. QED BY <2>1 DEF CoolInv
<1>6. CASE IsFailed \/ IsNotFailed \/ SendJob \/ TradedInline
  BY <1>6, CoolKept DEF IsFailed, IsNotFailed, SendJob, TradedInline, workVars, historyVars
<1>7. ASSUME NEW ranking \in Outcomes, Choose(ranking) PROVE CoolInv'
  BY <1>7, CoolKept DEF Choose, workVars, historyVars
<1>8. ASSUME NEW skipped, NEW read, TakeBlock(skipped, read) PROVE CoolInv'
  BY <1>8, CoolKept DEF TakeBlock, workVars, historyVars
<1>9. CASE \/ \E S \in Activity : Mine(S)
           \/ LoseBlock \/ Subscribe \/ StreamEnds \/ RestartFails \/ UNCHANGED vars
  BY <1>9, CoolKept DEF Mine, LoseBlock, Subscribe, StreamEnds, RestartFails, vars, workVars,
                        historyVars
<1>10. QED BY <1>1, <1>2, <1>3, <1>4, <1>5, <1>6, <1>7, <1>8, <1>9 DEF Next, Loop, Worker

-----------------------------------------------------------------------------
(* The failures.                                                            *)

LEMMA StoreKept ==
    ASSUME StoreInv, UNCHANGED <<failed, file, failures>>,
           wpc' = "write" => wpc = "write" /\ job' = job,
           Running' \/ pc' = "init" => Running \/ pc = "init"
    PROVE  StoreInv'
BY DEF StoreInv, FailuresSurvive, Opportunity

LEMMA StoreStep ==
    ASSUME WorkInv, StoreInv, [Next]_vars
    PROVE  StoreInv'
<1>1. CASE MarkAsFailed
  <2>1. /\ failed' = failed \cup {Opportunity} /\ failures' = failures /\ pc' = pc
        /\ job' = job /\ (file' = file \/ file' = Torn)
    BY <1>1 DEF MarkAsFailed, historyVars
  <2>2. Opportunity' = Opportunity
    BY <2>1 DEF Opportunity
  <2>3. Running' = Running
    BY <2>1 DEF Running
  <2>4. QED BY <2>1, <2>2, <2>3 DEF StoreInv, FailuresSurvive
<1>2. CASE Write
  <2>1. /\ wpc = "write" /\ wpc' = "idle" /\ failed' = failed /\ pc' = pc
        /\ \/ file' = failed /\ failures' = failures \cup {Opportunity}
           \/ file' = file /\ failures' = failures
    BY <1>2 DEF Write, Step
  <2>2. Running /\ Running'
    BY <2>1 DEF WorkInv, Running
  <2>3. QED BY <2>1, <2>2 DEF StoreInv, FailuresSurvive
<1>3. CASE Receive
  <2>1. UNCHANGED <<failed, file, failures, pc>> /\ wpc' # "write"
    BY <1>3 DEF Receive, storeVars
  <2>2. QED BY <2>1, StoreKept DEF Running
<1>4. CASE Refuse \/ TryFails \/ WatchHangs \/ Watched
  <2>1. UNCHANGED <<failed, file, failures, pc>> /\ wpc' # "write"
    BY <1>4 DEF Refuse, TryFails, WatchHangs, Watched, Step
  <2>2. QED BY <2>1, StoreKept DEF Running
<1>5. CASE Crash \/ Exit \/ Restart
  BY <1>5, ResetFrame DEF StoreInv, FailuresSurvive, Running
<1>6. CASE \/ \E ranking \in Outcomes : Choose(ranking)
           \/ IsFailed \/ IsNotFailed \/ SendJob \/ TradedInline
  <2>1. UNCHANGED <<failed, file, failures, wpc, job>> /\ Running
    BY <1>6 DEF Choose, IsFailed, IsNotFailed, SendJob, TradedInline, storeVars, historyVars,
                workVars, Running
  <2>2. QED BY <2>1, StoreKept
<1>7. CASE TradeInline
  <2>1. UNCHANGED <<failed, file, failures>> /\ Running
    BY <1>7 DEF TradeInline, storeVars, Running
  <2>2. UNCHANGED <<wpc, job>> \/ wpc' # "write"
    BY <1>7 DEF TradeInline
  <2>3. QED BY <2>1, <2>2, StoreKept
<1>8. ASSUME NEW skipped, NEW read, TakeBlock(skipped, read) PROVE StoreInv'
  <2>1. UNCHANGED <<failed, file, failures, wpc, job>> /\ Running
    BY <1>8 DEF TakeBlock, storeVars, historyVars, workVars, Running
  <2>2. QED BY <2>1, StoreKept
<1>9. CASE \/ \E S \in Activity : Mine(S)
           \/ LoseBlock \/ Subscribe \/ StreamEnds \/ RestartFails \/ UNCHANGED vars
  BY <1>9, StoreKept DEF Mine, LoseBlock, Subscribe, StreamEnds, RestartFails, vars, workVars,
                         storeVars, historyVars, Running
<1>10. QED BY <1>1, <1>2, <1>3, <1>4, <1>5, <1>6, <1>7, <1>8, <1>9 DEF Next, Loop, Worker
-----------------------------------------------------------------------------
(* The copies of the pools.                                                 *)

LEMMA ContentIs ==
    ASSUME NEW p, NEW n, NEW k \in 1..MaxBlocks
    PROVE  ContentAt(p, n)[k] = IF k \in 1..n /\ p \in blocks[k] THEN 1 ELSE 0
BY DEF ContentAt

LEMMA FirstIs ==
    ASSUME NEW p, NEW n \in Nat, NEW k \in 1..MaxBlocks, NEW f \in {ContentAt(p, n), Nothing}
    PROVE  f[k] \in {0, 1} /\ (f[k] = 1 => k <= n /\ p \in blocks[k])
<1>1. CASE f = Nothing
  <2>1. f[k] = 0
    BY <1>1 DEF Nothing
  <2>2. QED BY <2>1
<1>2. CASE f = ContentAt(p, n)
  <2>1. f[k] = IF k \in 1..n /\ p \in blocks[k] THEN 1 ELSE 0
    BY <1>2, ContentIs
  <2>2. QED BY <2>1
<1>3. QED BY <1>1, <1>2

LEMMA AgainIs ==
    ASSUME NEW shown, shown \in [1..MaxBlocks -> Nat], NEW n, NEW k \in 1..MaxBlocks
    PROVE  /\ Again(shown, n) \in [1..MaxBlocks -> Nat]
           /\ Again(shown, n)[k] = IF k = n THEN shown[k] + 1 ELSE shown[k]
<1>1. CASE n \in 1..MaxBlocks
  BY <1>1 DEF Again
<1>2. CASE n \notin 1..MaxBlocks
  <2>1. Again(shown, n) = shown
    BY <1>2 DEF Again
  <2>2. QED BY <1>2, <2>1
<1>3. QED BY <1>1, <1>2

LEMMA CopiesKept ==
    ASSUME CopiesInv,
           UNCHANGED <<service, latest_block, blocks, heads, target, pools, changed, unread>>,
           pc' = "price" => pc = "price", pc' \in {"init", "down"} => pc \in {"init", "down"}
    PROVE  CopiesInv'
BY DEF CopiesInv, CountedIn, ReadInv, ContentAt

\* A new block adds nothing to what is shown, and its head comes after all that
\* was read.
LEMMA CopiesMined ==
    ASSUME FeedInv, CopiesInv, NEW S \in Activity, Mine(S)
    PROVE  CopiesInv'
<1>1. /\ blocks' = Append(blocks, S) /\ pc' = pc
      /\ UNCHANGED <<service, latest_block, target, pools, changed, unread>>
      /\ heads' = Announced(Subscribed, Len(blocks) + 1)
  BY DEF Mine, MineBlock, poolVars, startVars
<1>2. /\ Len(blocks') = Len(blocks) + 1 /\ Len(blocks) \in Nat
      /\ \A k \in 1..Len(blocks) : blocks'[k] = blocks[k]
  BY <1>1 DEF FeedInv
<1>3. ASSUME NEW p \in Pools PROVE ContentAt(p, target)' = ContentAt(p, target)
  <2>1. \A k \in 1..target : k \in 1..Len(blocks)
    BY <1>2 DEF FeedInv
  <2>2. QED BY <1>1, <1>2, <2>1 DEF ContentAt
<1>4. ASSUME NEW p \in Pools, NEW part \in Parts, NEW k \in 1..MaxBlocks
      PROVE  CountedIn(pools[p][part], p, k)'
  BY <1>1, <1>2 DEF CopiesInv, CountedIn, FeedInv
<1>5. ASSUME NEW i \in 1..Len(heads') PROVE latest_block < heads'[i]
  <2>1. heads \in Seq(Nat) /\ Subscribed \in BOOLEAN
    BY DEF FeedInv, Subscribed, Running
  <2>2. CASE heads' = heads
    BY <2>2 DEF CopiesInv
  <2>3. ASSUME NEW h \in Seq(Nat), heads' = Append(h, Len(blocks) + 1),
               \A m \in 1..Len(h) : latest_block < h[m]
        PROVE  latest_block < heads'[i]
    <3>1. i \in 1..Len(h) \/ i = Len(h) + 1
      BY <2>3
    <3>2. latest_block < Len(blocks) + 1
      BY <1>2 DEF CopiesInv
    <3>3. heads'[i] = IF i = Len(h) + 1 THEN Len(blocks) + 1 ELSE h[i]
      BY <1>2, <2>3, <3>1
    <3>4. QED BY <2>3, <3>1, <3>2, <3>3
  <2>4. CASE heads' = Append(heads, Len(blocks) + 1)
    BY <2>1, <2>3, <2>4 DEF CopiesInv
  <2>5. CASE heads' = Append(Tail(heads), Len(blocks) + 1) /\ ~(Len(heads) < HEADS)
    <3>1. heads # <<>>
      BY <2>1, <2>5, ConstantsAre
    <3>2. /\ Tail(heads) \in Seq(Nat)
          /\ \A m \in 1..Len(Tail(heads)) :
                m + 1 \in 1..Len(heads) /\ Tail(heads)[m] = heads[m + 1]
      BY <2>1, <3>1
    <3>3. \A m \in 1..Len(Tail(heads)) : latest_block < Tail(heads)[m]
      BY <3>2 DEF CopiesInv
    <3>4. QED BY <2>3, <2>5, <3>2, <3>3
  <2>6. QED BY <1>1, <2>1, <2>2, <2>4, <2>5, AnnouncedIs
<1>6. ReadInv'
  BY <1>1, <1>3 DEF CopiesInv, ReadInv
<1>7. latest_block' \in 1..Len(blocks') /\ (target' = 0 \/ latest_block' <= target')
  BY <1>1, <1>2 DEF CopiesInv
<1>8. QED BY <1>1, <1>4, <1>5, <1>6, <1>7 DEF CopiesInv

\* A block is taken: it is later than all that are shown, save that the first
\* may be the one at which the pools were read.
LEMMA CopiesTaken ==
    ASSUME FeedInv, CopiesInv, NEW skipped, NEW read, TakeBlock(skipped, read)
    PROVE  CopiesInv'
<1>1. /\ changed' = blocks[target'] \ skipped
      /\ pools' = [p \in Pools |-> IF p \notin changed' THEN pools[p] ELSE Applied(p, read)]
      /\ unread' = IF read = {"slot", "bins"} THEN {} ELSE changed'
      /\ blocks' = blocks /\ service' = service /\ latest_block' = latest_block
      /\ service = "moe" \/ read = {"slot", "bins"}
      /\ heads # <<>> /\ target' = Head(heads) - 1 /\ heads' = Tail(heads)
      /\ pc' \in {"price", "head"}
  BY DEF TakeBlock, startVars
<1>2. target' \in 1..Len(blocks) /\ target' > target /\ FeedInv'
  BY HeadFeed DEF TakeBlock
<1>3. changed' \subseteq Pools /\ (\A p \in changed' : p \in blocks[target'])
  BY <1>1, <1>2 DEF FeedInv
<1>4. /\ latest_block \in Nat /\ latest_block <= target'
      /\ \A i \in 1..Len(heads') : latest_block' < heads'[i]
      /\ target \in Nat /\ target' \in Nat
  <2>1. /\ heads \in Seq(Nat) /\ heads # <<>> /\ Head(heads) = heads[1] /\ 1 \in 1..Len(heads)
        /\ \A i \in 1..Len(Tail(heads)) : i + 1 \in 1..Len(heads) /\ Tail(heads)[i] = heads[i + 1]
    BY <1>1 DEF FeedInv
  <2>2. latest_block < heads[1] /\ heads[1] \in Nat /\ latest_block \in Nat
    BY <2>1 DEF CopiesInv, FeedInv
  <2>3. QED BY <1>1, <1>2, <2>1, <2>2 DEF CopiesInv, FeedInv
<1>5. ASSUME NEW p \in Pools, NEW part \in Parts
      PROVE  /\ pools'[p][part] \in [1..MaxBlocks -> Nat]
             /\ \/ pools'[p][part] = pools[p][part]
                \/ pools'[p][part] = ContentAt(p, target') /\ p \in changed'
                \/ pools'[p][part] = Again(pools[p][part], target') /\ p \in changed'
  <2>1. pools[p][part] \in [1..MaxBlocks -> Nat]
    BY DEF CopiesInv
  <2>2. /\ ContentAt(p, target') \in [1..MaxBlocks -> Nat]
        /\ Again(pools[p][part], target') \in [1..MaxBlocks -> Nat]
    BY <2>1, AgainIs DEF ContentAt, Again
  <2>3. pools'[p] = IF p \notin changed' THEN pools[p] ELSE Applied(p, read)
    BY <1>1
  <2>4. \/ Applied(p, read)[part] = ContentAt(p, target')
        \/ Applied(p, read)[part] = Again(pools[p][part], target')
    <3>1. \/ Applied(p, read) = MoeApplied(p, read)
          \/ Applied(p, read) = PairApplied(p)
          \/ Applied(p, read) = AgniApplied(p)
      BY Zenon DEF Applied
    <3>2. \/ MoeApplied(p, read)[part] = ContentAt(p, target')
          \/ MoeApplied(p, read)[part] = Again(pools[p][part], target')
      BY DEF MoeApplied, ReadAgain
    <3>3. PairApplied(p)[part] = ContentAt(p, target')
      BY DEF PairApplied, Told, ExactAt
    <3>4. AgniApplied(p)[part] = Again(pools[p][part], target')
      BY DEF AgniApplied, Appended
    <3>5. QED BY <3>1, <3>2, <3>3, <3>4
  <2>5. QED BY <2>1, <2>2, <2>3, <2>4
<1>6. ASSUME NEW p \in Pools, NEW part \in Parts, NEW k \in 1..MaxBlocks
      PROVE  CountedIn(pools[p][part], p, k)'
  <2>1. /\ pools[p][part] \in [1..MaxBlocks -> Nat] /\ pools[p][part][k] \in Nat
        /\ CountedIn(pools[p][part], p, k)
    BY DEF CopiesInv
  <2>2. CASE pools'[p][part] = pools[p][part]
    BY <1>1, <1>2, <1>4, <2>1, <2>2 DEF CountedIn
  <2>3. CASE pools'[p][part] = ContentAt(p, target')
    BY <1>1, <1>2, <1>4, <2>3, ContentIs DEF CountedIn
  <2>4. CASE pools'[p][part] = Again(pools[p][part], target') /\ p \in changed'
    <3>1. pools'[p][part][k] = IF k = target' THEN pools[p][part][k] + 1 ELSE pools[p][part][k]
      BY <2>1, <2>4, AgainIs
    <3>2. CASE k # target'
      BY <1>1, <1>2, <1>4, <2>1, <3>1, <3>2 DEF CountedIn
    <3>3. CASE k = target'
      <4>1. k = latest_block => target = 0 /\ pools[p][part][k] <= 1
        BY <1>2, <1>4, <2>1, <3>3 DEF CopiesInv, CountedIn
      <4>2. k # latest_block => pools[p][part][k] = 0
        BY <1>2, <1>4, <2>1, <3>3 DEF CountedIn
      <4>3. p \in blocks[k]
        BY <1>3, <2>4, <3>3
      <4>4. QED BY <1>1, <1>2, <1>4, <2>1, <3>1, <3>3, <4>1, <4>2, <4>3 DEF CountedIn
    <3>4. QED BY <3>2, <3>3
  <2>5. QED BY <1>5, <2>2, <2>3, <2>4
<1>7. ReadInv'
  <2>1. ASSUME service \in {"moe", "v2"}, NEW p \in changed' \ unread',
               NEW part \in {"slot", "bins"}
        PROVE  pools'[p][part] = ContentAt(p, target)'
    <3>1. read = {"slot", "bins"} /\ part \in Parts
      BY <1>1, <2>1 DEF Parts
    <3>2. Applied(p, read) = IF service = "moe" THEN MoeApplied(p, read) ELSE PairApplied(p)
      BY <2>1, Zenon DEF Applied
    <3>3. MoeApplied(p, read)[part] = ContentAt(p, target')
      BY <3>1 DEF MoeApplied, ReadAgain, ReadParts
    <3>4. PairApplied(p)[part] = ContentAt(p, target')
      BY <3>1 DEF PairApplied, Told, ExactAt
    <3>5. ContentAt(p, target)' = ContentAt(p, target')
      BY <1>1 DEF ContentAt
    <3>6. pools'[p] = Applied(p, read)
      BY <1>1, <1>3
    <3>7. QED BY <3>2, <3>3, <3>4, <3>5, <3>6
  <2>2. QED BY <1>1, <1>3, <2>1 DEF ReadInv
<1>8. \A p \in Pools, part \in Parts : pools'[p][part] \in [1..MaxBlocks -> Nat]
  BY <1>5
<1>9. latest_block' \in 1..Len(blocks') /\ latest_block' <= target'
  BY <1>1, <1>4 DEF CopiesInv
<1>10. pc' \notin {"init", "down"}
  BY <1>1
<1>11. QED BY <1>1, <1>2, <1>4, <1>6, <1>7, <1>8, <1>9, <1>10 DEF CopiesInv

\* A block that is lost is not shown, and counts as taken.
LEMMA CopiesLost ==
    ASSUME FeedInv, CopiesInv, LoseBlock
    PROVE  CopiesInv'
<1>1. /\ UNCHANGED <<service, latest_block, blocks, pools, changed, unread>>
      /\ heads # <<>> /\ target' = Head(heads) - 1 /\ heads' = Tail(heads)
      /\ pc = "head" /\ pc' = "head"
  BY DEF LoseBlock, startVars
<1>2. target' \in 1..Len(blocks) /\ target' > target /\ FeedInv'
  BY <1>1, HeadFeed
<1>3. /\ heads \in Seq(Nat) /\ Head(heads) = heads[1] /\ 1 \in 1..Len(heads)
      /\ \A i \in 1..Len(Tail(heads)) : i + 1 \in 1..Len(heads) /\ Tail(heads)[i] = heads[i + 1]
      /\ heads[1] \in Nat /\ target \in Nat /\ target' \in Nat
  BY <1>1, <1>2 DEF FeedInv
<1>4. /\ latest_block \in Nat /\ latest_block <= target'
      /\ \A i \in 1..Len(heads') : latest_block' < heads'[i]
  BY <1>1, <1>3 DEF CopiesInv
<1>5. ASSUME NEW p \in Pools, NEW part \in Parts, NEW k \in 1..MaxBlocks
      PROVE  CountedIn(pools[p][part], p, k)'
  <2>1. pools[p][part][k] \in Nat /\ CountedIn(pools[p][part], p, k)
    BY DEF CopiesInv
  <2>2. QED BY <1>1, <1>2, <1>3, <1>4, <2>1 DEF CountedIn
<1>6. ReadInv'
  BY <1>1 DEF CopiesInv, ReadInv
<1>7. QED BY <1>1, <1>3, <1>4, <1>5, <1>6 DEF CopiesInv

\* What a process that starts has read is the chain's, with bins or without.
LEMMA CopiesRead ==
    ASSUME FeedInv, CopiesInv, NEW known, NEW read, NEW index, Reset(known, read, index),
           blocks' = blocks, service' = service, pc' \in {"init", "down"}
    PROVE  CopiesInv'
<1> DEFINE n == Len(blocks)
<1>1. /\ latest_block' = n /\ heads' = <<>> /\ target' = 0 /\ changed' = {} /\ unread' = {}
      /\ pools' = [p \in Pools |-> FirstRead(p, n, read)]
      /\ n \in Nat /\ n \in 1..n
  BY DEF Reset, FeedInv
<1>2. ASSUME NEW p \in Pools, NEW part \in Parts
      PROVE  pools'[p][part] \in {ContentAt(p, n), Nothing}
  BY <1>1 DEF FirstRead
<1>3. ASSUME NEW p \in Pools, NEW part \in Parts
      PROVE  pools'[p][part] \in [1..MaxBlocks -> Nat]
  BY <1>2 DEF ContentAt, Nothing
<1>4. ASSUME NEW p \in Pools, NEW part \in Parts, NEW k \in 1..MaxBlocks
      PROVE  CountedIn(pools[p][part], p, k)' /\ pools'[p][part][k] <= 1
  <2>1. pools'[p][part][k] \in {0, 1} /\ (pools'[p][part][k] = 1 => k <= n /\ p \in blocks[k])
    BY <1>1, <1>2, FirstIs
  <2>2. QED BY <1>1, <2>1 DEF CountedIn
<1>5. ReadInv'
  BY <1>1 DEF ReadInv
<1>6. QED BY <1>1, <1>3, <1>4, <1>5 DEF CopiesInv

LEMMA CopiesStep ==
    ASSUME FeedInv, CopiesInv, [Next]_vars
    PROVE  CopiesInv'
<1>1. ASSUME NEW S \in Activity, Mine(S) PROVE CopiesInv'
  BY <1>1, CopiesMined
<1>2. ASSUME NEW skipped, NEW read, TakeBlock(skipped, read) PROVE CopiesInv'
  BY <1>2, CopiesTaken
<1>3. CASE LoseBlock
  BY <1>3, CopiesLost
<1>4. CASE \/ \E ranking \in Outcomes : Choose(ranking)
           \/ IsFailed \/ IsNotFailed \/ SendJob \/ TradeInline \/ TradedInline
  <2>1. /\ UNCHANGED <<service, latest_block, blocks, heads, target, pools>>
        /\ pc' \notin {"price", "init", "down"}
        /\ changed' = changed \/ changed' = {}
    BY <1>4, DispatchFrame
  <2>2. \A p \in Pools, part \in Parts, k \in 1..MaxBlocks :
            CountedIn(pools[p][part], p, k)' = CountedIn(pools[p][part], p, k)
    BY <2>1 DEF CountedIn
  <2>3. ReadInv'
    BY <2>1 DEF CopiesInv, ReadInv
  <2>4. QED BY <2>1, <2>2, <2>3 DEF CopiesInv
<1>5. CASE Worker
  BY <1>5, WorkerFrame, CopiesKept
<1>6. CASE Crash \/ Exit \/ Restart
  BY <1>6, CopiesRead DEF Crash, Exit, Restart
<1>7. CASE Subscribe \/ StreamEnds \/ RestartFails \/ UNCHANGED vars
  BY <1>7, CopiesKept DEF Subscribe, StreamEnds, RestartFails, vars, startVars, feedVars, poolVars
<1>8. QED BY <1>1, <1>2, <1>3, <1>4, <1>5, <1>6, <1>7 DEF Next, Loop
-----------------------------------------------------------------------------
(* Attempts, jobs and open candidates of a path.                            *)

LEMMA JobsFinite ==
    ASSUME NEW q, q \in Seq(Jobs), NEW p
    PROVE  /\ IsFiniteSet(JobsFor(q, p)) /\ Cardinality(JobsFor(q, p)) \in Nat
           /\ JobsFor(q, p) \subseteq 1..Len(q)
<1>1. Len(q) \in Nat /\ 1 \in Int /\ Len(q) \in Int
  OBVIOUS
<1>2. IsFiniteSet(1..Len(q))
  BY <1>1, FS_Interval
<1>3. JobsFor(q, p) \subseteq 1..Len(q)
  BY DEF JobsFor
<1>4. QED BY <1>2, <1>3, FS_Subset, FS_CardinalityType

LEMMA JobsNone ==
    ASSUME NEW q, q = <<>>, NEW p
    PROVE  Cardinality(JobsFor(q, p)) = 0
<1>1. JobsFor(q, p) = {}
  BY DEF JobsFor
<1>2. QED BY <1>1, FS_EmptySet

LEMMA JobsAppend ==
    ASSUME NEW q, q \in Seq(Jobs), NEW j \in Jobs, NEW p
    PROVE  Cardinality(JobsFor(Append(q, j), p)) =
           Cardinality(JobsFor(q, p)) + (IF j.path = p THEN 1 ELSE 0)
<1> DEFINE r == Append(q, j)
           n == Len(q) + 1
<1>1. /\ Len(r) = n /\ n \in Nat /\ n \notin 1..Len(q) /\ r[n] = j
      /\ \A i \in 1..Len(q) : r[i] = q[i]
  OBVIOUS
<1>2. \A i : i \in 1..Len(r) <=> i \in 1..Len(q) \/ i = n
  BY <1>1
<1> HIDE DEF r, n
<1>3. CASE j.path = p
  <2>1. JobsFor(r, p) = JobsFor(q, p) \cup {n}
    BY <1>1, <1>2, <1>3 DEF JobsFor
  <2>2. n \notin JobsFor(q, p)
    BY <1>1 DEF JobsFor
  <2>3. QED BY <1>3, <2>1, <2>2, JobsFinite, FS_AddElement DEF r
<1>4. CASE j.path # p
  <2>1. JobsFor(r, p) = JobsFor(q, p)
    BY <1>1, <1>2, <1>4 DEF JobsFor
  <2>2. QED BY <1>4, <2>1, JobsFinite DEF r
<1>5. QED BY <1>3, <1>4

LEMMA JobsTail ==
    ASSUME NEW q, q \in Seq(Jobs), q # <<>>, NEW p
    PROVE  Cardinality(JobsFor(q, p)) =
           Cardinality(JobsFor(Tail(q), p)) + (IF Head(q).path = p THEN 1 ELSE 0)
<1> DEFINE r == Tail(q)
           A == JobsFor(r, p)
           B == JobsFor(q, p) \ {1}
           f == [i \in A |-> i + 1]
<1>1. /\ r \in Seq(Jobs) /\ Len(q) \in Nat /\ Len(q) >= 1 /\ Len(r) = Len(q) - 1
      /\ \A i \in 1..Len(r) : r[i] = q[i + 1]
      /\ Head(q) = q[1]
  OBVIOUS
<1> HIDE DEF r
<1>2. f \in Bijection(A, B)
  <2>1. \A i \in A : i + 1 \in B
    BY <1>1 DEF JobsFor
  <2>2. \A i, k \in A : i + 1 = k + 1 => i = k
    BY DEF JobsFor
  <2>3. ASSUME NEW b \in B PROVE \E i \in A : i + 1 = b
    <3>1. b \in 1..Len(q) /\ b # 1 /\ q[b].path = p
      BY DEF JobsFor
    <3>2. b - 1 \in 1..Len(r) /\ (b - 1) + 1 = b
      BY <1>1, <3>1
    <3>3. b - 1 \in A
      BY <1>1, <3>1, <3>2 DEF JobsFor
    <3>4. QED BY <3>2, <3>3
  <2> HIDE DEF A, B
  <2>4. QED BY <2>1, <2>2, <2>3 DEF Bijection, Injection, Surjection, IsInjective
<1>3. IsFiniteSet(A) /\ IsFiniteSet(JobsFor(q, p))
  BY <1>1, JobsFinite
<1>4. Cardinality(B) = Cardinality(A)
  <2>1. ExistsBijection(A, B)
    BY <1>2 DEF ExistsBijection
  <2> HIDE DEF A, B
  <2>2. QED BY <1>3, <2>1, FS_Bijection
<1>5. Cardinality(JobsFor(q, p)) \in Nat /\ Cardinality(A) \in Nat
  BY <1>1, JobsFinite
<1>6. CASE Head(q).path = p
  <2>1. 1 \in JobsFor(q, p)
    BY <1>1, <1>6 DEF JobsFor
  <2>2. Cardinality(B) = Cardinality(JobsFor(q, p)) - 1
    BY <1>3, <2>1, FS_RemoveElement
  <2> HIDE DEF A, B
  <2>3. QED BY <1>4, <1>5, <1>6, <2>2 DEF A, r
<1>7. CASE Head(q).path # p
  <2>1. 1 \notin JobsFor(q, p)
    BY <1>1, <1>7 DEF JobsFor
  <2>2. B = JobsFor(q, p)
    BY <2>1
  <2> HIDE DEF A, B
  <2>3. QED BY <1>4, <1>5, <1>7, <2>2 DEF A, r
<1>8. QED BY <1>6, <1>7

\* No two selected candidates are of one path: they would share its pools.
LEMMA PathsDiffer ==
    ASSUME ChoiceInv, NEW i \in 1..Len(selected), NEW j \in 1..Len(selected), i # j
    PROVE  selected[i].path # selected[j].path
<1>1. selected \in Seq(Opportunities) /\ ~SharesPool(selected[i], selected[j], PoolsIn)
  BY SelectedIs DEF ChoiceInv, Greedily
<1>2. selected[i] \in Opportunities /\ selected[j] \in Opportunities
  BY <1>1
<1>3. PoolsOf[selected[i].path] # {}
  BY <1>2, ConstantsAre DEF Opportunities
<1>4. PoolsOf[selected[i].path] \cap PoolsOf[selected[j].path] = {}
  BY <1>1, <1>2 DEF SharesPool, PoolsIn
<1>5. QED BY <1>3, <1>4

LEMMA OpenIs == \A p : OpenFor(p) \in {0, 1}
BY DEF OpenFor

LEMMA NoneOpen ==
    ASSUME ChoiceInv, ~Dispatching
    PROVE  \A p : OpenFor(p) = 0
<1>1. selected = <<>>
  BY SelectFromNone DEF ChoiceInv
<1>2. Open = {}
  BY <1>1 DEF Open
<1>3. QED BY <1>2 DEF OpenFor

\* The candidate at hand is the only one of its path.
LEMMA CandidateOpen ==
    ASSUME FeedInv, ChoiceInv, Dispatching
    PROVE  /\ pc # "trading" => OpenFor(Candidate.path) = 1
           /\ \A i \in Open \ {next} : selected[i].path # Candidate.path
<1>1. next \in 1..Len(selected)
  BY CandidateIs
<1>2. pc # "trading" => next \in Open
  BY <1>1 DEF Open
<1>3. pc # "trading" => OpenFor(Candidate.path) = 1
  BY <1>2 DEF OpenFor, Candidate
<1>4. \A i \in Open \ {next} : i \in 1..Len(selected)
  BY DEF Open
<1>5. \A i \in Open \ {next} : selected[i].path # selected[next].path
  BY <1>1, <1>4, PathsDiffer
<1>6. QED BY <1>3, <1>5 DEF Candidate

LEMMA DispatchedOpen ==
    ASSUME FeedInv, ChoiceInv, Dispatching, Dispatched
    PROVE  \A p : /\ OpenFor(p)' <= OpenFor(p)
                  /\ p = Candidate.path => OpenFor(p)' = 0
<1>1. next \in 1..Len(selected) /\ selected \in Seq(Opportunities) /\ next \in Nat
  BY CandidateIs, SelectedIs DEF ChoiceInv
<1>2. Open' \subseteq Open \ {next} /\ \A i \in Open' : selected'[i] = selected[i]
  <2>1. CASE next < Len(selected)
    <3>1. selected' = selected /\ next' = next + 1 /\ pc' = "dispatch"
      BY <2>1 DEF Dispatched
    <3>2. QED BY <1>1, <3>1 DEF Open
  <2>2. CASE ~(next < Len(selected))
    <3>1. selected' = <<>>
      BY <2>2 DEF Dispatched, Done
    <3>2. Open' = {}
      BY <3>1 DEF Open
    <3>3. QED BY <3>2
  <2>3. QED BY <2>1, <2>2
<1>3. \A p : OpenFor(p)' = 1 => OpenFor(p) = 1
  BY <1>2 DEF OpenFor
<1>4. \A p : p = Candidate.path => OpenFor(p)' = 0
  BY <1>2, CandidateOpen DEF OpenFor
<1>5. \A p : OpenFor(p)' \in {0, 1} /\ OpenFor(p) \in {0, 1}
  BY DEF OpenFor
<1>6. QED BY <1>3, <1>4, <1>5

LEMMA TallyIs ==
    ASSUME WorkInv, attempts \in [Paths -> Nat]
    PROVE  \A p \in Paths :
              /\ attempts[p] \in Nat /\ Cardinality(JobsFor(queue, p)) \in Nat
              /\ OpenFor(p) \in {0, 1} /\ Tally(p) \in Nat
<1>1. queue \in Seq(Jobs)
  BY DEF WorkInv
<1>2. ASSUME NEW p \in Paths
      PROVE  /\ attempts[p] \in Nat /\ Cardinality(JobsFor(queue, p)) \in Nat
             /\ OpenFor(p) \in {0, 1}
  BY <1>1, JobsFinite, OpenIs
<1>3. QED BY <1>2 DEF Tally

LEMMA TallyKept ==
    ASSUME CountsInv, WorkInv, WorkInv', AttemptsInv, attempts' \in [Paths -> Nat],
           appearances' = appearances, \A p \in Paths : Tally(p)' <= Tally(p)
    PROVE  AttemptsInv'
<1>1. \A p \in Paths : Tally(p) \in Nat
  BY TallyIs DEF AttemptsInv
<1>2. \A p \in Paths : Tally(p)' \in Nat
  <2>1. queue' \in Seq(Jobs)
    BY DEF WorkInv
  <2>2. ASSUME NEW p \in Paths
        PROVE  /\ attempts'[p] \in Nat /\ Cardinality(JobsFor(queue', p)) \in Nat
               /\ OpenFor(p)' \in {0, 1}
    BY <2>1, JobsFinite DEF OpenFor
  <2>3. ASSUME NEW p \in Paths PROVE Tally(p)' \in Nat
    <3>1. Tally(p)' = attempts'[p] + Cardinality(JobsFor(queue', p)) + OpenFor(p)'
      BY DEF Tally, JobsFor
    <3>2. QED BY <2>2, <3>1
  <2>4. QED BY <2>3
<1>3. MAX_APPEARANCES \in Nat /\ \A p \in Paths : appearances[p].count \in Nat
  BY ConstantsAre DEF CountsInv
<1>4. QED BY <1>1, <1>2, <1>3 DEF AttemptsInv

\* A step that begins no attempt, queues no job and opens no candidate.
LEMMA AttemptsKept ==
    ASSUME CountsInv, WorkInv, WorkInv', AttemptsInv,
           UNCHANGED <<attempts, queue, appearances>>,
           \A p : OpenFor(p)' <= OpenFor(p)
    PROVE  AttemptsInv'
<1>1. ASSUME NEW p \in Paths PROVE Tally(p)' <= Tally(p)
  <2>1. attempts[p] \in Nat /\ Cardinality(JobsFor(queue, p)) \in Nat
    BY TallyIs DEF AttemptsInv
  <2>2. JobsFor(queue, p)' = JobsFor(queue, p)
    BY DEF JobsFor
  <2>3. OpenFor(p) \in {0, 1} /\ OpenFor(p)' \in {0, 1} /\ OpenFor(p)' <= OpenFor(p)
    BY DEF OpenFor
  <2>4. Tally(p)' = attempts[p] + Cardinality(JobsFor(queue, p)) + OpenFor(p)'
    BY <2>2 DEF Tally
  <2>5. QED BY <2>1, <2>3, <2>4 DEF Tally
<1>2. QED BY <1>1, TallyKept DEF AttemptsInv

LEMMA ChooseAttempts ==
    ASSUME FeedInv, CountsInv, ChoiceInv, WorkInv, ChoiceInv', WorkInv', AttemptsInv,
           NEW ranking \in Outcomes, Choose(ranking)
    PROVE  AttemptsInv'
<1> DEFINE passed == FilterAndUpdate(ranking)
           seen == {ranking[i].path : i \in DOMAIN ranking}
<1>1. /\ attempts' = attempts /\ queue' = queue /\ pc = "price" /\ target' = target
      /\ appearances' = [p \in Paths |-> IF p \in seen THEN Counted(p) ELSE appearances[p]]
  BY DEF Choose, historyVars
<1>2. /\ passed \in Seq(Opportunities) /\ ranking \in Seq(Opportunities)
      /\ \A j \in 1..Len(passed) : /\ Counted(passed[j].path).count <= MAX_APPEARANCES
                                   /\ \E k \in 1..Len(ranking) : passed[j] = ranking[k]
  BY FilterAndUpdateIs, ConstantsAre
<1>3. \A p : OpenFor(p) = 0
  BY <1>1, NoneOpen DEF Dispatching
<1>4. /\ target \in Nat
      /\ \A p \in Paths : /\ appearances[p].block < target /\ appearances[p].block \in Nat
                          /\ appearances[p].count \in Nat
  BY <1>1 DEF CountsInv, FeedInv
<1>5. \A p \in Paths : Counted(p).count = appearances[p].count + 1
  BY <1>4 DEF Counted
<1>6. ASSUME NEW p \in Paths, OpenFor(p)' = 1
      PROVE  /\ appearances'[p].count = appearances[p].count + 1
             /\ appearances'[p].count <= MAX_APPEARANCES
  <2>1. PICK i \in Open' : selected'[i].path = p
    BY <1>6 DEF OpenFor
  <2>2. selected' = SelectFrom(passed, PoolsIn)
    <3>1. passed # <<>>
      <4>1. ASSUME passed = <<>> PROVE FALSE
        <5>1. selected' = <<>>
          BY <4>1 DEF Choose, Done
        <5>2. QED BY <2>1, <5>1 DEF Open
      <4>2. QED BY <4>1
    <3>2. QED BY <3>1 DEF Choose
  <2> HIDE DEF passed, seen
  <2>3. i \in 1..Len(selected')
    BY <2>1 DEF Open
  <2>4. PICK k \in 1..Len(passed) : selected'[i] = passed[k]
    BY <1>2, <2>2, <2>3, SelectedIs DEF Greedily
  <2>5. PICK m \in 1..Len(ranking) : passed[k] = ranking[m]
    BY <1>2
  <2>6. p \in seen
    BY <1>2, <2>1, <2>4, <2>5 DEF seen
  <2>7. Counted(p).count <= MAX_APPEARANCES
    BY <1>2, <2>1, <2>4
  <2>8. appearances'[p] = Counted(p)
    BY <1>1, <2>6
  <2>9. QED BY <1>5, <2>7, <2>8
<1> HIDE DEF seen, passed
<1>7. \A p \in Paths : /\ appearances'[p].count \in Nat
                       /\ appearances[p].count <= appearances'[p].count
  BY <1>1, <1>4, <1>5
<1>8. ASSUME NEW p \in Paths
      PROVE  Tally(p)' <= appearances'[p].count /\ Tally(p)' <= MAX_APPEARANCES
  <2>1. /\ attempts[p] \in Nat /\ Cardinality(JobsFor(queue, p)) \in Nat
        /\ appearances[p].count \in Nat /\ MAX_APPEARANCES \in Nat
    BY <1>4, TallyIs, ConstantsAre DEF AttemptsInv
  <2>2. /\ attempts[p] + Cardinality(JobsFor(queue, p)) <= appearances[p].count
        /\ attempts[p] + Cardinality(JobsFor(queue, p)) <= MAX_APPEARANCES
    BY <1>3, <2>1 DEF AttemptsInv, Tally
  <2>3. JobsFor(queue, p)' = JobsFor(queue, p)
    BY <1>1 DEF JobsFor
  <2>4. Tally(p)' = attempts[p] + Cardinality(JobsFor(queue, p)) + OpenFor(p)'
    BY <1>1, <2>3 DEF Tally
  <2>5. OpenFor(p)' \in {0, 1}
    BY DEF OpenFor
  <2>6. CASE OpenFor(p)' = 0
    BY <1>7, <2>1, <2>2, <2>4, <2>6
  <2>7. CASE OpenFor(p)' = 1
    BY <1>6, <2>1, <2>2, <2>4, <2>7
  <2>8. QED BY <2>5, <2>6, <2>7
<1>9. QED BY <1>1, <1>8 DEF AttemptsInv

\* The candidate becomes a job.
LEMMA SendAttempts ==
    ASSUME FeedInv, CountsInv, ChoiceInv, WorkInv, WorkInv', AttemptsInv, SendJob
    PROVE  AttemptsInv'
<1> DEFINE c == Candidate
<1>1. /\ attempts' = attempts /\ queue' = Append(queue, JobOf(c)) /\ Dispatched
      /\ appearances' = appearances /\ Dispatching /\ pc = "send" /\ queue \in Seq(Jobs)
  BY DEF SendJob, historyVars, Dispatching, WorkInv
<1>2. JobOf(c) \in Jobs /\ JobOf(c).path = c.path
  BY <1>1, CandidateIs DEF JobOf
<1>3. ASSUME NEW p \in Paths PROVE Tally(p)' <= Tally(p)
  <2>1. /\ attempts[p] \in Nat /\ Cardinality(JobsFor(queue, p)) \in Nat
        /\ OpenFor(p) \in {0, 1}
    BY TallyIs DEF AttemptsInv
  <2>2. OpenFor(p)' \in {0, 1}
    BY DEF OpenFor
  <2>3. /\ OpenFor(p)' <= OpenFor(p)
        /\ p = c.path => OpenFor(p)' = 0 /\ OpenFor(p) = 1
    BY <1>1, DispatchedOpen, CandidateOpen
  <2>4. Cardinality(JobsFor(queue', p)) =
        Cardinality(JobsFor(queue, p)) + (IF c.path = p THEN 1 ELSE 0)
    BY <1>1, <1>2, JobsAppend
  <2>5. Tally(p)' = attempts[p] + Cardinality(JobsFor(queue', p)) + OpenFor(p)'
    BY <1>1 DEF Tally, JobsFor
  <2> HIDE DEF c
  <2>6. QED BY <2>1, <2>2, <2>3, <2>4, <2>5 DEF Tally
<1>4. QED BY <1>1, <1>3, TallyKept DEF AttemptsInv

\* The candidate is traded.
LEMMA TradeAttempts ==
    ASSUME FeedInv, CountsInv, ChoiceInv, WorkInv, WorkInv', AttemptsInv, TradeInline
    PROVE  AttemptsInv'
<1> DEFINE c == Candidate
<1>1. pc = "trade" /\ Dispatching /\ queue' = queue /\ appearances' = appearances
  BY DEF TradeInline, Dispatching
<1>2. CASE Cooling(JobOf(c))
  <2>1. Dispatched /\ attempts' = attempts
    BY <1>2 DEF TradeInline
  <2>2. QED BY <1>1, <2>1, DispatchedOpen, AttemptsKept
<1>3. CASE ~Cooling(JobOf(c))
  <2>1. /\ attempts' = [attempts EXCEPT ![c.path] = @ + 1] /\ pc' = "trading"
        /\ selected' = selected /\ next' = next
    BY <1>3 DEF TradeInline
  <2>2. Open' = Open \ {next}
    BY <1>1, <2>1 DEF Open
  <2>3. attempts \in [Paths -> Nat] /\ c.path \in Paths
    BY <1>1, CandidateIs DEF AttemptsInv, Opportunities
  <2>4. ASSUME NEW p \in Paths PROVE Tally(p)' <= Tally(p)
    <3>1. /\ attempts[p] \in Nat /\ Cardinality(JobsFor(queue, p)) \in Nat
          /\ OpenFor(p) \in {0, 1}
      BY TallyIs DEF AttemptsInv
    <3>2. OpenFor(p)' <= OpenFor(p) /\ OpenFor(p)' \in {0, 1}
      BY <2>1, <2>2 DEF OpenFor
    <3>3. p = c.path => OpenFor(p) = 1 /\ OpenFor(p)' = 0
      <4>1. p = c.path => OpenFor(p) = 1
        BY <1>1, CandidateOpen
      <4>2. p = c.path => ~\E i \in Open' : selected'[i].path = p
        BY <1>1, <2>1, <2>2, CandidateOpen
      <4>3. QED BY <4>1, <4>2 DEF OpenFor
    <3> HIDE DEF c
    <3>4. attempts'[p] = IF p = c.path THEN attempts[p] + 1 ELSE attempts[p]
      BY <2>1, <2>3
    <3>5. JobsFor(queue, p)' = JobsFor(queue, p)
      BY <1>1 DEF JobsFor
    <3>6. Tally(p)' = attempts'[p] + Cardinality(JobsFor(queue, p)) + OpenFor(p)'
      BY <3>5 DEF Tally
    <3>7. QED BY <3>1, <3>2, <3>3, <3>4, <3>6 DEF Tally
  <2>5. attempts' \in [Paths -> Nat]
    <3> HIDE DEF c
    <3>1. QED BY <2>1, <2>3
  <2>6. QED BY <1>1, <2>4, <2>5, TallyKept
<1>4. QED BY <1>2, <1>3

\* The first job leaves the queue and may become an attempt.
LEMMA ReceiveAttempts ==
    ASSUME CountsInv, WorkInv, WorkInv', AttemptsInv, Receive
    PROVE  AttemptsInv'
<1> DEFINE j == Head(queue)
<1>1. /\ queue \in Seq(Jobs) /\ queue # <<>> /\ queue' = Tail(queue)
      /\ UNCHANGED <<appearances, selected, next, pc>>
      /\ j.path \in Paths
      /\ attempts \in [Paths -> Nat]
  BY HeadOfQueue DEF Receive, WorkInv, choiceVars, Jobs, AttemptsInv
<1>2. attempts' = attempts \/ attempts' = [attempts EXCEPT ![j.path] = @ + 1]
  BY DEF Receive
<1> HIDE DEF j
<1>3. ASSUME NEW p \in Paths PROVE Tally(p)' <= Tally(p)
  <2>1. attempts[p] \in Nat /\ OpenFor(p) \in {0, 1} /\ Cardinality(JobsFor(queue, p)) \in Nat
    BY TallyIs DEF AttemptsInv
  <2>2. OpenFor(p)' = OpenFor(p)
    BY <1>1 DEF OpenFor, Open
  <2>3. Cardinality(JobsFor(queue, p)) =
        Cardinality(JobsFor(queue', p)) + (IF j.path = p THEN 1 ELSE 0)
    BY <1>1, JobsTail DEF j
  <2>4. Cardinality(JobsFor(queue', p)) \in Nat
    BY JobsFinite DEF WorkInv
  <2>5. attempts'[p] <= attempts[p] + (IF j.path = p THEN 1 ELSE 0) /\ attempts'[p] \in Nat
    BY <1>1, <1>2
  <2>6. Tally(p)' = attempts'[p] + Cardinality(JobsFor(queue', p)) + OpenFor(p)
    BY <2>2 DEF Tally, JobsFor
  <2>7. QED BY <2>1, <2>3, <2>4, <2>5, <2>6 DEF Tally
<1>4. attempts' \in [Paths -> Nat]
  BY <1>1, <1>2
<1>5. QED BY <1>1, <1>3, <1>4, TallyKept

\* Nothing is open, queued or attempted when a process starts.
LEMMA NothingTallied ==
    ASSUME selected = <<>>, queue = <<>>, attempts = [p \in Paths |-> 0],
           appearances = [p \in Paths |-> [block |-> 0, count |-> 0]]
    PROVE  AttemptsInv
<1>1. Open = {}
  BY DEF Open
<1>2. \A p : OpenFor(p) = 0
  BY <1>1 DEF OpenFor
<1>3. \A p \in Paths : Tally(p) = 0
  BY <1>2, JobsNone DEF Tally
<1>4. QED BY <1>3, ConstantsAre DEF AttemptsInv

LEMMA ResetAttempts ==
    ASSUME Crash \/ Exit \/ Restart
    PROVE  AttemptsInv'
<1>1. /\ selected' = <<>> /\ queue' = <<>> /\ attempts' = [p \in Paths |-> 0]
      /\ appearances' = [p \in Paths |-> [block |-> 0, count |-> 0]]
  BY ResetFrame
<1>2. Open' = {}
  BY <1>1 DEF Open
<1>3. \A p : OpenFor(p)' = 0
  BY <1>2 DEF OpenFor
<1>4. ASSUME NEW p \in Paths PROVE Tally(p)' = 0
  <2>1. Cardinality(JobsFor(queue', p)) = 0
    BY <1>1, JobsNone
  <2>2. QED BY <1>1, <1>3, <2>1 DEF Tally, JobsFor
<1>5. QED BY <1>1, <1>4, ConstantsAre DEF AttemptsInv

LEMMA AttemptsStep ==
    ASSUME FeedInv, CountsInv, ChoiceInv, WorkInv, ChoiceInv', WorkInv', AttemptsInv,
           [Next]_vars
    PROVE  AttemptsInv'
<1> DEFINE Quiet == /\ UNCHANGED <<attempts, queue, appearances, selected, next>>
                    /\ pc = "trading" => pc' = "trading"
<1>1. CASE Quiet
  <2>1. Open' \subseteq Open
    BY <1>1 DEF Open
  <2>2. \A p : OpenFor(p)' <= OpenFor(p)
    BY <1>1, <2>1 DEF OpenFor
  <2>3. QED BY <1>1, <2>2, AttemptsKept
<1>2. ASSUME NEW ranking \in Outcomes, Choose(ranking) PROVE AttemptsInv'
  BY <1>2, ChooseAttempts
<1>3. CASE IsFailed \/ TradedInline
  <2>1. Dispatching /\ Dispatched /\ UNCHANGED <<attempts, queue, appearances>>
    BY <1>3 DEF IsFailed, TradedInline, Dispatching, historyVars
  <2>2. QED BY <2>1, DispatchedOpen, AttemptsKept
<1>4. CASE SendJob
  BY <1>4, SendAttempts
<1>5. CASE TradeInline
  BY <1>5, TradeAttempts
<1>6. CASE Receive
  BY <1>6, ReceiveAttempts
<1>7. CASE Refuse \/ TryFails \/ WatchHangs \/ Watched \/ MarkAsFailed \/ Write
  BY <1>1, <1>7 DEF Refuse, TryFails, WatchHangs, Watched, MarkAsFailed, Write, Step, choiceVars,
                    historyVars
<1>8. CASE Crash \/ Exit \/ Restart
  BY <1>8, ResetAttempts
<1>9. CASE IsNotFailed
  BY <1>1, <1>9 DEF IsNotFailed, choiceVars, historyVars
<1>10. ASSUME NEW skipped, NEW read, TakeBlock(skipped, read) PROVE AttemptsInv'
  BY <1>1, <1>10 DEF TakeBlock, choiceVars, historyVars
<1>11. CASE \/ \E S \in Activity : Mine(S)
            \/ LoseBlock \/ Subscribe \/ StreamEnds \/ RestartFails \/ UNCHANGED vars
  BY <1>1, <1>11 DEF Mine, LoseBlock, Subscribe, StreamEnds, RestartFails, vars, choiceVars,
                     historyVars
<1>12. QED BY <1>2, <1>3, <1>4, <1>5, <1>6, <1>7, <1>8, <1>9, <1>10, <1>11
           DEF Next, Loop, Worker
-----------------------------------------------------------------------------
(* The invariant and the theorems.                                          *)

LEMMA InitInvariant == Init => IInv
<1> SUFFICES ASSUME Init PROVE IInv
  OBVIOUS
<1>1. pc = "init" /\ wpc = "idle" /\ ~Dispatching /\ ~Running
  BY DEF Init, Dispatching, Running
<1>2. FeedInv
  <2>1. /\ blocks \in [1..1 -> Activity] /\ Activity \subseteq SUBSET Pools
        /\ heads = <<>> /\ target = 0
    BY ConstantsAre DEF Init
  <2>2. blocks \in Seq(SUBSET Pools) /\ Len(blocks) = 1
    <3>1. blocks \in [1..1 -> SUBSET Pools] /\ 1 \in Nat
      BY <2>1
    <3>2. blocks \in Seq(SUBSET Pools)
      BY <3>1, SeqDef, Zenon
    <3>3. DOMAIN blocks = 1..1
      BY <3>1
    <3>4. Len(blocks) \in Nat /\ DOMAIN blocks = 1..Len(blocks)
      BY <3>2, LenProperties
    <3>5. QED BY <3>2, <3>3, <3>4
  <2>3. QED BY <1>1, <2>1, <2>2 DEF FeedInv
<1>3. CountsInv
  BY <1>1 DEF Init, CountsInv
<1>4. ChoiceInv
  <2>1. found = <<>> /\ selected = <<>> /\ next = 1
    BY DEF Init
  <2>2. QED BY <1>1, <2>1, SelectFromNone DEF ChoiceInv
<1>5. WorkInv
  <2>1. queue = <<>>
    BY DEF Init
  <2>2. QED BY <1>1, <2>1 DEF WorkInv
<1>6. CoolInv /\ CooldownKept
  <2>1. last_executions = [p \in Paths |-> 0] /\ confirmed = {}
    BY DEF Init
  <2>2. QED BY <1>1, <2>1 DEF CoolInv, CooldownKept
<1>7. AttemptsInv
  BY NothingTallied DEF Init
<1>8. StoreInv
  <2>1. failures = {}
    BY DEF Init
  <2>2. QED BY <1>1, <2>1 DEF StoreInv, FailuresSurvive
<1>9. CopiesInv
  <2>1. PICK read \in FirstReads : pools = [p \in Pools |-> FirstRead(p, 1, read)]
    BY DEF Init
  <2>2. /\ changed = {} /\ latest_block = 1 /\ target = 0 /\ heads = <<>>
        /\ latest_block \in 1..Len(blocks)
    BY <1>2 DEF Init, FeedInv
  <2>3. ASSUME NEW p \in Pools, NEW part \in Parts
        PROVE  /\ pools[p][part] \in {ContentAt(p, 1), Nothing}
               /\ pools[p][part] \in [1..MaxBlocks -> Nat]
    BY <2>1 DEF FirstRead, ContentAt, Nothing
  <2>4. ASSUME NEW p \in Pools, NEW part \in Parts, NEW k \in 1..MaxBlocks
        PROVE  CountedIn(pools[p][part], p, k) /\ pools[p][part][k] <= 1
    <3>1. pools[p][part][k] \in {0, 1} /\ (pools[p][part][k] = 1 => k <= 1 /\ p \in blocks[k])
      BY <2>3, FirstIs
    <3>2. QED BY <1>2, <2>2, <3>1 DEF CountedIn, FeedInv
  <2>5. ReadInv
    BY <2>2 DEF ReadInv
  <2>6. QED BY <2>2, <2>3, <2>4, <2>5 DEF CopiesInv
<1>10. QED BY <1>2, <1>3, <1>4, <1>5, <1>6, <1>7, <1>8, <1>9 DEF IInv

LEMMA NextInvariant == IInv /\ [Next]_vars => IInv'
<1> SUFFICES ASSUME IInv, [Next]_vars PROVE IInv'
  OBVIOUS
<1> USE DEF IInv
<1>1. FeedInv' /\ CountsInv'
  BY FeedStep, CountsStep
<1>2. ChoiceInv' /\ WorkInv'
  BY ChoiceStep, WorkStep
<1>3. CoolInv' /\ CooldownKept'
  BY CoolStep, CooldownStep
<1>4. AttemptsInv'
  BY <1>2, AttemptsStep
<1>5. StoreInv' /\ CopiesInv'
  BY StoreStep, CopiesStep
<1>6. QED BY <1>1, <1>2, <1>3, <1>4, <1>5

\* The parts of the invariant hold of every reachable state of the services.
THEOREM Invariant == Spec => []IInv
BY InitInvariant, NextInvariant, PTL DEF Spec

\* Trades of one block are made of disjoint pools, and none is left out but for
\* a better one it shares a pool with (select_non_conflicting_opportunities).
THEOREM SelectsGreedily == Spec => []SelectionIsGreedy
<1>1. IInv => SelectionIsGreedy
  <2> SUFFICES ASSUME IInv, found # <<>> PROVE SelectionIsGreedy
    BY DEF SelectionIsGreedy
  <2>1. /\ found \in Seq(Opportunities) /\ selected = SelectFrom(found, PoolsIn)
        /\ selected \in Seq(Opportunities)
        /\ Greedily(selected, found, Len(found), PoolsIn)
    BY SelectedIs DEF IInv, ChoiceInv
  <2>2. DOMAIN selected = 1..Len(selected) /\ DOMAIN found = 1..Len(found)
    BY <2>1
  <2>3. \A i, j \in DOMAIN selected : i # j => ~SharesPool(selected[i], selected[j], PoolsIn)
    BY <2>1, <2>2 DEF Greedily
  <2>4. \A c : (\E j \in 1..Len(selected) : selected[j] = c) => c \in ToSet(selected)
    BY <2>2 DEF ToSet
  <2>5. ASSUME NEW i \in DOMAIN found
        PROVE  \/ found[i] \in ToSet(selected)
               \/ \E k \in 1..i - 1 : /\ found[k] \in ToSet(selected)
                                      /\ SharesPool(found[k], found[i], PoolsIn)
    <3>1. CASE \E j \in 1..Len(selected) : selected[j] = found[i]
      BY <2>4, <3>1
    <3>2. CASE \E k \in 1..i - 1, j \in 1..Len(selected) :
                  selected[j] = found[k] /\ SharesPool(found[k], found[i], PoolsIn)
      BY <2>4, <3>2
    <3>3. QED BY <2>1, <2>2, <3>1, <3>2 DEF Greedily
  <2>6. QED BY <2>3, <2>5 DEF SelectionIsGreedy
<1>2. QED BY <1>1, Invariant, PTL

\* Confirmed trades of a path are the cooldown apart, however long their jobs
\* waited in the queue (block_cooldown of the worker).
THEOREM KeepsCooldown == Spec => []CooldownKept
<1>1. IInv => CooldownKept
  BY DEF IInv
<1>2. QED BY <1>1, Invariant, PTL

\* A path is traded at most max_appearances times between two starts, whatever
\* is queued when an attempt on it fails (filter_and_update, the queue).
THEOREM BoundsAttempts == Spec => []AttemptsBounded
<1>1. IInv => AttemptsBounded
  <2> SUFFICES ASSUME IInv, NEW p \in Paths PROVE attempts[p] <= MAX_APPEARANCES
    BY DEF AttemptsBounded
  <2>1. /\ attempts[p] \in Nat /\ Cardinality(JobsFor(queue, p)) \in Nat
        /\ OpenFor(p) \in {0, 1}
    BY TallyIs DEF IInv, AttemptsInv
  <2>2. Tally(p) <= MAX_APPEARANCES /\ MAX_APPEARANCES \in Nat
    BY ConstantsAre DEF IInv, AttemptsInv
  <2>3. QED BY <2>1, <2>2 DEF Tally
<1>2. QED BY <1>1, Invariant, PTL

\* A service that is up knows every failure that was ever written, after any
\* number of crashes and restarts (FailedOpportunityStore).
THEOREM KeepsFailures == Spec => []FailuresSurvive
<1>1. IInv => FailuresSurvive
  BY DEF IInv, StoreInv
<1>2. QED BY <1>1, Invariant, PTL

\* No copy shows the logs of a block twice but those of the block it was read
\* at, none shows a block to come, and what the Moe service could read again or
\* a Sync log told is the chain's when it is priced, whatever was lost before
\* (run_service, resync_changed_pools).
THEOREM CountsLogsOnce == Spec => []LogsCountOnce
<1>1. IInv => LogsCountOnce
  <2>1. service \in {"moe", "v2"} => Prices = pools
    BY Zenon DEF Prices, MoePrices, PairPrices
  <2>2. QED BY <2>1 DEF IInv, CopiesInv, CountedIn, ReadInv, LogsCountOnce
<1>2. QED BY <1>1, Invariant, PTL
=============================================================================
