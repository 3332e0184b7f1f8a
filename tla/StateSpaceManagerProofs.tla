----------------------- MODULE StateSpaceManagerProofs -----------------------
(* Proof that the stream of StateSpaceManager, with ArbitrageMonitor's scans *)
(* and handler as its readers, implements ChainView.  As long as nothing was *)
(* missed, replaced or failed, the heads that are announced and not taken    *)
(* are the last blocks of the chain, one after the other, and what the       *)
(* readers are shown is the chain up to the block before them, or before the *)
(* one that is worked on.                                                    *)
EXTENDS ArbitrageMonitor, SequenceTheorems, CommonFacts, TLAPS

-----------------------------------------------------------------------------
(* The pools as of a block.                                                 *)

Mined == [hash : Nat, pools : SUBSET Pools]

\* What block n of the chain c makes of the contents of pool p.
Touch(c, p, h) ==
    [x \in Seq(Nat) \X (1..h) |->
        IF p \in c[x[2]].pools THEN Append(x[1], c[x[2]].hash) ELSE x[1]]

LEMMA ViewComputes ==
    ASSUME NEW c \in Seq(Mined), NEW h \in 0..Len(c), NEW p \in Pools
    PROVE  \E f : /\ Computes(f, Seq(Nat), <<>>, h, Touch(c, p, h))
                  /\ Promise!ViewAt(c, h)[p] = f[h]
<1> DEFINE Is(f) == f = [n \in 0..h |-> IF n = 0 THEN <<>>
                                        ELSE IF p \in c[n].pools
                                        THEN Append(f[n - 1], c[n].hash)
                                        ELSE f[n - 1]]
           g == CHOOSE f : Is(f)
           step == Touch(c, p, h)
<1>1. h \in Nat /\ \A n \in 1..h : c[n].hash \in Nat
  <2>1. \A n \in 1..h : c[n] \in Mined
    OBVIOUS
  <2>2. QED BY <2>1 DEF Mined
<1>2. step \in [Seq(Nat) \X (1..h) -> Seq(Nat)]
  <2>1. \A s \in Seq(Nat), n \in 1..h :
           (IF p \in c[n].pools THEN Append(s, c[n].hash) ELSE s) \in Seq(Nat)
    BY <1>1
  <2>2. QED BY <2>1 DEF Touch
<1>3. <<>> \in Seq(Nat)
  OBVIOUS
<1>4. PICK f : Computes(f, Seq(Nat), <<>>, h, step)
  <2> HIDE DEF step
  <2>1. QED BY <1>1, <1>2, <1>3, FoldExists
<1>5. \A n \in 1..h : f[n] = IF p \in c[n].pools THEN Append(f[n - 1], c[n].hash) ELSE f[n - 1]
  <2> TAKE n \in 1..h
  <2>1. f[n - 1] \in Seq(Nat)
    BY <1>1, <1>4 DEF Computes
  <2>2. f[n] = step[<<f[n - 1], n>>]
    BY <1>4 DEF Computes
  <2>3. QED BY <2>1, <2>2 DEF Touch
<1>6. Is(f)
  <2>1. \A n \in 0..h : n = 0 \/ n \in 1..h
    BY <1>1
  <2> HIDE DEF step
  <2>2. \A n \in 0..h : f[n] = IF n = 0 THEN <<>>
                               ELSE IF p \in c[n].pools THEN Append(f[n - 1], c[n].hash)
                               ELSE f[n - 1]
    BY <1>4, <1>5, <2>1 DEF Computes
  <2>3. QED BY <1>4, <2>2 DEF Computes
<1>7. Is(g)
  BY <1>6, Zenon
<1>8. Promise!ViewAt(c, h)[p] = g[h]
  BY DEF Promise!ViewAt
<1> HIDE DEF g
<1>9. g = [n \in 0..h |-> g[n]] /\ g[0] = <<>>
  BY <1>1, <1>7
<1>10. ASSUME NEW n \in 1..h, g[n - 1] \in Seq(Nat) PROVE g[n] = step[<<g[n - 1], n>>]
  <2>1. n \in 0..h /\ n # 0
    BY <1>1
  <2>2. g[n] = IF p \in c[n].pools THEN Append(g[n - 1], c[n].hash) ELSE g[n - 1]
    BY <1>7, <2>1, Zenon
  <2>3. QED BY <1>10, <2>2 DEF Touch
<1>11. Computes(g, Seq(Nat), <<>>, h, step)
  <2> HIDE DEF step
  <2>1. QED BY <1>1, <1>2, <1>3, <1>9, <1>10, FoldValues
<1>12. QED BY <1>8, <1>11

\* One block further the contents are those of before and the block's hash.
LEMMA ViewNext ==
    ASSUME NEW c \in Seq(Mined), NEW h \in 0..Len(c) - 1, NEW p \in Pools
    PROVE  /\ Promise!ViewAt(c, h)[p] \in Seq(Nat)
           /\ Promise!ViewAt(c, h + 1)[p] =
                 IF p \in c[h + 1].pools THEN Append(Promise!ViewAt(c, h)[p], c[h + 1].hash)
                 ELSE Promise!ViewAt(c, h)[p]
<1>1. h \in 0..Len(c) /\ h + 1 \in 0..Len(c) /\ h \in Nat /\ h + 1 \in 1..h + 1
      /\ (h + 1) - 1 = h /\ h + 1 \in Nat /\ h \in 0..h
  OBVIOUS
<1>2. PICK f : /\ Computes(f, Seq(Nat), <<>>, h, Touch(c, p, h))
               /\ Promise!ViewAt(c, h)[p] = f[h]
  BY <1>1, ViewComputes
<1>3. PICK g : /\ Computes(g, Seq(Nat), <<>>, h + 1, Touch(c, p, h + 1))
               /\ Promise!ViewAt(c, h + 1)[p] = g[h + 1]
  BY <1>1, ViewComputes
<1>4. \A x \in Seq(Nat), n \in 1..h : Touch(c, p, h)[<<x, n>>] = Touch(c, p, h + 1)[<<x, n>>]
  <2>1. \A n \in 1..h : n \in 1..h + 1
    BY <1>1
  <2>2. QED BY <2>1 DEF Touch
<1>5. f[h] = g[h]
  <2>1. h <= h /\ h <= h + 1
    BY <1>1
  <2> DEFINE s == Touch(c, p, h)
             t == Touch(c, p, h + 1)
             T == Seq(Nat)
             m == h + 1
  <2>2. /\ Computes(f, T, <<>>, h, s) /\ Computes(g, T, <<>>, m, t)
        /\ h \in Nat /\ m \in Nat /\ h <= h /\ h <= m
    BY <1>1, <1>2, <1>3, <2>1
  <2>3. Alike(s, t, T, h)
    BY <1>4 DEF Alike
  <2> HIDE DEF s, t, T, m
  <2>4. \A n \in 0..h : f[n] = g[n]
    BY <2>2, <2>3, FoldsAgree
  <2>5. QED BY <1>1, <2>4
<1>6. f[h] \in Seq(Nat)
  BY <1>1, <1>2 DEF Computes
<1>7. g[h + 1] = Touch(c, p, h + 1)[<<g[h], h + 1>>]
  BY <1>1, <1>3 DEF Computes
<1>8. g[h + 1] = IF p \in c[h + 1].pools THEN Append(g[h], c[h + 1].hash) ELSE g[h]
  BY <1>1, <1>5, <1>6, <1>7 DEF Touch
<1>9. QED BY <1>2, <1>3, <1>5, <1>6, <1>8

\* Later blocks do not matter.
LEMMA ViewKept ==
    ASSUME NEW c \in Seq(Mined), NEW d \in Seq(Mined), NEW h \in 0..Len(c), h <= Len(d),
           \A n \in 1..h : c[n] = d[n]
    PROVE  Promise!ViewAt(c, h) = Promise!ViewAt(d, h)
<1>1. ASSUME NEW p \in Pools PROVE Promise!ViewAt(c, h)[p] = Promise!ViewAt(d, h)[p]
  <2>1. h \in 0..Len(d) /\ h \in Nat /\ h \in 0..h /\ h <= h
    OBVIOUS
  <2>2. PICK f : /\ Computes(f, Seq(Nat), <<>>, h, Touch(c, p, h))
                 /\ Promise!ViewAt(c, h)[p] = f[h]
    BY ViewComputes
  <2>3. PICK g : /\ Computes(g, Seq(Nat), <<>>, h, Touch(d, p, h))
                 /\ Promise!ViewAt(d, h)[p] = g[h]
    BY <2>1, ViewComputes
  <2> DEFINE s == Touch(c, p, h)
             t == Touch(d, p, h)
             T == Seq(Nat)
             e == <<>>
  <2>4. Alike(s, t, T, h)
    BY DEF Touch, Alike
  <2>5. Computes(f, T, e, h, s) /\ Computes(g, T, e, h, t)
    BY <2>2, <2>3
  <2> HIDE DEF s, t, T, e
  <2>6. \A n \in 0..h : f[n] = g[n]
    BY <2>1, <2>4, <2>5, FoldsAgree
  <2>7. QED BY <2>1, <2>2, <2>3, <2>6
<1>2. QED BY <1>1 DEF Promise!ViewAt

-----------------------------------------------------------------------------
(* The invariant.                                                           *)

Lost == missed \/ replaced \/ failed # {}

\* The blocks the stream has taken the heads of.
Taken == Len(chain) - Len(heads)

HeadsInv ==
    /\ chain \in Seq(Mined)
    /\ mined \in Nat
    /\ heads \in Seq(Nat)
    /\ Len(heads) <= Len(chain)
    /\ \A i \in 1..Len(heads) : heads[i] = Taken + i
    /\ pc = "built" => chain = <<>>

ShownInv ==
    /\ done \in 0..Len(chain)
    /\ state = Promise!ViewAt(chain, done)
    /\ pc = "built" => done = 0
    /\ pc \in {"built", "head", "logs", "sync", "yield"} /\ done > 0 => latest_block = done
    /\ pc \in {"head", "store", "yield"} => done = Taken
    /\ pc \in {"logs", "sync"} => done + 1 = Taken /\ block_number = Taken
    /\ pc = "store" => block_number = done /\ done > 0
    /\ pc = "sync" => logs = chain[block_number]

FollowsInv == ~Lost => HeadsInv /\ ShownInv

\* Steps of the readers and of the handler leave all of this alone.
Stays == UNCHANGED <<chain, mined, heads, state, block_number, logs, latest_block, historyVars>>

LEMMA StaysKept ==
    ASSUME FollowsInv, Stays, pc' = pc \/ pc' = "ended"
    PROVE  FollowsInv'
BY DEF FollowsInv, Stays, Lost, historyVars, HeadsInv, ShownInv, Taken

\* A new block is the last one announced.
LEMMA MineFollows ==
    ASSUME FollowsInv, NEW pools \in SUBSET Pools, Mine(pools)
    PROVE  FollowsInv' /\ (~Lost' => Promise!Extend)
<1>1. /\ chain' = Append(chain, Block(pools)) /\ mined' = mined + 1
      /\ missed' = (missed \/ pc = "built")
      /\ UNCHANGED <<state, pc, block_number, logs, latest_block, done, replaced, failed>>
  BY DEF Mine, spaceVars, streamVars
<1> SUFFICES ASSUME ~Lost' PROVE HeadsInv' /\ ShownInv' /\ Promise!Extend
  BY DEF FollowsInv
<1>2. ~Lost /\ HeadsInv /\ ShownInv /\ pc # "built" /\ Lost' = Lost
  BY <1>1 DEF FollowsInv, Lost
<1>3. heads' = Append(heads, Len(chain) + 1)
  BY <1>1, <1>2 DEF Mine, Announced, HeadsInv
<1>4. Block(pools) \in Mined
  BY <1>2 DEF Block, Mined, HeadsInv
<1>5. /\ chain' \in Seq(Mined) /\ Len(chain') = Len(chain) + 1
      /\ heads' \in Seq(Nat) /\ Len(heads') = Len(heads) + 1
      /\ Len(chain) \in Nat /\ Len(heads) \in Nat
      /\ Taken' = Taken /\ done \in 0..Len(chain) /\ Taken <= Len(chain) /\ Taken \in Nat
      /\ \A n \in 1..Len(chain) : chain'[n] = chain[n]
  <2>1. chain \in Seq(Mined) /\ heads \in Seq(Nat) /\ Len(heads) <= Len(chain)
    BY <1>2 DEF HeadsInv
  <2>2. done \in 0..Len(chain)
    BY <1>2 DEF ShownInv
  <2>3. /\ chain' \in Seq(Mined) /\ Len(chain') = Len(chain) + 1
        /\ \A n \in 1..Len(chain) : chain'[n] = chain[n]
    BY <1>1, <1>4, <2>1
  <2>4. heads' \in Seq(Nat) /\ Len(heads') = Len(heads) + 1
    BY <1>3, <2>1
  <2>5. QED BY <2>1, <2>2, <2>3, <2>4 DEF Taken
<1>6. HeadsInv'
  <2>1. ASSUME NEW i \in 1..Len(heads) + 1 PROVE heads'[i] = Taken + i
    <3>1. CASE i \in 1..Len(heads)
      BY <1>2, <1>3, <3>1 DEF HeadsInv
    <3>2. CASE i = Len(heads) + 1
      BY <1>2, <1>3, <1>5, <3>2 DEF HeadsInv, Taken
    <3>3. QED BY <1>5, <3>1, <3>2
  <2>2. mined' \in Nat
    BY <1>1, <1>2 DEF HeadsInv
  <2>3. QED BY <1>1, <1>2, <1>5, <2>1, <2>2 DEF HeadsInv
<1>7. ShownInv'
  <2>1. Promise!ViewAt(chain, done) = Promise!ViewAt(chain', done)
    <3>1. chain \in Seq(Mined) /\ \A n \in 1..done : n \in 1..Len(chain)
      BY <1>2, <1>5 DEF HeadsInv
    <3>2. \A n \in 1..done : chain[n] = chain'[n]
      BY <1>5, <3>1
    <3>3. done <= Len(chain') /\ chain' \in Seq(Mined) /\ done \in 0..Len(chain)
      BY <1>5
    <3>4. QED BY <3>1, <3>2, <3>3, ViewKept
  <2>2. pc = "sync" => block_number \in 1..Len(chain)
    BY <1>2, <1>5 DEF ShownInv
  <2>3. QED BY <1>1, <1>2, <1>5, <2>1, <2>2 DEF ShownInv
<1>8. Promise!Extend
  <2>1. SubSeq(chain', 1, Len(chain)) = chain
    BY <1>1, <1>2, <1>4 DEF HeadsInv
  <2>2. QED BY <1>1, <1>2, <1>5, <2>1 DEF Promise!Extend, Lost
<1>9. QED BY <1>6, <1>7, <1>8

LEMMA TakeFollows ==
    ASSUME FollowsInv, TakeHead
    PROVE  FollowsInv'
<1>1. /\ pc = "head" /\ heads # <<>> /\ block_number' = Head(heads) /\ heads' = Tail(heads)
      /\ pc' = "logs" /\ UNCHANGED <<chain, mined, state, logs, latest_block, historyVars>>
  BY DEF TakeHead, spaceVars
<1> SUFFICES ASSUME ~Lost PROVE HeadsInv' /\ ShownInv'
  BY <1>1 DEF FollowsInv, Lost, historyVars
<1>2. /\ heads \in Seq(Nat) /\ Len(chain) \in Nat /\ Len(heads) \in Nat /\ Len(heads) > 0
      /\ Len(heads) <= Len(chain)
  BY <1>1 DEF FollowsInv, HeadsInv
<1>3. /\ heads' \in Seq(Nat) /\ Len(heads') = Len(heads) - 1
      /\ \A i \in 1..Len(heads') : heads'[i] = heads[i + 1]
      /\ Head(heads) = heads[1]
  BY <1>1, <1>2
<1>4. Taken' = Taken + 1 /\ Taken \in Nat
  BY <1>1, <1>2, <1>3 DEF Taken
<1>5. HeadsInv'
  <2>1. ASSUME NEW i \in 1..Len(heads') PROVE heads'[i] = Taken' + i
    <3>1. i + 1 \in 1..Len(heads)
      BY <1>2, <1>3
    <3>2. heads[i + 1] = Taken + (i + 1)
      BY <3>1 DEF FollowsInv, HeadsInv
    <3>3. QED BY <1>2, <1>3, <1>4, <3>2
  <2>2. QED BY <1>1, <1>2, <1>3, <2>1 DEF FollowsInv, HeadsInv
<1>6. block_number' = Taken'
  BY <1>1, <1>2, <1>3, <1>4 DEF FollowsInv, HeadsInv
<1>7. ShownInv'
  BY <1>1, <1>4, <1>6 DEF FollowsInv, ShownInv, historyVars
<1>8. QED BY <1>5, <1>7

LEMMA LogsFollow ==
    ASSUME FollowsInv, GetLogs
    PROVE  FollowsInv'
<1>1. /\ pc = "logs" /\ pc' = "sync"
      /\ logs' = IF block_number <= Len(chain) THEN chain[block_number] ELSE NoLogs
      /\ UNCHANGED <<chain, mined, heads, state, block_number, latest_block, historyVars>>
  BY DEF GetLogs, nodeVars, spaceVars
<1> SUFFICES ASSUME ~Lost PROVE HeadsInv' /\ ShownInv'
  BY <1>1 DEF FollowsInv, Lost, historyVars
<1>2. HeadsInv'
  BY <1>1 DEF FollowsInv, HeadsInv, Taken
<1>3. block_number <= Len(chain)
  BY <1>1 DEF FollowsInv, HeadsInv, ShownInv, Taken
<1>4. QED BY <1>1, <1>2, <1>3 DEF FollowsInv, ShownInv, Taken, historyVars

\* The logs take the pools to the next block.
LEMMA SyncFollows ==
    ASSUME FollowsInv, SyncLogs
    PROVE  FollowsInv' /\ (~Lost' => Promise!Advance)
<1>1. /\ pc = "sync" /\ pc' = "store" /\ done' = block_number
      /\ IF logs.pools = {} THEN state' = state
         ELSE state' = [p \in Pools |-> IF p \in logs.pools THEN Append(Restored[p], logs.hash)
                                        ELSE Restored[p]]
      /\ UNCHANGED <<chain, mined, heads, block_number, logs, latest_block, missed, replaced,
                     failed>>
  BY DEF SyncLogs, nodeVars, spaceVars
<1> SUFFICES ASSUME ~Lost PROVE HeadsInv' /\ ShownInv' /\ Promise!Advance
  BY <1>1 DEF FollowsInv, Lost
<1>2. /\ HeadsInv /\ state = Promise!ViewAt(chain, done) /\ (done > 0 => latest_block = done)
      /\ done + 1 = Taken /\ block_number = done + 1 /\ done \in 0..Len(chain) - 1
      /\ logs = chain[done + 1] /\ Len(chain) \in Nat /\ chain \in Seq(Mined)
  BY <1>1 DEF FollowsInv, HeadsInv, ShownInv, Taken
<1>3. HeadsInv'
  BY <1>1, <1>2 DEF HeadsInv, Taken
<1>4. \A p \in Pools : Restored[p] = state[p]
  <2>1. ~Unwinds
    BY <1>2, ManagerAssumption DEF Unwinds, SpaceLatest, Unset
  <2>2. QED BY <2>1 DEF Restored, NoAmms
<1>5. state' = Promise!ViewAt(chain, done + 1)
  <2>1. state = [p \in Pools |-> state[p]]
    BY <1>2 DEF Promise!ViewAt
  <2>2. state' = [p \in Pools |-> state'[p]]
    BY <1>1, <2>1
  <2>3. ASSUME NEW p \in Pools PROVE state'[p] = Promise!ViewAt(chain, done + 1)[p]
    <3>1. Promise!ViewAt(chain, done + 1)[p] =
             IF p \in logs.pools THEN Append(state[p], logs.hash) ELSE state[p]
      BY <1>2, ViewNext
    <3>2. QED BY <1>1, <1>4, <3>1
  <2>4. QED BY <2>2, <2>3 DEF Promise!ViewAt
<1>6. ShownInv'
  <2>1. done + 1 \in 0..Len(chain) /\ done + 1 > 0
    BY <1>2
  <2>2. QED BY <1>1, <1>2, <1>5, <2>1 DEF ShownInv, Taken
<1>7. Promise!Advance
  BY <1>1, <1>2, <1>5 DEF Promise!Advance, Lost
<1>8. QED BY <1>3, <1>6, <1>7

shownVars == <<chain, state, done, latest_block, missed \/ replaced \/ failed # {}>>

LEMMA StoreFollows ==
    ASSUME FollowsInv, StoreLatest \/ Poll \/ Subscribe
    PROVE  FollowsInv' /\ (~Lost' => Promise!Tell \/ UNCHANGED shownVars)
<1>1. /\ UNCHANGED <<chain, mined, heads, state, block_number, logs, historyVars>>
      /\ \/ pc = "store" /\ pc' = "yield" /\ latest_block' = block_number
         \/ pc = "yield" /\ pc' = "head" /\ latest_block' = latest_block
         \/ pc = "built" /\ pc' = "head" /\ latest_block' = latest_block
  BY DEF StoreLatest, Poll, Subscribe, nodeVars, spaceVars
<1> SUFFICES ASSUME ~Lost PROVE HeadsInv' /\ ShownInv' /\ (Promise!Tell \/ UNCHANGED shownVars)
  BY <1>1 DEF FollowsInv, Lost, historyVars
<1>2. HeadsInv'
  BY <1>1 DEF FollowsInv, HeadsInv, Taken
<1>3. pc = "built" => done = Taken
  <2>1. chain = <<>> => Len(chain) = 0
    OBVIOUS
  <2>2. QED BY <2>1 DEF FollowsInv, HeadsInv, ShownInv, Taken
<1>4. ShownInv'
  BY <1>1, <1>3 DEF FollowsInv, ShownInv, Taken, historyVars
<1>5. Promise!Tell \/ UNCHANGED shownVars
  BY <1>1 DEF FollowsInv, ShownInv, historyVars, Promise!Tell, shownVars
<1>6. QED BY <1>2, <1>4, <1>5

\* The steps that are none of ChainView's.
StaySteps ==
    \/ HeadsEnd
    \/ GetLogsFails
    \/ \E r \in Readers : AcquireRead(r) \/ ReleaseRead(r)
    \/ UNCHANGED vars

LEMMA OthersStay ==
    ASSUME StaySteps
    PROVE  Stays /\ (pc' = pc \/ pc' = "ended")
BY DEF StaySteps, HeadsEnd, GetLogsFails, AcquireRead, ReleaseRead, Stays, vars, nodeVars,
       spaceVars, streamVars, historyVars

\* Once lost, always lost.
LEMMA LosesForGood ==
    ASSUME (\E k \in 0..Len(chain) - 1, pools \in SUBSET Pools : Reorg(k, pools))
              \/ (\E p \in Pools, before \in SUBSET Pools : SyncFails(p, before))
    PROVE  Lost'
BY DEF Reorg, SyncFails, Lost

\* The steps of the monitor, as far as the stream and the state are concerned.
LEMMA MonitorSteps ==
    ASSUME [MonitorNext]_allVars
    PROVE  \/ \E pools \in SUBSET Pools : Mine(pools)
           \/ \E k \in 0..Len(chain) - 1, pools \in SUBSET Pools : Reorg(k, pools)
           \/ \E p \in Pools, before \in SUBSET Pools : SyncFails(p, before)
           \/ TakeHead
           \/ GetLogs
           \/ SyncLogs
           \/ StoreLatest \/ Poll \/ Subscribe
           \/ StaySteps
<1>1. Scans \subseteq Readers /\ Handler \in Readers
  BY MonitorAssumption
<1>2. CASE \E s \in Scans : ScanStarts(s) \/ ScanStep(s) \/ Locks(s)
  BY <1>1, <1>2 DEF ScanStarts, ScanStep, GraphBuilt, ScanReturns, Locks, ScanLocks,
                    ScanLocksAgain, StaySteps
<1>3. CASE HandlerStep
  BY <1>1, <1>3 DEF HandlerStep, UpdatesLogged, UpdatesFail, GraphRefreshed, PollAgain, StaySteps
<1>4. CASE HandlerWaits
  BY <1>1, <1>4 DEF HandlerWaits, HandlerLocks, RefreshLocks, StaySteps
<1>5. CASE Node \/ Subscribe \/ HeadsEnd \/ Stream
  BY <1>5 DEF Node, Stream, StaySteps
<1>6. CASE UNCHANGED allVars
  BY <1>6 DEF allVars, StaySteps
<1>7. QED BY <1>2, <1>3, <1>4, <1>5, <1>6 DEF MonitorNext

\* A step keeps the invariant and is one of ChainView's.
LEMMA FollowsStep ==
    ASSUME FollowsInv, [MonitorNext]_allVars
    PROVE  FollowsInv' /\ [Promise!Next]_shownVars
<1>1. Lost => Lost'
  BY MonitorSteps, OthersStay
  DEF Mine, Reorg, SyncFails, TakeHead, GetLogs, SyncLogs, StoreLatest, Poll, Subscribe,
      historyVars, Stays, Lost
<1>2. CASE Lost'
  <2>1. FollowsInv'
    BY <1>2 DEF FollowsInv
  <2>2. Promise!Lose
    BY <1>2 DEF Promise!Lose, Lost
  <2>3. QED BY <2>1, <2>2 DEF Promise!Next
<1>3. CASE ~Lost'
  <2>1. ~Lost
    BY <1>1, <1>3
  <2>2. CASE StaySteps
    <3>1. FollowsInv'
      BY <2>2, OthersStay, StaysKept
    <3>2. UNCHANGED shownVars
      BY <2>2, OthersStay DEF Stays, historyVars, shownVars
    <3>3. QED BY <3>1, <3>2
  <2>3. CASE TakeHead \/ GetLogs
    <3>1. FollowsInv'
      BY <2>3, TakeFollows, LogsFollow
    <3>2. UNCHANGED shownVars
      BY <2>3 DEF TakeHead, GetLogs, nodeVars, spaceVars, historyVars, shownVars
    <3>3. QED BY <3>1, <3>2
  <2>4. CASE \E pools \in SUBSET Pools : Mine(pools)
    <3>1. FollowsInv' /\ Promise!Extend
      BY <1>3, <2>4, MineFollows
    <3>2. QED BY <2>1, <3>1 DEF Promise!Next, Lost
  <2>5. CASE SyncLogs
    <3>1. FollowsInv' /\ Promise!Advance
      BY <1>3, <2>5, SyncFollows
    <3>2. QED BY <2>1, <3>1 DEF Promise!Next, Lost
  <2>6. CASE StoreLatest \/ Poll \/ Subscribe
    <3>1. FollowsInv' /\ (Promise!Tell \/ UNCHANGED shownVars)
      BY <1>3, <2>6, StoreFollows
    <3>2. QED BY <2>1, <3>1 DEF Promise!Next, Lost
  <2>7. QED BY <1>3, <2>2, <2>3, <2>4, <2>5, <2>6, MonitorSteps, LosesForGood
<1>4. QED BY <1>2, <1>3

LEMMA FollowsInit == MonitorInit => FollowsInv /\ Promise!Init
<1> SUFFICES ASSUME MonitorInit PROVE FollowsInv /\ Promise!Init
  OBVIOUS
<1>1. /\ chain = <<>> /\ heads = <<>> /\ mined = 0 /\ done = 0 /\ latest_block \in Int
      /\ pc = "built" /\ state = [p \in Pools |-> <<>>] /\ ~Lost
  BY ManagerAssumption DEF MonitorInit, Init, Lost
<1>2. <<>> \in Seq(Mined) /\ <<>> \in Seq(Nat) /\ Len(<<>>) = 0
  OBVIOUS
<1>3. state = Promise!ViewAt(<<>>, 0)
  <2>1. ASSUME NEW p \in Pools PROVE Promise!ViewAt(<<>>, 0)[p] = <<>>
    <3> DEFINE c == <<>>
    <3>1. c \in Seq(Mined) /\ 0 \in 0..Len(c)
      BY <1>2
    <3> HIDE DEF c
    <3>2. PICK f : Computes(f, Seq(Nat), <<>>, 0, Touch(c, p, 0)) /\ Promise!ViewAt(c, 0)[p] = f[0]
      BY <3>1, ViewComputes
    <3>3. QED BY <3>2 DEF Computes, c
  <2>2. QED BY <1>1, <2>1 DEF Promise!ViewAt
<1>4. FollowsInv
  BY <1>1, <1>2, <1>3 DEF FollowsInv, HeadsInv, ShownInv
<1>5. Promise!Init
  BY <1>1, <1>3 DEF Promise!Init, Lost
<1>6. QED BY <1>4, <1>5

\* The stream implements ChainView beside any number of scans: readers are
\* shown the pools of one block after the other, whole and exactly once, and
\* from the first block on a number that is that block's or the one's before,
\* until a block is missed or replaced or a log fails
\* (StateSpaceManager::subscribe), whatever number the builder was given.
THEOREM StreamShowsTheChain == MonitorSpec => ShowsTheChain
<1>1. MonitorInit => FollowsInv /\ Promise!Init
  BY FollowsInit
<1>2. FollowsInv /\ [MonitorNext]_allVars => FollowsInv' /\ [Promise!Next]_shownVars
  BY FollowsStep
<1>3. QED BY <1>1, <1>2, PTL DEF MonitorSpec, ShowsTheChain, Promise!Spec, shownVars
=============================================================================
