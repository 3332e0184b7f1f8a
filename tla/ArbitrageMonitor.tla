-------------------------- MODULE ArbitrageMonitor --------------------------
(***************************************************************************)
(* ArbitrageMonitor (src/arbitrage/monitor.rs) and the StateSpaceManager it *)
(* is built on: opportunistic_scan and handle_updates as the readers of the *)
(* shared state space.  Both take its read lock twice.  Scans run beside    *)
(* the stream; the updates a stream yields are handled before it is polled  *)
(* again.  What a scan does with the paths is in PathFinder and             *)
(* PathOptimizer.                                                           *)
(***************************************************************************)
EXTENDS StateSpaceManager

CONSTANTS
    Scans,   \* tasks that scan, over and over
    Handler  \* the task that polls the stream

ASSUME MonitorAssumption == Readers = Scans \cup {Handler} /\ Handler \notin Scans

VARIABLES
    scan,     \* where each scan is
    handler,  \* where handle_updates is
    graph     \* ArbitrageMonitor.graph is Some: the fields of the pools that a
              \* graph is built from never change, so it is always the same

monitorVars == <<scan, handler, graph>>
allVars == <<vars, monitorVars>>

\* ArbitrageMonitor::new, once sync has returned.
MonitorInit ==
    /\ Init
    /\ scan = [s \in Scans |-> "idle"]
    /\ handler = "idle"
    /\ graph = FALSE

-----------------------------------------------------------------------------
(* opportunistic_scan.                                                      *)

Goto(s, at) == scan' = [scan EXCEPT ![s] = at]

\* The number of the block is asked for first, and only logged.
ScanStarts(s) ==
    /\ scan[s] = "idle"
    /\ Goto(s, "graph lock")
    /\ UNCHANGED <<vars, handler, graph>>

ScanLocks(s) ==
    /\ scan[s] = "graph lock"
    /\ AcquireRead(s)
    /\ Goto(s, "graph")
    /\ UNCHANGED <<handler, graph>>

\* Variant: the guard lives on.
GraphKeepsLock(s) ==
    /\ scan[s] = "graph"
    /\ Goto(s, "pools lock")
    /\ UNCHANGED <<vars, handler, graph>>

\* The graph is built and the guard dropped before the paths are searched.
GraphBuilt(s) ==
    /\ scan[s] = "graph"
    /\ ReleaseRead(s)
    /\ Goto(s, "pools lock")
    /\ UNCHANGED <<handler, graph>>

ScanLocksAgain(s) ==
    /\ scan[s] = "pools lock"
    /\ AcquireRead(s)
    /\ Goto(s, "pools")
    /\ UNCHANGED <<handler, graph>>

\* Paths are priced and logged under the second guard, which an error on the
\* way drops as well.
ScanReturns(s) ==
    /\ scan[s] = "pools"
    /\ ReleaseRead(s)
    /\ Goto(s, "idle")
    /\ UNCHANGED <<handler, graph>>

-----------------------------------------------------------------------------
(* handle_updates and refresh_graph.                                        *)

Handle(at) == handler' = at

HandlerLocks ==
    /\ pc = "yield"
    /\ handler = "idle"
    /\ AcquireRead(Handler)
    /\ Handle("updates")
    /\ UNCHANGED <<scan, graph>>

\* The node is asked for the number of the block while the lock is held.
UpdatesLogged ==
    /\ handler = "updates"
    /\ ReleaseRead(Handler)
    /\ Handle("graph lock")
    /\ UNCHANGED <<scan, graph>>

\* The number or the file fails, and there is no refresh.
UpdatesFail ==
    /\ handler = "updates"
    /\ ReleaseRead(Handler)
    /\ Handle("handled")
    /\ UNCHANGED <<scan, graph>>

RefreshLocks ==
    /\ handler = "graph lock"
    /\ AcquireRead(Handler)
    /\ Handle("graph")
    /\ UNCHANGED <<scan, graph>>

\* The graph has a lock of its own that nobody else takes.
GraphRefreshed ==
    /\ handler = "graph"
    /\ ReleaseRead(Handler)
    /\ graph' = TRUE
    /\ Handle("handled")
    /\ UNCHANGED scan

PollAgain ==
    /\ handler = "handled"
    /\ Poll
    /\ Handle("idle")
    /\ UNCHANGED <<scan, graph>>

-----------------------------------------------------------------------------
ScanStep(s) ==
    \/ GraphBuilt(s)
    \/ ScanReturns(s)

Locks(s) == ScanLocks(s) \/ ScanLocksAgain(s)

HandlerStep ==
    \/ UpdatesLogged
    \/ UpdatesFail
    \/ GraphRefreshed
    \/ PollAgain

HandlerWaits == HandlerLocks \/ RefreshLocks

MonitorNext ==
    \/ (Node \/ Subscribe \/ HeadsEnd \/ Stream) /\ UNCHANGED monitorVars
    \/ \E s \in Scans : ScanStarts(s) \/ ScanStep(s) \/ Locks(s)
    \/ HandlerStep
    \/ HandlerWaits

MonitorSpec == MonitorInit /\ [][MonitorNext]_allVars

\* A task that can run is run, the node answers, and whoever waits for the
\* lock is in its queue: it gets it before those that come later.
MonitorFairness ==
    /\ WF_allVars(Subscribe /\ UNCHANGED monitorVars)
    /\ WF_allVars(Stream /\ UNCHANGED monitorVars)
    /\ \A s \in Scans : WF_allVars(ScanStep(s)) /\ SF_allVars(Locks(s))
    /\ WF_allVars(HandlerStep)
    /\ SF_allVars(HandlerWaits)

FairMonitorSpec == MonitorSpec /\ MonitorFairness

-----------------------------------------------------------------------------
(* Properties.                                                              *)

\* Scans that come and go, and handlers that take the lock twice, do not keep
\* the stream from the write lock: every block is applied, unless it was
\* missed or replaced or the stream is over.
BlocksAreApplied ==
    LET Lost == missed \/ replaced \/ pc = "ended"
    IN  \A n \in 1..MaxBlocks : (~Lost /\ n <= Len(chain)) ~> (done >= n \/ Lost)

\* Every scan returns, whatever writer comes between its two locks.
ScansReturn == \A s \in Scans : scan[s] # "idle" ~> scan[s] = "idle"
=============================================================================
