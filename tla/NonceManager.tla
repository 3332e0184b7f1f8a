---------------------------- MODULE NonceManager ----------------------------
(***************************************************************************)
(* NonceManager (src/execution/nonce.rs): the next nonce of an account in   *)
(* an AtomicU64 shared by threads.  reserve and peek are one atomic         *)
(* operation each; sync_at_least is a load followed by a compare-exchange   *)
(* loop, so threads interleave inside it.  All orderings are SeqCst.        *)
(*                                                                         *)
(* fetch_add wraps around at 2^64; a nonce never gets there, and MaxNonce   *)
(* bounds the counter in the guards instead.                                *)
(***************************************************************************)
EXTENDS Naturals

CONSTANTS
    Threads,   \* threads that share the manager
    Nonces,    \* nonces the chain may report, and initial ones
    MaxNonce   \* bound on the counter

ASSUME NonceAssumption ==
    /\ MaxNonce \in Nat
    /\ Nonces \subseteq 0..MaxNonce

VARIABLES
    next_nonce,        \* the atomic
    sync_pc,           \* where each thread is in sync_at_least
    chain_next_nonce,  \* sync_at_least: argument
    current,           \* sync_at_least: value the thread last saw
    \* History.
    initial_nonce,     \* argument of new
    given,             \* given[n]: how often reserve returned n
    floor              \* highest argument of a finished sync_at_least

nonceVars == <<next_nonce, sync_pc, chain_next_nonce, current, initial_nonce, given, floor>>

\* new(initial_nonce)
NonceInit ==
    /\ initial_nonce \in Nonces
    /\ next_nonce = initial_nonce
    /\ sync_pc = [t \in Threads |-> "idle"]
    /\ chain_next_nonce = [t \in Threads |-> 0]
    /\ current = [t \in Threads |-> 0]
    /\ given = [n \in 0..MaxNonce |-> 0]
    /\ floor = initial_nonce

Reserve(t) ==
    /\ sync_pc[t] = "idle"
    /\ next_nonce < MaxNonce
    /\ next_nonce' = next_nonce + 1
    /\ given' = [given EXCEPT ![next_nonce] = @ + 1]
    /\ UNCHANGED <<sync_pc, chain_next_nonce, current, initial_nonce, floor>>

\* sync_at_least(n): the load in front of the loop.
Load(t, n) ==
    /\ sync_pc[t] = "idle"
    /\ sync_pc' = [sync_pc EXCEPT ![t] = "loop"]
    /\ chain_next_nonce' = [chain_next_nonce EXCEPT ![t] = n]
    /\ current' = [current EXCEPT ![t] = next_nonce]
    /\ UNCHANGED <<next_nonce, initial_nonce, given, floor>>

Later(m, n) == IF m >= n THEN m ELSE n

\* The call returns.
Finish(t) ==
    /\ sync_pc' = [sync_pc EXCEPT ![t] = "idle"]
    /\ floor' = Later(floor, chain_next_nonce[t])

\* The loop condition fails: the counter was high enough.
LeaveLoop(t) ==
    /\ sync_pc[t] = "loop"
    /\ ~(chain_next_nonce[t] > current[t])
    /\ Finish(t)
    /\ UNCHANGED <<next_nonce, chain_next_nonce, current, initial_nonce, given>>

\* Variant: a plain store.
Store(t) ==
    /\ sync_pc[t] = "loop"
    /\ chain_next_nonce[t] > current[t]
    /\ next_nonce' = chain_next_nonce[t]
    /\ Finish(t)
    /\ UNCHANGED <<chain_next_nonce, current, initial_nonce, given>>

\* compare_exchange succeeds: the counter still is what the thread saw.
Exchange(t) ==
    /\ sync_pc[t] = "loop"
    /\ chain_next_nonce[t] > current[t]
    /\ next_nonce = current[t]
    /\ next_nonce' = chain_next_nonce[t]
    /\ Finish(t)
    /\ UNCHANGED <<chain_next_nonce, current, initial_nonce, given>>

\* Variant: the call returns when the exchange fails.
GiveUp(t) ==
    /\ sync_pc[t] = "loop"
    /\ chain_next_nonce[t] > current[t]
    /\ next_nonce # current[t]
    /\ Finish(t)
    /\ UNCHANGED <<next_nonce, chain_next_nonce, current, initial_nonce, given>>

\* Variant: the actual value is not kept, and the exchange is tried again.
RetryBlindly(t) ==
    /\ sync_pc[t] = "loop"
    /\ chain_next_nonce[t] > current[t]
    /\ next_nonce # current[t]
    /\ UNCHANGED nonceVars

\* compare_exchange fails and returns the actual value.
Retry(t) ==
    /\ sync_pc[t] = "loop"
    /\ chain_next_nonce[t] > current[t]
    /\ next_nonce # current[t]
    /\ current' = [current EXCEPT ![t] = next_nonce]
    /\ UNCHANGED <<next_nonce, sync_pc, chain_next_nonce, initial_nonce, given, floor>>

NonceNext ==
    \E t \in Threads :
        \/ Reserve(t)
        \/ \E n \in Nonces : Load(t, n)
        \/ LeaveLoop(t)
        \/ Exchange(t)
        \/ Retry(t)

NonceSpec == NonceInit /\ [][NonceNext]_nonceVars

\* A thread inside sync_at_least is scheduled again and again.
NonceFairness == \A t \in Threads : WF_nonceVars(LeaveLoop(t) \/ Exchange(t) \/ Retry(t))

NonceFairSpec == NonceSpec /\ NonceFairness

-----------------------------------------------------------------------------
(* Types of the counter, of the threads' locals and of the history.         *)
NonceTypeOK ==
    /\ next_nonce \in 0..MaxNonce
    /\ sync_pc \in [Threads -> {"idle", "loop"}]
    /\ chain_next_nonce \in [Threads -> 0..MaxNonce]
    /\ current \in [Threads -> 0..MaxNonce]
    /\ initial_nonce \in 0..MaxNonce
    /\ given \in [0..MaxNonce -> Nat]
    /\ floor \in 0..MaxNonce

\* What a thread saw was the counter at some time: it is not ahead of it, and
\* nothing from the counter on has been given out.
CounterAhead ==
    /\ \A t \in Threads : sync_pc[t] = "loop" => current[t] <= next_nonce
    /\ \A n \in 0..MaxNonce : n >= next_nonce => given[n] = 0
    /\ initial_nonce <= next_nonce

\* Whatever runs between the load and the exchange, the counter is at least
\* every nonce a finished sync_at_least asked for.
FloorHolds == floor <= next_nonce

\* No nonce is given out twice or below the initial one (reserve), also while
\* other threads move the counter.
ReservedOnce ==
    \A n \in 0..MaxNonce :
        /\ given[n] <= 1
        /\ given[n] = 1 => initial_nonce <= n /\ n < next_nonce

\* reserve never returns a nonce that a finished sync_at_least had ruled out:
\* the chain has already used it.
NoStaleNonce == [][\A n \in 0..MaxNonce : given'[n] # given[n] => n >= floor]_nonceVars

\* A stale exchange never takes the counter back.
NeverBack == [][next_nonce' >= next_nonce]_nonceVars

\* sync_at_least returns although others keep moving the counter: a thread
\* retries only while the counter is still below what it asks for.
SyncReturns == \A t \in Threads : sync_pc[t] = "loop" ~> sync_pc[t] = "idle"

NonceInv == CounterAhead /\ FloorHolds /\ ReservedOnce
=============================================================================
