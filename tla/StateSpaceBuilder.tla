-------------------------- MODULE StateSpaceBuilder --------------------------
(***************************************************************************)
(* StateSpaceBuilder::sync (src/state_space/mod.rs) and its PoolFilters:    *)
(* the pools of a UniswapV3Factory are discovered, the pools the caller     *)
(* lists by hand are added to those of their variant, filters are applied   *)
(* before and after the pools are read, and pools of variants that have no  *)
(* factory are inited one by one.  An error anywhere and there is no state  *)
(* space at all.                                                            *)
(***************************************************************************)
EXTENDS UniswapV3Factory

CONSTANTS
    Others,    \* pools listed by hand whose variant has no factory
    TokensOf,  \* the tokens of each pool
    Listed,    \* pools of the factory's variant a caller may list by hand
    OldTicks,  \* of each, the sets of ticks it may have been inited with
    Filters    \* the sets of filters a caller may give

FilterKinds == {"PoolWhitelist", "TokenWhitelist", "Blacklist"}

\* A PoolFilter is its kind and the addresses it was made of.
ASSUME BuilderAssumption ==
    /\ Pools \cap Others = {}
    /\ Listed \subseteq Pools
    /\ DOMAIN OldTicks = Listed
    /\ \A p \in Listed : \A held \in OldTicks[p] : held \subseteq TicksOf(p)
    /\ DOMAIN TokensOf = Pools
    /\ \A fs \in Filters : \A f \in fs : f.filter \in FilterKinds

VARIABLES
    filters,    \* StateSpaceBuilder.filters
    amms,       \* pools of the factory's variant listed by hand
    fresh,      \* of them, those that were never inited and have no tokens yet
    remaining,  \* pools of amm_variants that no factory took
    state       \* the addresses in StateSpace.state

builderVars == <<filters, amms, fresh, remaining, state>>
allVars == <<factoryVars, builderVars>>

BuilderInit ==
    /\ FactoryInit
    /\ filters \in Filters
    /\ amms \in SUBSET Listed
    /\ fresh \in SUBSET amms
    /\ remaining = Others
    /\ state = {}

-----------------------------------------------------------------------------
(* Filters.                                                                 *)

FilterStage(f) == IF f.filter = "PoolWhitelist" THEN "Discovery" ELSE "Sync"

Keeps(f, p) ==
    CASE f.filter = "PoolWhitelist" -> p \in f.list
      [] f.filter = "TokenWhitelist" -> TokensOf[p] \cap f.list # {}
      [] f.filter = "Blacklist" -> p \notin f.list /\ TokensOf[p] \cap f.list = {}

Passing(s, at) ==
    Filter(s, LAMBDA p : \A f \in filters : FilterStage(f) = at => Keeps(f, p))

-----------------------------------------------------------------------------
(* The task of the factory.                                                 *)

\* The pools of the variant listed by hand that were inited, with their ticks.
BringTicks ==
    /\ \E held \in [amms \ fresh -> UNION {OldTicks[p] : p \in Listed}] :
          /\ \A p \in amms \ fresh : held[p] \in OldTicks[p]
          /\ brought' = [p \in Pools |-> IF p \in amms \ fresh THEN held[p] ELSE {}]
    /\ tick_bitmap' = brought'

\* Variant: the pools listed by hand are added behind the filters.
ExtendLate ==
    /\ phase = "logs"
    /\ requests = <<>>
    /\ phase' = "found"
    /\ BringTicks
    /\ pools' = Passing(pools, "Discovery") \o SetToSeq(amms \ fresh)
    /\ UNCHANGED <<block_number, created, initialized, latest_block, requests, loopVars,
                   ticks, builderVars>>

\* The pools of the variant listed by hand are added to those discovered, and
\* nobody inits them: one that has no tokens yet drops out with the pools
\* whose tokens have no decimals (sync_all_pools), here already.
Extend ==
    /\ phase = "logs"
    /\ requests = <<>>
    /\ phase' = "found"
    /\ BringTicks
    /\ pools' = Passing(pools \o SetToSeq(amms \ fresh), "Discovery")
    /\ UNCHANGED <<block_number, created, initialized, latest_block, requests, loopVars,
                   ticks, builderVars>>

\* The task returns, and its pools are inserted by their addresses.
Merge ==
    /\ phase = "done"
    /\ phase' = "merged"
    /\ state' = state \cup Range(Passing(pools, "Sync"))
    /\ UNCHANGED <<chainVars, latest_block, requests, pools, loopVars, tick_bitmap, ticks,
                   filters, amms, fresh, remaining>>

-----------------------------------------------------------------------------
(* The pools without a factory.                                             *)

\* amm.init reads the pool; no filter sees it.
InitOne(p) ==
    /\ phase = "merged"
    /\ p \in remaining
    /\ remaining' = remaining \ {p}
    /\ state' = state \cup {p}
    /\ UNCHANGED <<factoryVars, filters, amms, fresh>>

InitFails ==
    /\ phase = "merged"
    /\ remaining # {}
    /\ phase' = "failed"
    /\ UNCHANGED <<chainVars, latest_block, requests, pools, loopVars, tick_bitmap, ticks,
                   builderVars>>

\* The StateSpaceManager is handed out.
Built ==
    /\ phase = "merged"
    /\ remaining = {}
    /\ phase' = "built"
    /\ UNCHANGED <<chainVars, latest_block, requests, pools, loopVars, tick_bitmap, ticks,
                   builderVars>>

BuilderNext ==
    \/ (Discover \/ Sync \/ NodeFails) /\ UNCHANGED builderVars
    \/ Extend
    \/ Merge
    \/ \E p \in Others : InitOne(p)
    \/ InitFails
    \/ Built

BuilderSpec == BuilderInit /\ [][BuilderNext]_allVars

-----------------------------------------------------------------------------
(* Properties.                                                              *)

\* The windows end just short of the block the pools are read at.
LastBlockMissed == (block_number - creation_block) % (sync_step + 1) = 0

\* The state space handed out has every live pool of the factory that passes
\* the filters, whether discovered or listed by hand, and no other pool but
\* those without a factory, which all are there.  A pool created in a last
\* block that discovery misses is there if the caller listed it and had it
\* inited (StateSpaceBuilder::sync).
Admitted ==
    LET known == {p \in Pools : \/ created[p] < block_number
                                \/ ~LastBlockMissed
                                \/ p \in amms \ fresh}
        live == {p \in known : initialized[p] # {}}
    IN  phase = "built" =>
            state = Others \cup {p \in live : \A f \in filters : Keeps(f, p)}
=============================================================================
