-------------------------- MODULE GreedySelection --------------------------
(***************************************************************************)
(* select_non_conflicting_opportunities of the services under               *)
(* examples/protocols: of candidates in falling order of net profit, each   *)
(* one is taken that shares no pool with those taken before it.             *)
(* pools[c] is the set of pools of candidate c.                             *)
(***************************************************************************)
EXTENDS Naturals, Sequences, SequencesExt

SharesPool(c, d, pools) == pools[c] \cap pools[d] # {}

Disjoint(taken, c, pools) == \A i \in DOMAIN taken : ~SharesPool(c, taken[i], pools)

\* Variant: the pools of a candidate that is left out count as taken, too.
SelectUnshared(ranking, pools) ==
    LET Beaten(i) == \E k \in 1..i - 1 : SharesPool(ranking[k], ranking[i], pools)
        kept == SetToSortSeq({i \in DOMAIN ranking : ~Beaten(i)}, <)
    IN  [k \in DOMAIN kept |-> ranking[kept[k]]]

SelectFrom(ranking, pools) ==
    LET taken[n \in 0..Len(ranking)] ==
            IF n = 0 THEN <<>>
            ELSE IF Disjoint(taken[n - 1], ranking[n], pools)
                 THEN Append(taken[n - 1], ranking[n])
                 ELSE taken[n - 1]
    IN  taken[Len(ranking)]
=============================================================================
