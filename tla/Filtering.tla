----------------------------- MODULE Filtering -----------------------------
(***************************************************************************)
(* Iterator::filter and Vec::retain of the Rust library: the elements of a   *)
(* sequence that pass, in the order they have in it.                        *)
(***************************************************************************)
EXTENDS Integers, Sequences, Functions

\* The elements of s that are in S.
Sift(s, S) ==
    LET sifted[n \in 0..Len(s)] ==
            IF n = 0 THEN <<>>
            ELSE IF s[n] \in S THEN Append(sifted[n - 1], s[n])
            ELSE sifted[n - 1]
    IN  sifted[Len(s)]

\* The elements of s that Passes is true of.
Filter(s, Passes(_)) == Sift(s, {x \in Range(s) : Passes(x)})
=============================================================================
