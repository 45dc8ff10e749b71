--------------------------------- MODULE Lines ---------------------------------
(***************************************************************************)
(* What the loops over a header line compute: the pieces they keep, joined *)
(* by a separator, and how long that is.  HeaderMerge and MirrorHeaders    *)
(* build on it.                                                            *)
(***************************************************************************)
EXTENDS Integers, Sequences, Functions

\* The elements of s that are in K, in their order: filter, as SelectSeq but of a set.
Kept(s, K) ==
    LET kept[n \in 0..Len(s)] ==
            IF n = 0 THEN <<>>
            ELSE IF s[n] \in K THEN Append(kept[n - 1], s[n])
            ELSE kept[n - 1]
    IN  kept[Len(s)]

\* The elements of s with a separator between any two of them: join.
Separated(s, sep) ==
    [i \in 1..(2 * Len(s) - 1) |-> IF i % 2 = 1 THEN s[(i + 1) \div 2] ELSE sep]

\* The sum of the weights of the elements of s.
Total(s, weight) ==
    LET total[n \in 0..Len(s)] ==
            IF n = 0 THEN 0 ELSE total[n - 1] + weight[s[n]]
    IN  total[Len(s)]
===============================================================================
