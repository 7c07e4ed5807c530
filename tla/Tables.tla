-------------------------------- MODULE Tables --------------------------------
(* What queries and lists do with the rows they select: they add up what each *)
(* has, and put them in order.                                                *)
EXTENDS Naturals, Sequences, FiniteSets, FiniteSetsExt, Folds

SumOver(w, S) == MapThenSumSet(LAMBDA x : w[x], S)

\* The members of S, one with a larger value before one with a smaller
Descending(S, value) ==
    MapThenFoldSet(LAMBDA x, list : <<x>> \o list, <<>>, LAMBDA x : x,
                   LAMBDA s : CHOOSE x \in s : \A y \in s : value[x] >= value[y], S)

=============================================================================
