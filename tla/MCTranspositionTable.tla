------------------------- MODULE MCTranspositionTable -------------------------
(* One cluster: three workers that race on a single entry, as many as two  *)
(* stale lowerings and a save between them take, or one worker alone with  *)
(* the whole cluster.  The first key's low bits are those of a cleared     *)
(* entry.                                                                  *)
EXTENDS TranspositionTable, TLC

CONSTANTS k1, k2, k3, w1, w2, w3, m1, m2

MCTwoKeys   == (k1 :> 0) @@ (k2 :> 1)
MCThreeKeys == (k1 :> 0) @@ (k2 :> 1) @@ (k3 :> 1)

Res(d, b, pv, m, v) == [depth |-> d, bound |-> b, pv |-> pv, move |-> m, decisive |-> v]

MCDeepOrNot == {Res(-2, 0, FALSE, m2, FALSE), Res(6, 2, TRUE, m1, TRUE)}
MCResults   == {Res(-2, 0, FALSE, MOVE_NONE, FALSE), Res(6, 2, TRUE, m1, TRUE),
                Res(1, 3, FALSE, m2, FALSE)}

\* What the racing workers may find: a deep, proven bound.
MCEarlier == {[key |-> k1, result |-> Res(6, 2, TRUE, m1, TRUE)]}

\* The race's view: a copy is looked at right after the probe only, and the number of
\* a save while it is under way, so that states differing in older ones are one.
Copies(w) ==
    [n \in DOMAIN open[w] |->
        IF at[w] = "found" /\ n = Len(open[w]) THEN open[w][n]
        ELSE [open[w][n] EXCEPT !.found = FALSE, !.data = NoData]]
LiveState ==
    <<entry, generation, at, [w \in Workers |-> Copies(w)], scan, todo,
      [w \in Workers |-> IF at[w] \in Writing THEN op[w] ELSE 0],
      old, saves, probes, searches, raced>>

AnyWorker == Permutations(Workers)
===============================================================================
