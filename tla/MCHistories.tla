---------------------------- MODULE MCHistories ----------------------------
(* Two workers of one node and the moves of two frames: every kind of node end *)
(* at the ends of its range, with updates that meet in the same entries.       *)
EXTENDS Histories, TLC

CONSTANTS w1, w2, p1, m1

MCPages == {p1}
MCMoves == {m1}
Near    == [k \in 1..5 |-> IF k <= 2 THEN p1 ELSE NoMove]
Far     == [k \in 1..5 |-> IF k = 3 THEN p1 ELSE NoMove]
Node(kind, depth, checked, delta) ==
  [kind |-> kind, depth |-> depth, ply |-> LOW_PLY_HISTORY_SIZE, pv |-> FALSE, isTt |-> TRUE, isCapture |-> FALSE,
   checked |-> checked, checkedBefore |-> FALSE, row |-> p1, frames |-> Far, before |-> Near,
   move |-> m1, prev |-> m1, prevEarly |-> FALSE, prevPawn |-> TRUE, easy |-> 487,
   quiets |-> <<>>, captures |-> <<>>, delta |-> delta]
MCNodes ==
  {Node("prior", MAX_PLY, TRUE, 0), Node("reduced", 1, FALSE, 0), Node("multicut", MAX_PLY, FALSE, 1000),
   [Node("prior", 1, TRUE, 0) EXCEPT !.easy = 0, !.prevPawn = FALSE],
   [Node("best", 8, TRUE, 1) EXCEPT !.ply = 0, !.quiets = <<m1>>],
   [Node("best", MAX_PLY, FALSE, 1) EXCEPT !.isCapture = TRUE, !.captures = <<m1>>, !.prevEarly = TRUE],
   [Node("cutoff", MAX_PLY, TRUE, 0) EXCEPT !.prevEarly = TRUE],
   Node("static", 1, FALSE, -500), Node("priorCapture", 1, TRUE, 0), Node("barren", MAX_PLY + 1, FALSE, -64002)}
MCPieces == {0}
Alike    == Permutations(Workers)
=============================================================================
