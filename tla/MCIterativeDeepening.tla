------------------------ MODULE MCIterativeDeepening ------------------------
EXTENDS IterativeDeepening

Asked(values, lines) ==
  [values |-> values, ranks |-> [m \in DOMAIN values |-> 0], multiPv |-> lines, depth |-> 0, mate |-> 0,
   skill |-> FALSE, chatty |-> FALSE, siblings |-> 0,
   inTb |-> FALSE, tb |-> [m \in DOMAIN values |-> 0]]

\* A mate among three moves, and a position that one of them holds.
ThreeMoves == {[Asked(v, n) EXCEPT !.depth = 2, !.chatty = TRUE] : v \in {<<0, 39, 37>>, <<-38, 0, -34>>}, n \in {1, 2}}
\* The same with two moves, one where both lose, one more iteration and a second worker at the vote.
TwoMoves == {[Asked(v, n) EXCEPT !.siblings = 1] : v \in {<<0, 39>>, <<-39, -38>>, <<-38, 0>>}, n \in {1, 2}}
\* Roots in a tablebase, with moves of two ranks and with a mate among won moves.
InTables ==
  {[Asked(<<0, -34, -38>>, 2) EXCEPT !.inTb = TRUE, !.ranks = <<1, 0, 0>>, !.tb = <<0, -35, -35>>, !.depth = 2],
   [Asked(<<34, 39>>, 1) EXCEPT !.inTb = TRUE, !.tb = <<35, 35>>, !.depth = 1, !.chatty = TRUE]}
\* A win and a loss that only the tables see from the root, a weakened player, and a mate that is enough.
Others ==
  {[Asked(<<0, 34>>, 1) EXCEPT !.depth = 2], [Asked(<<-33, -34>>, 1) EXCEPT !.depth = 2, !.chatty = TRUE],
   [Asked(<<-38, 39>>, 1) EXCEPT !.skill = TRUE], [Asked(<<0, 39>>, 1) EXCEPT !.mate = 1]}

MCSearches == ThreeMoves \cup TwoMoves \cup InTables \cup Others
MCGuesses == {0}
MCAverages == {-41, 0}
=============================================================================
