---------------------------- MODULE MCSearchTree ----------------------------
(* Four abstract games of ten positions each, drawn so that every step of   *)
(* the search is taken in one of them: a quiet move and a capture, whether  *)
(* the side to move is in check, its static value, whether it has pieces,   *)
(* the position after a null move and the tables' value.                    *)
EXTENDS SearchTree

Q(to) == [to |-> to, cap |-> FALSE]
X(to) == [to |-> to, cap |-> TRUE]
P(moves, check, eval, npm, null, tb) ==
  [moves |-> moves, check |-> check, eval |-> eval, npm |-> npm, null |-> null, tb |-> tb]
Of(ps) == [root  |-> 1,
           moves |-> [p \in DOMAIN ps |-> ps[p].moves], check |-> [p \in DOMAIN ps |-> ps[p].check],
           eval  |-> [p \in DOMAIN ps |-> ps[p].eval], npm |-> [p \in DOMAIN ps |-> ps[p].npm],
           null  |-> [p \in DOMAIN ps |-> ps[p].null], tb |-> [p \in DOMAIN ps |-> ps[p].tb]]

Game1 ==
  <<
    P(<<Q(8), Q(4), Q(6)>>, FALSE, 9, TRUE, 8, NONE),
    P(<<>>, FALSE, -10, TRUE, 0, NONE),
    P(<<Q(6), Q(8)>>, FALSE, -9, FALSE, 0, NONE),
    P(<<Q(3), Q(5), Q(9)>>, TRUE, 10, FALSE, 0, NONE),
    P(<<Q(2), X(6), Q(10)>>, TRUE, -9, TRUE, 0, 2),
    P(<<X(5), X(3)>>, FALSE, -7, TRUE, 1, NONE),
    P(<<X(10), Q(6)>>, FALSE, 7, TRUE, 10, 1),
    P(<<X(1), Q(7)>>, FALSE, 2, TRUE, 0, NONE),
    P(<<Q(2), Q(8)>>, FALSE, 9, TRUE, 2, NONE),
    P(<<X(3), X(1)>>, FALSE, 4, TRUE, 7, NONE)>>

Game2 ==
  <<
    P(<<Q(6), X(2), Q(4)>>, FALSE, -6, TRUE, 0, NONE),
    P(<<Q(7), Q(1)>>, FALSE, 0, TRUE, 5, NONE),
    P(<<Q(10), Q(4)>>, FALSE, -9, TRUE, 6, NONE),
    P(<<X(3), Q(9)>>, FALSE, 3, TRUE, 3, 1),
    P(<<Q(8), Q(10), X(4)>>, FALSE, 2, TRUE, 2, 1),
    P(<<X(3), Q(7)>>, FALSE, -3, TRUE, 0, NONE),
    P(<<>>, TRUE, 9, FALSE, 0, 0),
    P(<<X(1), Q(7)>>, TRUE, -12, TRUE, 0, NONE),
    P(<<X(2), Q(10)>>, TRUE, -9, TRUE, 0, NONE),
    P(<<Q(1), Q(7)>>, TRUE, 7, TRUE, 0, 1)>>

Game3 ==
  <<
    P(<<Q(2), Q(6)>>, FALSE, -5, TRUE, 4, NONE),
    P(<<X(7), X(9)>>, FALSE, -1, TRUE, 1, NONE),
    P(<<>>, FALSE, 5, TRUE, 2, NONE),
    P(<<X(7), X(3)>>, FALSE, 12, TRUE, 0, NONE),
    P(<<Q(2), Q(10), X(6)>>, TRUE, 5, TRUE, 0, NONE),
    P(<<X(7), Q(9)>>, FALSE, 10, FALSE, 1, NONE),
    P(<<X(2), Q(8)>>, FALSE, 7, TRUE, 6, NONE),
    P(<<Q(5)>>, FALSE, -7, TRUE, 7, NONE),
    P(<<X(8)>>, FALSE, -7, FALSE, 4, NONE),
    P(<<Q(1), Q(5), Q(3)>>, TRUE, 5, TRUE, 0, NONE)>>

Game4 ==
  <<
    P(<<Q(6), Q(4)>>, FALSE, 10, FALSE, 0, NONE),
    P(<<Q(1), X(5), X(3)>>, TRUE, 11, TRUE, 0, NONE),
    P(<<X(2), X(6), X(8)>>, TRUE, 8, TRUE, 0, NONE),
    P(<<Q(5), X(3)>>, FALSE, -4, TRUE, 0, NONE),
    P(<<Q(8), X(10), Q(6)>>, TRUE, -12, TRUE, 0, NONE),
    P(<<Q(9), Q(7), X(5)>>, TRUE, -9, TRUE, 0, NONE),
    P(<<Q(2), Q(4)>>, FALSE, 5, TRUE, 4, NONE),
    P(<<Q(5)>>, FALSE, 12, TRUE, 7, 2),
    P(<<X(2)>>, FALSE, 2, TRUE, 4, NONE),
    P(<<>>, TRUE, 4, TRUE, 0, NONE)>>

MCGames == {Of(Game1), Of(Game2), Of(Game3), Of(Game4)}
MCFrom == [s \in Steps |-> CASE s = "singular" -> 3 [] s = "verify" -> 3 [] s = "cut" -> 3
                           [] s = "penalize" -> 3 [] s = "confirm" -> 3 [] OTHER -> 2]
=============================================================================
