------------------------------- MODULE MCGame -------------------------------
\* The roots of Game, drawn as boards from the eighth rank down: white's men in
\* capitals, o an empty square.
EXTENDS Game

o == 0
P == 1
N == 2
B == 3
R == 4
Q == 5
K == 6
p == 9
n == 10
b == 11
r == 12
q == 13
k == 14

Void == <<o, o, o, o, o, o, o, o>>
Board(rows) == [s \in Squares |-> rows[8 - RankOf(s)][FileOf(s) + 1]]
Pos(rows, stm, castling, ep) ==
  [board |-> Board(rows), stm |-> stm, castling |-> castling, ep |-> ep, rule50 |-> 0, fullmove |-> 1]

\* Every legal move, one or two deep.
Wide(fen, chess960, depth) ==
  [fen |-> fen, chess960 |-> chess960, moves |-> {}, depth |-> depth,
   nulls |-> FALSE, evals |-> FALSE, steps |-> 0]
Both(fen, chess960, depth) == {Wide(fen, chess960, depth), Wide(FlipFen(fen), chess960, depth)}

W == WHITE
X == BLACK

\* Both sides may castle both ways; a bishop watches f1, a pawn promotes on a rook.
Castles == Pos(<<<<r, o, o, o, k, o, o, r>>, <<o, P, o, o, o, o, o, o>>, Void, Void,
                 Void, Void, <<o, o, o, o, o, o, b, o>>, <<R, o, o, o, K, o, o, R>>>>,
               W, <<<<W, K_TOKEN>>, <<W, Q_TOKEN>>, <<X, K_TOKEN>>, <<X, Q_TOKEN>>>>, SQ_NONE)

\* Chess960: king and rook land on each other's squares, and the rook on b1
\* screens its king from the one on a1.
Screened == Pos(<<<<o, r, o, o, o, k, r, o>>, Void, Void, Void, Void, Void, Void,
                  <<r, R, K, o, o, o, R, o>>>>,
                W, <<<<W, 1>>, <<W, 6>>, <<X, 6>>, <<X, 1>>>>, SQ_NONE)

\* Two tokens of one right, the one the king's castling means being the second.
TwoTokens == Pos(<<<<o, o, o, o, k, o, o, o>>, Void, Void, Void, Void, Void, Void,
                   <<R, R, o, K, o, o, o, o>>>>, W, <<<<W, 0>>, <<W, 1>>>>, SQ_NONE)

\* Double pushes: past one pawn shielding its king along the rank, past two,
\* opening a diagonal, and beside a pawn pinned along or across its capture.
AlongRank == Pos(<<Void, Void, Void, Void, <<k, o, o, p, o, p, o, R>>, Void,
                   <<o, o, P, o, P, o, P, o>>, <<o, o, o, o, K, o, o, o>>>>, W, <<>>, SQ_NONE)
Discovers == Pos(<<Void, Void, Void, <<o, o, o, o, o, o, o, k>>, <<o, o, o, p, o, p, o, o>>, Void,
                   <<o, o, o, o, P, o, o, o>>, <<K, o, o, Q, o, o, o, o>>>>, W, <<>>, SQ_NONE)
Pinned    == Pos(<<Void, <<k, o, o, o, o, o, o, o>>, Void, Void, <<o, o, o, p, o, o, o, o>>, Void,
                   <<o, o, P, o, P, o, o, o>>, <<K, o, o, o, o, o, B, o>>>>, W, <<>>, SQ_NONE)
Checked   == Pos(<<Void, Void, Void, <<o, o, o, k, o, o, o, o>>, <<o, o, o, p, o, o, o, o>>, Void,
                   <<o, o, P, o, P, o, o, o>>, <<K, o, o, R, o, o, o, o>>>>, W, <<>>, SQ_NONE)

\* Pins, a discovered check, an x-ray and a long exchange on d5.
Melee == Pos(<<<<o, o, o, q, k, o, o, o>>, <<o, o, o, r, o, o, o, o>>, <<o, o, p, o, n, o, o, o>>,
               <<o, o, o, p, o, o, o, o>>, <<o, o, P, o, P, o, o, o>>, <<o, o, N, o, o, B, o, o>>,
               <<o, o, o, R, R, o, o, o>>, <<o, o, o, Q, K, o, o, o>>>>, W, <<>>, SQ_NONE)

\* The pawn that takes back on d5 lets the bishop behind it through.
Uncovered == Pos(<<<<o, o, o, r, o, o, o, k>>, Void, <<o, o, p, o, o, o, o, o>>,
                   <<o, o, o, p, o, o, o, o>>, <<o, o, o, o, P, o, o, o>>, <<o, o, N, o, o, B, o, o>>,
                   Void, <<K, o, o, o, o, o, o, o>>>>, W, <<>>, SQ_NONE)

\* Nothing but kings and bishops can move behind locked pawns.
Locked == [Pos(<<<<o, o, o, o, o, b, o, k>>, <<o, o, o, o, p, o, p, o>>, <<o, o, o, o, P, o, P, o>>,
                 Void, Void, <<o, p, o, p, o, o, o, o>>, <<o, P, o, P, o, o, o, o>>,
                 <<K, o, B, o, o, o, o, o>>>>, W, <<>>, SQ_NONE) EXCEPT !.rule50 = 92]

Cycle(depth) ==
  [Wide(Locked, FALSE, depth) EXCEPT !.nulls = TRUE,
     !.moves = {<<0, 1>>, <<1, 0>>, <<63, 62>>, <<62, 63>>, <<0, 8>>, <<8, 0>>}]

\* Trees walked with evaluations: a king that crosses the board's middle and
\* takes, castling, a queen taken, en passant, a promotion, a slider uncovered.
Walked(fen, moves, most) ==
  [fen |-> fen, chess960 |-> FALSE, moves |-> moves, depth |-> 3,
   nulls |-> TRUE, evals |-> TRUE, steps |-> most]

Kings  == Pos(<<<<o, o, o, o, k, o, o, o>>, <<p, p, o, o, o, o, o, p>>, Void, Void, Void,
                <<o, o, o, o, n, o, o, o>>, <<P, o, o, K, o, o, P, o>>, <<o, o, B, o, o, o, o, R>>>>,
              W, <<>>, SQ_NONE)
Queens == Pos(<<<<r, o, o, o, k, o, o, o>>, <<o, P, o, p, o, o, o, o>>, <<o, o, o, q, o, o, o, o>>,
                <<o, o, o, o, P, o, o, o>>, Void, Void, <<o, P, o, o, o, o, o, o>>,
                <<o, o, o, R, K, o, o, R>>>>, X, <<<<W, K_TOKEN>>, <<X, Q_TOKEN>>>>, SQ_NONE)

\* Values on both sides of every threshold, with ties.
MCScore(kind, m) ==
  IF kind = QUIETS THEN ((7 * m.from + 5 * m.to) % 9) * 4000 - 20000
                   ELSE ((3 * m.from + m.to) % 7) * 900 - 1800

MCLines ==
  Both(Castles, FALSE, 1) \cup Both(Screened, TRUE, 1) \cup Both(TwoTokens, TRUE, 2)
    \cup UNION {Both(f, FALSE, 2) : f \in {AlongRank, Discovers, Pinned, Checked}}
    \cup Both(Melee, FALSE, 1) \cup Both(Uncovered, FALSE, 1)
    \cup {Cycle(6)}
    \cup {Walked(Queens, {<<43, 11>>, <<60, 56>>, <<4, 11>>, <<4, 7>>, <<49, 57>>, <<49, 56>>, <<51, 35>>, <<36, 43>>}, 4)}
    \cup {Walked(Kings, {<<11, 12>>, <<11, 20>>, <<11, 10>>, <<60, 59>>, <<12, 11>>}, 5)}
=============================================================================
