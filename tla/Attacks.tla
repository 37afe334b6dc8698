------------------------------ MODULE Attacks ------------------------------
(* The board geometry: src/src/engine/board/attacks.c, bitboard.h and the     *)
(* piece encoding of types.h.  A bitboard is the set of its squares, a square *)
(* is its index 0..63 (a1 = 0, h8 = 63), a table is a constant function.  The *)
(* magic and the hyperbola lookups both answer what sliding_attack answers,   *)
(* the ray cast they are built from: that is what is written here.            *)
EXTENDS Integers, FiniteSets

Squares == 0..63
SQ_NONE == 64
WHITE   == 0
BLACK   == 1
Colors  == {WHITE, BLACK}

PAWN   == 1
KNIGHT == 2
BISHOP == 3
ROOK   == 4
QUEEN  == 5
KING   == 6
PieceTypes == PAWN..KING
NO_PIECE   == 0
ALL_PIECES == 0

MakePiece(c, pt) == 8 * c + pt
TypeOf(pc)       == pc % 8
ColorOf(pc)      == pc \div 8
Flip(c)          == 1 - c
Pieces           == {MakePiece(c, pt) : c \in Colors, pt \in PieceTypes}

RankOf(s)          == s \div 8
FileOf(s)          == s % 8
SquareAt(f, r)     == 8 * r + f
RelativeRank(c, s) == IF c = WHITE THEN RankOf(s) ELSE 7 - RankOf(s)
Up(c)              == IF c = WHITE THEN 8 ELSE -8

\* The squares of S's row of steps <<df, dr>>, 1 to N times, that stay on the board.
Walk(s, d, n) ==
  {SquareAt(FileOf(s) + k * d[1], RankOf(s) + k * d[2]) :
     k \in {i \in 1..n : /\ FileOf(s) + i * d[1] \in 0..7
                         /\ RankOf(s) + i * d[2] \in 0..7}}

RookDirs    == {<<0, 1>>, <<0, -1>>, <<1, 0>>, <<-1, 0>>}
BishopDirs  == {<<1, 1>>, <<1, -1>>, <<-1, 1>>, <<-1, -1>>}
KnightSteps == {<<a, b>> \in {-2, -1, 1, 2} \X {-2, -1, 1, 2} : a # b /\ a # -b}

PawnAttacks ==
  [c \in Colors |-> [s \in Squares |->
    UNION {Walk(s, <<df, IF c = WHITE THEN 1 ELSE -1>>, 1) : df \in {-1, 1}}]]

PawnAttacksFrom(c, S) == UNION {PawnAttacks[c][s] : s \in S}

\* What a piece of the type attacks from the square on an empty board.
DirectionsOf(pt) == CASE pt = KNIGHT -> KnightSteps
                      [] pt = BISHOP -> BishopDirs
                      [] pt = ROOK   -> RookDirs
                      [] OTHER       -> RookDirs \cup BishopDirs

PseudoAttacks ==
  [pt \in KNIGHT..KING |-> [s \in Squares |->
    UNION {Walk(s, d, IF pt \in {KNIGHT, KING} THEN 1 ELSE 7) : d \in DirectionsOf(pt)}]]

\* The squares after s1 up to s2, s2 included; of two squares out of line, s2 alone.
Distance(s1, s2) ==
  CHOOSE n \in 0..7 : /\ {FileOf(s1) - FileOf(s2), RankOf(s1) - RankOf(s2)} \subseteq -n..n
                      /\ n \in {FileOf(s1) - FileOf(s2), FileOf(s2) - FileOf(s1),
                                RankOf(s1) - RankOf(s2), RankOf(s2) - RankOf(s1)}

Between ==
  [s1 \in Squares |-> [s2 \in Squares |->
    {s2} \cup UNION {w \in {Walk(s1, d, Distance(s1, s2)) : d \in RookDirs \cup BishopDirs} : s2 \in w}]]

\* The whole line through the two squares, or nothing when they share none.
LineAlong(s, d) == {s} \cup Walk(s, d, 7) \cup Walk(s, <<-d[1], -d[2]>>, 7)

Line ==
  [s1 \in Squares |-> [s2 \in Squares |->
    UNION {line \in {LineAlong(s1, d) : d \in RookDirs \cup BishopDirs} : s1 # s2 /\ s2 \in line}]]

DiagOf(s)     == LineAlong(s, <<1, 1>>)
AntiDiagOf(s) == LineAlong(s, <<-1, 1>>)

\* A slider sees each square it reaches until, and including, the first one occupied.
Attacks(pt, s, occ) ==
  {t \in PseudoAttacks[pt][s] : pt \in {BISHOP, ROOK, QUEEN} => (Between[s][t] \cap occ) \subseteq {t}}
=============================================================================
