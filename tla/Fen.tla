-------------------------------- MODULE Fen --------------------------------
(* Positions and moves as the outside names them: pos_set_reason and          *)
(* pos_flip_fen of src/src/engine/board/position.c, fen.c and uci_move.c.  A  *)
(* FEN is the record of its six fields; the castling field is the sequence of *)
(* its tokens: a colour, and a file 0..7 or the letter K or Q.                *)
EXTENDS MoveGen, SequencesExt

K_TOKEN == 8
Q_TOKEN == 9

RightOf(c, kingSide) == IF c = WHITE THEN (IF kingSide THEN WHITE_OO ELSE WHITE_OOO)
                                     ELSE (IF kingSide THEN BLACK_OO ELSE BLACK_OOO)

\* One right, one rook: a second token of the same right takes it over.
SetCastlingRight(p, c, rfrom) ==
  LET kfrom == KingSquare(p, c)
      side  == rfrom >= kfrom
      cr    == RightOf(c, side)
      kto   == SquareAt(IF side THEN 6 ELSE 2, RankOf(kfrom))
      rto   == SquareAt(IF side THEN 5 ELSE 3, RankOf(kfrom))
      held  == St(p).castlingRights
      freed == IF cr \in held THEN [p.mask EXCEPT ![p.rookSq[cr]] = @ \ {cr}] ELSE p.mask
  IN [p EXCEPT !.sts[Len(p.sts)].castlingRights = @ \cup {cr},
               !.mask = [freed EXCEPT ![kfrom] = @ \cup {cr}, ![rfrom] = @ \cup {cr}],
               !.rookSq[cr] = rfrom,
               !.path[cr] = (Between[rfrom][rto] \cup Between[kfrom][kto] \cup {kto, rto})
                              \ {kfrom, rfrom}]

\* K and Q scan inward from the corner and take the first rook before the king; a
\* file names its rook, with the king between the edge files.  A right whose king
\* or rook is missing is dropped.
TokenRook(p, tok) ==
  LET c      == tok[1]
      at(f)  == SquareAt(f, IF c = WHITE THEN 0 ELSE 7)
      on(pt) == {f \in 0..7 : p.board[at(f)] = MakePiece(c, pt)}
      outer(S) == IF tok[2] = K_TOKEN THEN Max(S) ELSE Min(S)
      edge   == IF tok[2] = K_TOKEN THEN 0 ELSE 7
  IN IF tok[2] \in {K_TOKEN, Q_TOKEN}
     THEN LET kings == on(KING) \ {edge}
              rooks == {f \in on(ROOK) : \E k \in kings : IF tok[2] = K_TOKEN THEN f > k ELSE f < k}
          IN IF rooks = {} THEN {} ELSE {at(outer(rooks))}
     ELSE IF tok[2] \in on(ROOK) /\ on(KING) \cap 1..6 # {} THEN {at(tok[2])} ELSE {}

WithRights(p, toks) ==
  FoldLeft(LAMBDA q, tok : LET r == TokenRook(q, tok)
                           IN IF r = {} THEN q ELSE SetCastlingRight(q, tok[1], CHOOSE s \in r : TRUE),
           p, toks)

\* The en passant square is kept when some capturer may really take there.
UsableEp(p, ep) ==
  LET them      == Flip(p.stm)
      up        == Up(p.stm)
      capturers == PawnAttacks[them][ep] \cap PiecesCP(p, p.stm, PAWN)
      target    == PiecesCP(p, them, PAWN) \cap {ep - up}
      occ       == Xor(Xor(p.byType[ALL_PIECES], target), {ep})
  IN /\ target # {} /\ p.byType[ALL_PIECES] \cap {ep, ep + up} = {}
     /\ \E s \in capturers :
          (AttackersTo(p, KingSquare(p, p.stm), Xor(occ, {s})) \cap p.byColor[them]) \ target = {}

\* What the parser refuses before it has a position, beside malformed text.
WellFormed(fen) ==
  LET on(c, pt) == Cardinality({s \in Squares : fen.board[s] = MakePiece(c, pt)})
      extra(c, pt, n) == IF on(c, pt) > n THEN on(c, pt) - n ELSE 0
  IN /\ Cardinality({s \in Squares : fen.board[s] # NO_PIECE}) <= 32
     /\ \A s \in Squares : RankOf(s) \in {0, 7} => TypeOf(fen.board[s]) # PAWN
     /\ \A c \in Colors :
          /\ on(c, KING) = 1 /\ on(c, PAWN) <= 8
          /\ extra(c, KNIGHT, 2) + extra(c, BISHOP, 2) + extra(c, ROOK, 2) + extra(c, QUEEN, 1)
               <= 8 - on(c, PAWN)
     /\ Len(fen.castling) <= 4
     /\ fen.ep = SQ_NONE \/ RankOf(fen.ep) = (IF fen.stm = WHITE THEN 5 ELSE 2)
     /\ fen.rule50 \in 0..32767 /\ fen.fullmove \in 0..100000

SetPosition(fen, chess960) ==
  LET occ  == {s \in Squares : fen.board[s] # NO_PIECE}
      root == [rule50 |-> fen.rule50, pliesFromNull |-> 0, ep |-> SQ_NONE, castlingRights |-> {},
               checkers |-> {}, blockers |-> <<>>, pinners |-> <<>>, checkSquares |-> <<>>,
               captured |-> NO_PIECE, repetition |-> 0]
      p    == [board |-> fen.board,
               byType |-> [pt \in 0..KING |->
                 {s \in occ : pt = ALL_PIECES \/ TypeOf(fen.board[s]) = pt}],
               byColor |-> [c \in Colors |-> {s \in occ : ColorOf(fen.board[s]) = c}],
               pieceCount |-> [pc \in Pieces \cup {NO_PIECE} |->
                 IF pc = NO_PIECE THEN 0 ELSE Cardinality({s \in occ : fen.board[s] = pc})],
               stm |-> fen.stm, chess960 |-> chess960,
               gamePly |-> 2 * (IF fen.fullmove > 0 THEN fen.fullmove - 1 ELSE 0) + fen.stm,
               rookSq |-> [cr \in Rights |-> 0], path |-> [cr \in Rights |-> {}],
               mask |-> [s \in Squares |-> {}], sts |-> <<root>>, dts |-> <<>>]
      q    == WithRights(p, fen.castling)
      ep   == IF fen.ep # SQ_NONE /\ UsableEp(q, fen.ep) THEN fen.ep ELSE SQ_NONE
      r    == [q EXCEPT !.sts[1].ep = ep,
                        !.sts[1].checkers = AttackersTo(q, KingSquare(q, q.stm), occ)
                                              \cap q.byColor[Flip(q.stm)]]
  IN ExtraBitboards([r EXCEPT !.sts[1] = FromScratch(r) @@ @])

\* The last refusal: the side that has just moved may not be in check.
Accepted(fen) ==
  LET safe(p) == AttackersTo(p, KingSquare(p, Flip(p.stm)), p.byType[ALL_PIECES]) \cap p.byColor[p.stm] = {}
  IN WellFormed(fen) /\ safe(SetPosition(fen, FALSE))

\* pos_fen: in Chess960 a right is named by the file of its rook.
FenOf(p) ==
  LET token(cr) == <<IF cr \in {WHITE_OO, WHITE_OOO} THEN WHITE ELSE BLACK,
                     IF p.chess960 THEN FileOf(p.rookSq[cr])
                     ELSE IF cr \in {WHITE_OO, BLACK_OO} THEN K_TOKEN ELSE Q_TOKEN>>
  IN [board |-> p.board, stm |-> p.stm, ep |-> St(p).ep, rule50 |-> St(p).rule50,
      castling |-> FlattenSeq([i \in 1..4 |->
                     LET cr == <<WHITE_OO, WHITE_OOO, BLACK_OO, BLACK_OOO>>[i]
                     IN IF cr \in St(p).castlingRights THEN <<token(cr)>> ELSE <<>>]),
      fullmove |-> 1 + (p.gamePly - p.stm) \div 2]

\* pos_flip_fen: the ranks and the colours change ends; the counters do not.
Mirror(s) == SquareAt(FileOf(s), 7 - RankOf(s))
FlipFen(fen) ==
  [fen EXCEPT !.board = [s \in Squares |->
                 LET pc == fen.board[Mirror(s)]
                 IN IF pc = NO_PIECE THEN NO_PIECE ELSE MakePiece(Flip(ColorOf(pc)), TypeOf(pc))],
              !.stm = Flip(@),
              !.castling = [i \in DOMAIN @ |-> <<Flip(@[i][1]), @[i][2]>>],
              !.ep = IF @ = SQ_NONE THEN SQ_NONE ELSE Mirror(@)]

\* uci_move.c.  Standard chess writes where a castling king arrives.
MoveToUci(p, m) ==
  <<m.from,
    IF m.type = "CASTLING" /\ ~p.chess960 THEN CastlingSquares(m).kto ELSE m.to,
    IF m.type = "PROMOTION" THEN m.promo ELSE NO_PIECE>>

\* The legal moves written that way; the code takes the first it generates.
MovesFromUci(p, text) == {m \in GenerateLegal(p) : MoveToUci(p, m) = text}
=============================================================================
