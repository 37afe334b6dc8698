------------------------------ MODULE MoveGen ------------------------------
(* What moves there are and what they do: src/src/engine/board/movegen.c and  *)
(* legality.c.  The order of the generated list is left out; its stages, which *)
(* moves belong to each, are kept.                                            *)
EXTENDS MakeMove

CAPTURES == "CAPTURES"
QUIETS   == "QUIETS"
EVASIONS == "EVASIONS"

\* A promotion by capture is a capture, by a push it is quiet, but the queen is
\* always generated with the captures.
Promotions(from, to, type, enemy) ==
  {Promotion(from, to, pt) : pt \in
     (IF type \in {CAPTURES, EVASIONS} THEN {QUEEN} ELSE {})
       \cup (IF type = EVASIONS \/ type = (IF enemy THEN CAPTURES ELSE QUIETS)
             THEN {ROOK, BISHOP, KNIGHT} ELSE {})}

PawnMoves(p, us, target, type) ==
  LET ksq    == KingSquare(p, us)
      pinned == St(p).blockers[us]
      empty  == Squares \ p.byType[ALL_PIECES]
      pawns  == PiecesCP(p, us, PAWN)
      on7    == {s \in pawns : RelativeRank(us, s) = 6}
      ep     == St(p).ep
      allowed(to)       == type # EVASIONS \/ to \in target
      pushable          == {s \in pawns : s \notin pinned \/ FileOf(s) = FileOf(ksq)}
      \* A pinned pawn takes only along the diagonal it is pinned on.
      mayTake(from, to) == \/ from \notin pinned
                           \/ from \in (IF to - from \in {9, -9} THEN DiagOf(ksq) ELSE AntiDiagOf(ksq))
      steps(S)   == {s \in S \cap pushable : s + Up(us) \in empty}
      doubles    == {s \in steps(pawns \ on7) : RelativeRank(us, s) = 1 /\ s + 2 * Up(us) \in empty}
      takes(S)   == {x \in S \X p.byColor[Flip(us)] :
                       x[2] \in PawnAttacks[us][x[1]] /\ mayTake(x[1], x[2]) /\ allowed(x[2])}
      pushes     == {Move(s, s + Up(us)) : s \in {t \in steps(pawns \ on7) : allowed(t + Up(us))}}
                      \cup {Move(s, s + 2 * Up(us)) : s \in {t \in doubles : allowed(t + 2 * Up(us))}}
      promotes   == UNION ({Promotions(s, s + Up(us), type, FALSE) :
                              s \in {t \in steps(on7) : allowed(t + Up(us))}}
                           \cup {Promotions(x[1], x[2], type, TRUE) : x \in takes(on7)})
      passing    == IF ep = SQ_NONE \/ (type = EVASIONS /\ ep + Up(us) \in target) THEN {}
                    ELSE {s \in pawns \ on7 : ep \in PawnAttacks[us][s] /\ mayTake(s, ep)}
  IN promotes
       \cup (IF type = CAPTURES THEN {} ELSE pushes)
       \cup (IF type = QUIETS THEN {}
             ELSE {Move(x[1], x[2]) : x \in takes(pawns \ on7)}
                    \cup {TypedMove("EN_PASSANT", s, ep) : s \in passing})

\* A pinned piece stays on its pin ray, which a knight cannot.
PieceMoves(p, us, pt, target) ==
  LET ksq    == KingSquare(p, us)
      pinned == St(p).blockers[us]
  IN UNION {{Move(s, t) : t \in {u \in Attacks(pt, s, p.byType[ALL_PIECES]) \cap target :
                                   s \in pinned => pt # KNIGHT /\ u \in Line[ksq][s]}} :
              s \in PiecesCP(p, us, pt)}

\* King takes own rook: the path is clear, no square the king crosses is attacked
\* and the rook does not screen the king.
CastlingMoves(p, us) ==
  LET ksq == KingSquare(p, us)
      can == {cr \in St(p).castlingRights \cap (IF us = WHITE THEN {WHITE_OO, WHITE_OOO}
                                                            ELSE {BLACK_OO, BLACK_OOO}) :
                LET rfrom == p.rookSq[cr]
                    kto   == SquareAt(IF rfrom > ksq THEN 6 ELSE 2, RankOf(ksq))
                IN /\ p.path[cr] \cap p.byType[ALL_PIECES] = {}
                   /\ Between[ksq][kto] \cap AllThreatsBy(p) = {}
                   /\ rfrom \notin St(p).blockers[us]}
  IN {TypedMove("CASTLING", ksq, p.rookSq[cr]) : cr \in can}

\* A double check leaves the king's moves alone.
GenerateAll(p, type) ==
  LET us     == p.stm
      ksq    == KingSquare(p, us)
      chk    == St(p).checkers
      double == type = EVASIONS /\ Cardinality(chk) > 1
      target == CASE type = EVASIONS -> IF double THEN {} ELSE Between[ksq][CHOOSE s \in chk : TRUE]
                  [] type = CAPTURES -> p.byColor[Flip(us)]
                  [] type = QUIETS   -> Squares \ p.byType[ALL_PIECES]
      onto   == (IF type = EVASIONS THEN Squares \ p.byColor[us] ELSE target) \ AllThreatsBy(p)
  IN (IF double THEN {}
      ELSE PawnMoves(p, us, target, type) \cup UNION {PieceMoves(p, us, pt, target) : pt \in KNIGHT..QUEEN})
       \cup {Move(ksq, t) : t \in PseudoAttacks[KING][ksq] \cap onto}
       \cup (IF type = QUIETS THEN CastlingMoves(p, us) ELSE {})

GenerateLegal(p) ==
  IF St(p).checkers # {} THEN GenerateAll(p, EVASIONS)
                         ELSE GenerateAll(p, CAPTURES) \cup GenerateAll(p, QUIETS)

-----------------------------------------------------------------------------
\* legality.c: whether a move from somewhere else, a hash table or a killer
\* slot, is legal here.
Legal(p, m) ==
  LET us   == p.stm
      pc   == p.board[m.from]
      ksq  == KingSquare(p, us)
      chk  == St(p).checkers
      push == m.from + Up(us)
      pawnMove ==
        /\ RankOf(m.to) \notin {0, 7}
        /\ \/ m.to \in PawnAttacks[us][m.from] \cap p.byColor[Flip(us)]
           \/ m.to = push /\ p.board[m.to] = NO_PIECE
           \/ /\ m.to = push + Up(us) /\ RelativeRank(us, m.from) = 1
              /\ p.board[m.to] = NO_PIECE /\ p.board[push] = NO_PIECE
  IN IF m.type # "NORMAL" THEN m \in GenerateLegal(p)
     ELSE /\ pc # NO_PIECE /\ ColorOf(pc) = us
          /\ m.to \notin p.byColor[us]
          /\ IF TypeOf(pc) = PAWN THEN pawnMove
             ELSE m.to \in Attacks(TypeOf(pc), m.from, p.byType[ALL_PIECES])
          /\ IF TypeOf(pc) = KING THEN m.to \notin AllThreatsBy(p)
             ELSE /\ Cardinality(chk) <= 1
                  /\ \A s \in chk : m.to \in Between[ksq][s]
                  /\ m.from \in St(p).blockers[us] => ksq \in Line[m.from][m.to]

GivesCheck(p, m) ==
  LET us   == p.stm
      them == Flip(us)
      ksq  == KingSquare(p, them)
      occ  == p.byType[ALL_PIECES]
      sees(o) == \E pt \in {BISHOP, ROOK} :
                        Attacks(pt, ksq, o) \cap p.byColor[us] \cap (p.byType[pt] \cup p.byType[QUEEN]) # {}
  IN \/ m.to \in St(p).checkSquares[TypeOf(p.board[m.from])]
     \/ IF m.from \in St(p).blockers[them]
        THEN ksq \notin Line[m.from][m.to] \/ m.type = "CASTLING"
        ELSE CASE m.type = "NORMAL"     -> FALSE
               [] m.type = "PROMOTION"  -> ksq \in Attacks(m.promo, m.to, occ \ {m.from})
               [] m.type = "EN_PASSANT" ->
                    sees((occ \ {m.from, SquareAt(FileOf(m.to), RankOf(m.from))}) \cup {m.to})
               [] m.type = "CASTLING"   ->
                    SquareAt(IF m.to > m.from THEN 5 ELSE 3, IF us = WHITE THEN 0 ELSE 7)
                      \in St(p).checkSquares[ROOK]

\* Slip: a pawn's capture uncovers nothing behind it.
SeenBehindPieces(p, to, pt, occ) ==
  LET lines(dir) == Attacks(dir, to, occ) \cap (p.byType[dir] \cup p.byType[QUEEN])
  IN (IF pt \in {BISHOP, QUEEN} THEN lines(BISHOP) ELSE {})
       \cup (IF pt \in {ROOK, QUEEN} THEN lines(ROOK) ELSE {})

\* The sliders a departed attacker of type pt lets through.
SeenBehind(p, to, pt, occ) ==
  LET lines(dir) == Attacks(dir, to, occ) \cap (p.byType[dir] \cup p.byType[QUEEN])
  IN (IF pt \in {PAWN, BISHOP, QUEEN} THEN lines(BISHOP) ELSE {})
       \cup (IF pt \in {ROOK, QUEEN} THEN lines(ROOK) ELSE {})

\* The exchange on the destination square, least valuable attacker first: does
\* the mover come out at least the threshold ahead?
SeeGe(p, m, threshold) ==
  LET to    == m.to
      value(s) == IF p.board[s] = NO_PIECE THEN 0 ELSE PieceValue(p.board[s])
      swap0 == value(to) - threshold
      swap1 == value(m.from) - swap0
      occ0  == Xor(p.byType[ALL_PIECES], {m.from, to})
      \* One turn of the loop: nothing left to take with ends it.
      turn(x) ==
        LET stm   == Flip(x.stm)
            att   == x.attackers \cap x.occ
            free  == (att \cap p.byColor[stm])
                       \ (IF St(p).pinners[Flip(stm)] \cap x.occ # {} THEN St(p).blockers[stm] ELSE {})
            pt    == Min({TypeOf(p.board[s]) : s \in free})
            least == Min({s \in free : TypeOf(p.board[s]) = pt})
            swap  == PieceValue(pt) - x.swap
            res   == ~x.res
            occ   == x.occ \ {least}
            seen  == SeenBehind(p, to, pt, occ)
        IN CASE x.done \/ free = {} -> [x EXCEPT !.done = TRUE]
             [] ~x.done /\ free # {} /\ pt = KING ->
                  [x EXCEPT !.done = TRUE,
                            !.res = IF att \ p.byColor[stm] # {} THEN ~res ELSE res]
             [] ~x.done /\ free # {} /\ pt # KING /\ pt # QUEEN /\ swap < (IF res THEN 1 ELSE 0) ->
                  [x EXCEPT !.done = TRUE, !.res = res]
             [] OTHER -> [x EXCEPT !.stm = stm, !.res = res, !.swap = swap, !.occ = occ,
                                   !.attackers = att \cup seen]
      loop[n \in Nat] == IF n = 0 THEN [stm |-> p.stm, res |-> TRUE, swap |-> swap1, occ |-> occ0,
                                        attackers |-> AttackersTo(p, to, occ0), done |-> FALSE]
                                  ELSE turn(loop[n - 1])
  IN IF m.type # "NORMAL" THEN 0 >= threshold
     ELSE swap0 >= 0 /\ (swap1 <= 0 \/ loop[Cardinality(p.byType[ALL_PIECES])].res)
=============================================================================
