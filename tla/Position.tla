------------------------------ MODULE Position ------------------------------
(* A position and the moves that change it: src/src/engine/board/position.c.  *)
(* A Position is a record; its StateInfo chain is the sequence sts, pos->st   *)
(* the last of it and st->previous the one before.  A Zobrist key is the set  *)
(* of the random numbers XORed into it, each named by an integer, so keys are *)
(* equal when, and only when, the code's are but for hash collisions.         *)
EXTENDS Threats, Sequences, FiniteSetsExt

\* The tables zobrist_init draws: psq[pc][s] is 64 * pc + s, but for a pawn on
\* the rank it promotes on, whose entry is zero.
Psq(pc, s)     == IF TypeOf(pc) = PAWN /\ RelativeRank(ColorOf(pc), s) = 7 THEN {} ELSE {64 * pc + s}
EpKey(f)       == {1000 + f}
CastlingKey(r) == {1100 + SumSet(r)}
SideKey        == {1200}
NoPawnsKey     == {1201}
Xor(K, L)      == SymDiff(K, L)

\* CastlingRights of types.h; a set of rights is the code's mask.
WHITE_OO  == 1
WHITE_OOO == 2
BLACK_OO  == 4
BLACK_OOO == 8
Rights    == {WHITE_OO, WHITE_OOO, BLACK_OO, BLACK_OOO}

PieceValue(pc) == <<208, 781, 825, 1276, 2538, 0>>[TypeOf(pc)]

St(p)               == p.sts[Len(p.sts)]
PiecesCP(p, c, pt)  == p.byColor[c] \cap p.byType[pt]
KingSquare(p, c)    == CHOOSE s \in PiecesCP(p, c, KING) : TRUE

\* The mutators of the board.
PutPiece(p, pc, s) ==
  [p EXCEPT !.board[s] = pc, !.byType[ALL_PIECES] = @ \cup {s},
            !.byType[TypeOf(pc)] = @ \cup {s}, !.byColor[ColorOf(pc)] = @ \cup {s},
            !.pieceCount[pc] = @ + 1]

RemovePiece(p, s) ==
  LET pc == p.board[s]
  IN [p EXCEPT !.board[s] = NO_PIECE, !.byType[ALL_PIECES] = Xor(@, {s}),
               !.byType[TypeOf(pc)] = Xor(@, {s}), !.byColor[ColorOf(pc)] = Xor(@, {s}),
               !.pieceCount[pc] = @ - 1]

MovePiece(p, from, to) ==
  LET pc == p.board[from]
  IN [p EXCEPT !.board[from] = NO_PIECE, !.board[to] = pc,
               !.byType[ALL_PIECES] = Xor(@, {from, to}), !.byType[TypeOf(pc)] = Xor(@, {from, to}),
               !.byColor[ColorOf(pc)] = Xor(@, {from, to})]

SwapPiece(p, s, pc) == PutPiece(RemovePiece(p, s), pc, s)

\* The same when a threat list is passed: a removal is scanned before the board
\* changes, a placement after.  The list is kept scan by scan.
Record(p, scan) == [p EXCEPT !.dts = Append(@, scan)]

RecordedPut(p, pc, s) ==
  LET q == PutPiece(p, pc, s) IN Record(q, UpdatePieceThreats(TRUE, q, pc, TRUE, s, Squares))

RecordedRemove(p, s) ==
  RemovePiece(Record(p, UpdatePieceThreats(TRUE, p, p.board[s], FALSE, s, Squares)), s)

RecordedMove(p, from, to) ==
  LET pc == p.board[from]
      q  == MovePiece(Record(p, UpdatePieceThreats(TRUE, p, pc, FALSE, from, {from, to})), from, to)
  IN Record(q, UpdatePieceThreats(TRUE, q, pc, TRUE, to, {from, to}))

RecordedSwap(p, s, pc) ==
  LET q == SwapPiece(p, s, pc)
  IN Record(Record(q, UpdatePieceThreats(FALSE, q, p.board[s], FALSE, s, Squares)),
            UpdatePieceThreats(FALSE, q, pc, TRUE, s, Squares))

AttackersTo(p, s, occ) ==
  {t \in p.byType[PAWN] : s \in PawnAttacks[ColorOf(p.board[t])][t]}
    \cup UNION {PseudoAttacks[pt][s] \cap p.byType[pt] : pt \in {KNIGHT, KING}}
    \cup (Attacks(ROOK, s, occ) \cap (p.byType[ROOK] \cup p.byType[QUEEN]))
    \cup (Attacks(BISHOP, s, occ) \cap (p.byType[BISHOP] \cup p.byType[QUEEN]))

\* The lone pieces between C's king and an enemy slider, and the sliders that
\* have a piece of C's there.
SliderBlockers(p, c) ==
  LET ksq     == KingSquare(p, c)
      snipers == p.byColor[Flip(c)]
                   \cap ((PseudoAttacks[ROOK][ksq] \cap (p.byType[ROOK] \cup p.byType[QUEEN]))
                         \cup (PseudoAttacks[BISHOP][ksq] \cap (p.byType[BISHOP] \cup p.byType[QUEEN])))
      occ     == p.byType[ALL_PIECES] \ snipers
      lone    == {s \in snipers : Cardinality(Between[ksq][s] \cap occ) = 1}
  IN [blockers |-> UNION {Between[ksq][s] \cap occ : s \in lone},
      pinners  |-> {s \in lone : Between[ksq][s] \cap occ \subseteq p.byColor[c]}]

\* Slip: the king shadows the squares behind it.
ThreatsByShadowed(p, pt) ==
  LET them == Flip(p.stm)
  IN IF pt = PAWN THEN PawnAttacksFrom(them, PiecesCP(p, them, PAWN))
                  ELSE UNION {Attacks(pt, s, p.byType[ALL_PIECES]) : s \in PiecesCP(p, them, pt)}

\* What the side not to move attacks; its sliders see through the mover's king.
\* The code fills the per-type sets on the first read of them in a node.
ThreatsBy(p, pt) ==
  LET them == Flip(p.stm)
      occ  == p.byType[ALL_PIECES] \ PiecesCP(p, p.stm, KING)
  IN IF pt = PAWN THEN PawnAttacksFrom(them, PiecesCP(p, them, PAWN))
                  ELSE UNION {Attacks(pt, s, occ) : s \in PiecesCP(p, them, pt)}

AllThreatsBy(p) == UNION {ThreatsBy(p, pt) : pt \in PieceTypes}

\* set_extra_bitboards, on the last StateInfo.
ExtraBitboards(p) ==
  LET b   == [c \in Colors |-> SliderBlockers(p, c)]
      ksq == KingSquare(p, Flip(p.stm))
      occ == p.byType[ALL_PIECES]
  IN [p EXCEPT !.sts[Len(p.sts)].blockers     = [c \in Colors |-> b[c].blockers],
               !.sts[Len(p.sts)].pinners      = [c \in Colors |-> b[Flip(c)].pinners],
               !.sts[Len(p.sts)].checkSquares =
                 [pt \in PieceTypes |-> CASE pt = PAWN -> PawnAttacks[Flip(p.stm)][ksq]
                                          [] pt = KING -> {}
                                          [] OTHER     -> Attacks(pt, ksq, occ)]]

\* Slip: the minor key forgets the knights.
ToggleAuxKeysBishops(st, pc, s) ==
  IF TypeOf(pc) = PAWN
  THEN [st EXCEPT !.pawnKey = Xor(@, Psq(pc, s))]
  ELSE [st EXCEPT !.nonPawnKey[ColorOf(pc)] = Xor(@, Psq(pc, s)),
                  !.minorKey = IF TypeOf(pc) = BISHOP THEN Xor(@, Psq(pc, s)) ELSE @]

\* The auxiliary keys a piece's arrival or departure toggles.
ToggleAuxKeys(st, pc, s) ==
  IF TypeOf(pc) = PAWN
  THEN [st EXCEPT !.pawnKey = Xor(@, Psq(pc, s))]
  ELSE [st EXCEPT !.nonPawnKey[ColorOf(pc)] = Xor(@, Psq(pc, s)),
                  !.minorKey = IF TypeOf(pc) \in {KNIGHT, BISHOP} THEN Xor(@, Psq(pc, s)) ELSE @]

\* compute_key and compute_non_pawn_material: the StateInfo of the board, from scratch.
FromScratch(p) ==
  LET on(S)  == UNION {Psq(p.board[s], s) : s \in S}
      st     == St(p)
      pieces == p.byType[ALL_PIECES]
      sum(c) == MapThenSumSet(LAMBDA s : PieceValue(p.board[s]),
                              p.byColor[c] \ (p.byType[PAWN] \cup p.byType[KING]))
  IN [materialKey     |-> {64 * pc + 8 + n : <<pc, n>> \in
                             {x \in Pieces \X (0..9) : x[2] < p.pieceCount[x[1]]}},
      pawnKey         |-> NoPawnsKey \cup on(p.byType[PAWN]),
      minorKey        |-> on(p.byType[KNIGHT] \cup p.byType[BISHOP]),
      nonPawnKey      |-> [c \in Colors |-> on(p.byColor[c] \ p.byType[PAWN])],
      nonPawnMaterial |-> [c \in Colors |-> sum(c)],
      key             |-> on(pieces) \cup CastlingKey(st.castlingRights)
                            \cup (IF st.ep = SQ_NONE THEN {} ELSE EpKey(FileOf(st.ep)))
                            \cup (IF p.stm = BLACK THEN SideKey ELSE {})]
=============================================================================
