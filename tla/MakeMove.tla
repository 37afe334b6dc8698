------------------------------ MODULE MakeMove ------------------------------
(* Making and taking back a move: pos_do_move, pos_undo_move and their null   *)
(* forms of src/src/engine/board/position.c, and the repetition queries of    *)
(* src/src/engine/board/repetition.c that read the chain they build.          *)
EXTENDS Position

\* A move; a castling move is written as the king taking its own rook.
Move(from, to)          == [from |-> from, to |-> to, type |-> "NORMAL", promo |-> KNIGHT]
TypedMove(t, from, to)  == [from |-> from, to |-> to, type |-> t, promo |-> KNIGHT]
Promotion(from, to, pt) == [from |-> from, to |-> to, type |-> "PROMOTION", promo |-> pt]

CastlingSquares(m) ==
  LET side == m.to > m.from
  IN [kfrom |-> m.from, rfrom |-> m.to,
      kto |-> SquareAt(IF side THEN 6 ELSE 2, RankOf(m.from)),
      rto |-> SquareAt(IF side THEN 5 ELSE 3, RankOf(m.from))]

\* Both pieces leave, the rook first, before either arrives: in Chess960 either
\* may land where the other stood.
DoCastling(p, us, c) ==
  RecordedPut(RecordedPut(RecordedRemove(RecordedRemove(p, c.rfrom), c.kfrom),
                          MakePiece(us, KING), c.kto), MakePiece(us, ROOK), c.rto)

UndoCastling(p, us, c) ==
  PutPiece(PutPiece(RemovePiece(RemovePiece(p, c.rto), c.kto),
                    MakePiece(us, KING), c.kfrom), MakePiece(us, ROOK), c.rfrom)

Victim(m, us) == IF m.type = "EN_PASSANT" THEN m.to - Up(us) ELSE m.to

\* What the move takes: nothing when it castles, although the rook stands on `to`.
Captured(p, m) == IF m.type = "CASTLING" THEN NO_PIECE ELSE p.board[Victim(m, p.stm)]

\* The NNUE record of the squares that change hands.
DirtyPiece(p, m) ==
  LET us  == p.stm
      cap == Captured(p, m)
      c   == CastlingSquares(m)
      d   == [pc |-> p.board[m.from], from |-> m.from, to |-> m.to, removeSq |-> SQ_NONE,
              removePc |-> NO_PIECE, addSq |-> SQ_NONE, addPc |-> NO_PIECE]
      e   == IF cap = NO_PIECE THEN d ELSE [d EXCEPT !.removeSq = Victim(m, us), !.removePc = cap]
  IN CASE m.type = "CASTLING"  -> [d EXCEPT !.to = c.kto, !.removeSq = c.rfrom, !.addSq = c.rto,
                                            !.removePc = MakePiece(us, ROOK),
                                            !.addPc = MakePiece(us, ROOK)]
       [] m.type = "PROMOTION" -> [e EXCEPT !.to = SQ_NONE, !.addSq = m.to,
                                            !.addPc = MakePiece(us, m.promo)]
       [] OTHER                -> e

\* Whether the double push leaves a capture en passant that is legal, judged by
\* the blockers of the position before the push.
EnPassantSquare(p, m, before) ==
  LET us        == p.stm
      them      == Flip(us)
      ep        == m.to - Up(us)
      ksq       == KingSquare(p, them)
      blockers  == before.blockers[them]
      capturers == PawnAttacks[us][ep] \cap PiecesCP(p, them, PAWN)
  IN IF /\ m.from \notin blockers \/ FileOf(m.from) = FileOf(ksq)
        /\ ~ capturers \subseteq (blockers \ Line[ep][ksq])
     THEN ep ELSE SQ_NONE

\* The keys, counters and rights of the child: the copied prefix of the parent's
\* StateInfo and what the move toggles in it.  p is the board before any piece moves.
ChildState(p, m) ==
  LET us     == p.stm
      them   == Flip(us)
      old    == St(p)
      pc     == p.board[m.from]
      cap    == Captured(p, m)
      capSq  == Victim(m, us)
      c      == CastlingSquares(m)
      castle == m.type = "CASTLING"
      rook   == MakePiece(us, ROOK)
      to     == IF castle THEN c.kto ELSE m.to
      isPawn == TypeOf(pc) = PAWN
      new    == IF m.type = "PROMOTION" THEN MakePiece(us, m.promo) ELSE pc
      \* Counted before the capture, or after it when it is en passant.
      capSlot == p.pieceCount[cap] - 1
      epNew  == IF isPawn /\ m.type # "CASTLING" /\ Up(us) * 2 = m.to - m.from
                THEN EnPassantSquare(p, m, old) ELSE SQ_NONE
      lost   == IF old.castlingRights = {} THEN {} ELSE p.mask[m.from] \cup p.mask[to]
      rights == old.castlingRights \ lost
      toggled(K, seq) == FoldSet(LAMBDA x, acc : Xor(acc, Psq(seq[x][1], seq[x][2])), K, DOMAIN seq)
      pieces == <<<<pc, m.from>>, <<new, to>>>>
                  \o (IF castle THEN <<<<rook, c.rfrom>>, <<rook, c.rto>>>>
                      ELSE IF cap # NO_PIECE THEN <<<<cap, capSq>>>> ELSE <<>>)
      aux    == FoldSet(LAMBDA x, acc : ToggleAuxKeys(acc, pieces[x][1], pieces[x][2]),
                        old, DOMAIN pieces)
      epTerm(sq) == IF sq = SQ_NONE THEN {} ELSE EpKey(FileOf(sq))
      matCap == IF cap = NO_PIECE THEN {} ELSE {64 * cap + 8 + capSlot}
      matNew == IF m.type = "PROMOTION"
                THEN {64 * new + 8 + p.pieceCount[new], 64 * pc + 8 + p.pieceCount[pc] - 1} ELSE {}
  IN [aux EXCEPT
        !.key = Xor(Xor(Xor(toggled(Xor(old.key, SideKey), pieces), epTerm(old.ep)), epTerm(epNew)),
                    IF lost = {} THEN {} ELSE Xor(CastlingKey(old.castlingRights), CastlingKey(rights))),
        !.materialKey = Xor(Xor(@, matCap), matNew),
        !.nonPawnMaterial[them] = IF cap = NO_PIECE \/ TypeOf(cap) = PAWN THEN @ ELSE @ - PieceValue(cap),
        !.nonPawnMaterial[us] = IF m.type = "PROMOTION" THEN @ + PieceValue(new) ELSE @,
        !.rule50 = IF isPawn \/ cap # NO_PIECE THEN 0 ELSE @ + 1,
        !.pliesFromNull = @ + 1,
        !.ep = epNew,
        !.castlingRights = rights,
        !.captured = cap]

\* The board of the child, and the threats each change records.
Settled(q, m, pc, new) ==
  CASE q.board[m.to] # NO_PIECE              -> RecordedSwap(RecordedRemove(q, m.from), m.to, new)
    [] q.board[m.to] = NO_PIECE /\ pc = new -> RecordedMove(q, m.from, m.to)
    [] OTHER                                 -> RecordedPut(RecordedRemove(q, m.from), new, m.to)

MovePieces(p, m) ==
  LET us  == p.stm
      new == IF m.type = "PROMOTION" THEN MakePiece(us, m.promo) ELSE p.board[m.from]
  IN IF m.type = "CASTLING" THEN DoCastling(p, us, CastlingSquares(m))
     ELSE Settled(IF m.type = "EN_PASSANT" THEN RecordedRemove(p, Victim(m, us)) ELSE p,
                  m, p.board[m.from], new)

-----------------------------------------------------------------------------
\* repetition.c

\* How far back a position can recur: to the last irreversible or null move.
Window(st) == IF st.rule50 < st.pliesFromNull THEN st.rule50 ELSE st.pliesFromNull

\* The distance back to the same key, negative when that one is a repetition too.
Repetition(sts) ==
  LET n    == Len(sts)
      same == {i \in 4..Window(sts[n]) : i % 2 = 0 /\ sts[n - i].key = sts[n].key}
  IN CASE same = {} -> 0
       [] same # {} /\ sts[n - Min(same)].repetition = 0 -> Min(same)
       [] OTHER -> -Min(same)

WithRepetition(p) == [p EXCEPT !.sts[Len(p.sts)].repetition = Repetition(p.sts)]

\* The cuckoo table, asked for the key difference of one piece, not a pawn,
\* between two squares it sees on an empty board: the squares, or nothing.
CuckooMoves(diff) ==
  {<<a, b>> \in (diff \X diff) :
     /\ a < b /\ b < 960 /\ diff = {a, b} \cup SideKey
     /\ a \div 64 = b \div 64 /\ TypeOf(a \div 64) # PAWN
     /\ b % 64 \in PseudoAttacks[TypeOf(a \div 64)][a % 64]}

\* Whether the mover can close a cycle: at an odd distance i its opponent's moves
\* cancel out and one move of its own, on a clear path, leads back there.
UpcomingRepetition(p, ply) ==
  LET n        == Len(p.sts)
      key(i)   == p.sts[n - i].key
      other[i \in Nat] == IF i = 0 THEN {}
                          ELSE Xor(other[i - 1], IF i % 2 = 1 THEN Xor(Xor(key(i - 1), key(i)), SideKey)
                                                              ELSE {})
  IN \E i \in 3..Window(St(p)) :
       /\ i % 2 = 1 /\ other[i] = {}
       /\ \E mv \in CuckooMoves(Xor(key(0), key(i))) :
            (Between[mv[1] % 64][mv[2] % 64] \ {mv[2] % 64}) \cap p.byType[ALL_PIECES] = {}
       /\ ply > i \/ p.sts[n - i].repetition # 0

\* Slip: the repeat of the search's root counts as inside the search.
IsRepetitionAtRoot(p, ply) == St(p).repetition # 0 /\ St(p).repetition <= ply

IsRepetition(p, ply) == St(p).repetition # 0 /\ St(p).repetition < ply

\* Past the fifty moves the game is drawn unless the mover is mated.
IsDraw(p, ply, legalMoves) ==
  \/ St(p).rule50 > 99 /\ (St(p).checkers = {} \/ legalMoves # {})
  \/ IsRepetition(p, ply)

HasRepeated(p) ==
  \E k \in 0..(Window(St(p)) - 4) : p.sts[Len(p.sts) - k].repetition # 0

-----------------------------------------------------------------------------
\* The dirty threat list starts empty; givesCheck is trusted.
Arrived(p, q, m, givesCheck) ==
  LET us   == p.stm
      them == Flip(us)
      chk  == IF givesCheck THEN AttackersTo(q, KingSquare(q, them), q.byType[ALL_PIECES])
                                   \cap q.byColor[us]
                            ELSE {}
  IN [q EXCEPT !.sts = Append(@, [ChildState(p, m) EXCEPT !.checkers = chk]),
               !.gamePly = @ + 1, !.stm = them]

DoMove(p, m, givesCheck) ==
  WithRepetition(ExtraBitboards(Arrived(p, MovePieces([p EXCEPT !.dts = <<>>], m), m, givesCheck)))

UndoMove(p, m) ==
  LET us  == Flip(p.stm)
      cap == St(p).captured
      q   == IF m.type = "PROMOTION" THEN SwapPiece(p, m.to, MakePiece(us, PAWN)) ELSE p
      r   == IF m.type = "CASTLING" THEN UndoCastling(q, us, CastlingSquares(m))
             ELSE LET b == MovePiece(q, m.to, m.from)
                  IN IF cap = NO_PIECE THEN b ELSE PutPiece(b, cap, Victim(m, us))
  IN [r EXCEPT !.stm = us, !.sts = SubSeq(@, 1, Len(@) - 1), !.gamePly = @ - 1]

NullPiece == [pc |-> NO_PIECE, from |-> SQ_NONE, to |-> SQ_NONE, removeSq |-> SQ_NONE,
              removePc |-> NO_PIECE, addSq |-> SQ_NONE, addPc |-> NO_PIECE]

\* Only out of check, so the checkers carried over are none.  The clock runs on.
DoNullMove(p) ==
  LET old == St(p)
      k   == Xor(old.key, SideKey)
  IN ExtraBitboards(
       [p EXCEPT !.dts = <<>>, !.stm = Flip(@),
                 !.sts = Append(@, [old EXCEPT
                   !.key = IF old.ep = SQ_NONE THEN k ELSE Xor(k, EpKey(FileOf(old.ep))),
                   !.ep = SQ_NONE, !.pliesFromNull = 0, !.captured = NO_PIECE, !.repetition = 0])])

UndoNullMove(p) == [p EXCEPT !.stm = Flip(@), !.sts = SubSeq(@, 1, Len(@) - 1)]

\* The key the transposition table files a position under: past the fourteenth
\* reversible ply the halfmove clock is mixed into it, eight plies at a time.
Mixed(k, n)   == IF n < 14 THEN k ELSE Xor(k, {2000 + (n - 14) \div 8})
AdjustKey50(p) == Mixed(St(p).key, St(p).rule50)

\* The key a node prefetches for the move: right but for castling, en passant
\* and promotion moves, and for a castling or en passant right the move ends.
PrefetchKey(p, m) ==
  LET pc  == p.board[m.from]
      cap == p.board[m.to]
      k   == Xor(Xor(Xor(St(p).key, SideKey), Psq(pc, m.to)), Psq(pc, m.from))
  IN IF cap # NO_PIECE THEN Xor(k, Psq(cap, m.to))
     ELSE IF TypeOf(pc) = PAWN THEN k ELSE Mixed(k, St(p).rule50 + 1)

=============================================================================
