-------------------------------- MODULE Game --------------------------------
(* A worker walking a tree of moves from a root: the pairs of calls the       *)
(* search makes, do_move in src/src/engine/search/search_common.c around      *)
(* pos_do_move and eval_acc_push, undo_move around pos_undo_move and          *)
(* eval_acc_pop, the null move around neither, and an evaluation at any node  *)
(* that is not in check.  A line is one root and the part of its tree to walk.*)
EXTENDS Fen, Accumulator, MovePicker

CONSTANT Lines   \* records [fen, chess960, moves, depth, nulls, evals, steps]

\* No search goes deeper than MAX_PLY, one less than the slots of the stack.
ASSUME PlyAssumption == \A l \in Lines : l.depth + 1 <= MaxStack

VARIABLES line,    \* the root and its bounds
          pos,     \* the worker's position
          made,    \* the moves made since the root, "NULL" for a null move
          arena,   \* the worker's accumulator stack and refresh cache
          steps    \* how many steps a line with evaluations has taken
vars == <<line, pos, made, arena, steps>>

NullMove == [from |-> 0, to |-> 0, type |-> "NULL", promo |-> KNIGHT]

\* do_move: the child, and the accumulator slot its records are written into.
Made(p, m) == DoMove(p, m, GivesCheck(p, m))
Quiet(p)   == [p EXCEPT !.dts = <<>>]

Root(l)    == SetPosition(l.fen, l.chess960)

Init ==
  /\ line \in Lines
  /\ pos = Root(line)
  /\ made = <<>> /\ arena = NewArena /\ steps = 0

\* Only the lines that evaluate remember their past in the refresh cache.
Tick == /\ line.evals => steps < line.steps
        /\ steps' = IF line.evals THEN steps + 1 ELSE 0

MakeOne ==
  /\ Len(made) < line.depth /\ Tick
  /\ \E m \in GenerateLegal(pos) :
       /\ line.moves = {} \/ <<m.from, m.to>> \in line.moves
       /\ \E q \in {Made(pos, m)} :
            /\ pos' = Quiet(q)
            /\ arena' = Push(arena, pos, m, q)
       /\ made' = Append(made, m)
  /\ UNCHANGED line

\* Step 10 of the search: out of check, with a piece, and never twice in a row.
MakeNull ==
  /\ line.nulls /\ Len(made) < line.depth /\ Tick
  /\ St(pos).checkers = {} /\ St(pos).nonPawnMaterial[pos.stm] # 0
  /\ made # <<>> => made[Len(made)] # NullMove
  /\ pos' = DoNullMove(pos)
  /\ made' = Append(made, NullMove)
  /\ UNCHANGED <<line, arena>>

TakeBack ==
  /\ made # <<>> /\ Tick
  /\ LET m == made[Len(made)]
     IN IF m = NullMove
        THEN pos' = UndoNullMove(pos) /\ UNCHANGED arena
        ELSE pos' = UndoMove(pos, m) /\ arena' = Pop(arena)
  /\ made' = SubSeq(made, 1, Len(made) - 1)
  /\ UNCHANGED line

EvaluateNode ==
  /\ line.evals /\ St(pos).checkers = {} /\ Tick
  /\ arena' = Evaluate(arena, pos)
  /\ UNCHANGED <<line, pos, made>>

Next == MakeOne \/ MakeNull \/ TakeBack \/ EvaluateNode
Spec == Init /\ [][Next]_vars

-----------------------------------------------------------------------------
(* Properties                                                               *)

Enemies(p)    == p.byColor[Flip(p.stm)]
Attacked(p, s, by, occ) == AttackersTo(p, s, occ) \cap p.byColor[by] # {}

\* The key prefetched for a plain move that ends no right is the child's own.
PrefetchIsNextProbe ==
  LET kept(q) == St(q).ep = SQ_NONE /\ St(q).castlingRights = St(pos).castlingRights
      right(q, m) == kept(q) => PrefetchKey(pos, m) = AdjustKey50(q)
  IN \A m \in {x \in GenerateLegal(pos) : x.type = "NORMAL" /\ St(pos).ep = SQ_NONE} : right(Made(pos, m), m)

\* What the code keeps up to date move by move is what a scan of the board
\* gives: the bitboards and counts, every key, the material, the checkers, the
\* castling masks, and a ply counter that skips null moves.  The child's key
\* prefetched before a move is made is the key the child then has.
IncrementalIsRecomputed ==
  LET st  == St(pos)
      occ == {s \in Squares : pos.board[s] # NO_PIECE}
      scratch == FromScratch(pos)
  IN /\ pos.byType = [pt \in 0..KING |-> {s \in occ : pt = ALL_PIECES \/ TypeOf(pos.board[s]) = pt}]
     /\ pos.byColor = [c \in Colors |-> {s \in occ : ColorOf(pos.board[s]) = c}]
     /\ \A pc \in Pieces : pos.pieceCount[pc] = Cardinality({s \in occ : pos.board[s] = pc})
     /\ \A k \in DOMAIN scratch : st[k] = scratch[k]
     /\ st.checkers = AttackersTo(pos, KingSquare(pos, pos.stm), occ) \cap Enemies(pos)
     /\ \A cr \in st.castlingRights :
          LET c == IF cr \in {WHITE_OO, WHITE_OOO} THEN WHITE ELSE BLACK
          IN {s \in Squares : cr \in pos.mask[s]} = {KingSquare(pos, c), pos.rookSq[cr]}
             /\ pos.board[pos.rookSq[cr]] = MakePiece(c, ROOK)
     /\ pos.gamePly = Root(line).gamePly + Len(SelectSeq(made, LAMBDA m : m # NullMove))
     /\ PrefetchIsNextProbe

\* The rules of the game, from the board alone: where a piece may go, and that it
\* may not leave its king attacked.
PawnGoals(p, s) ==
  LET up == Up(p.stm)
      free(t) == p.board[t] = NO_PIECE
  IN (IF free(s + up) THEN {s + up} ELSE {})
       \cup (IF RelativeRank(p.stm, s) = 1 /\ free(s + up) /\ free(s + 2 * up) THEN {s + 2 * up} ELSE {})
       \cup (PawnAttacks[p.stm][s] \cap Enemies(p))

StepsByRule(p) ==
  UNION {LET pt    == TypeOf(p.board[s])
             goals == IF pt = PAWN THEN PawnGoals(p, s)
                      ELSE Attacks(pt, s, p.byType[ALL_PIECES]) \ p.byColor[p.stm]
         IN UNION {IF pt = PAWN /\ RankOf(t) \in {0, 7}
                   THEN {Promotion(s, t, x) : x \in KNIGHT..QUEEN} ELSE {Move(s, t)} : t \in goals} :
           s \in p.byColor[p.stm]}
    \cup {TypedMove("EN_PASSANT", s, St(p).ep) :
            s \in {x \in PiecesCP(p, p.stm, PAWN) : St(p).ep \in PawnAttacks[p.stm][x]}}

\* The king and the rook find their squares free but for each other, and the
\* king neither leaves, crosses nor enters an attacked square.
CastlesByRule(p) ==
  LET ksq == KingSquare(p, p.stm)
      may(cr) ==
        LET c    == CastlingSquares(TypedMove("CASTLING", ksq, p.rookSq[cr]))
            rest == p.byType[ALL_PIECES] \ {ksq, c.rfrom}
            hop(a, b) == Between[a][b] \cup {a}
        IN /\ (hop(c.kfrom, c.kto) \cup hop(c.rfrom, c.rto)) \cap rest = {}
           /\ \A s \in hop(c.kfrom, c.kto) : ~ Attacked(p, s, Flip(p.stm), rest \cup {c.rfrom})
           /\ ~ Attacked(p, c.kto, Flip(p.stm), rest \cup {c.kto, c.rto})
  IN {TypedMove("CASTLING", ksq, p.rookSq[cr]) :
        cr \in {x \in St(p).castlingRights : ColorOf(p.board[p.rookSq[x]]) = p.stm /\ may(x)}}

\* The occupancy and the attackers' sides after a step, for the king of colour c.
InCheck(q, c)    == Attacked(q, KingSquare(q, c), Flip(c), q.byType[ALL_PIECES])
Exposed(p, m, c) == InCheck(MovePieces(p, m), c)

LegalByRule(p) == {m \in StepsByRule(p) : ~ Exposed(p, m, p.stm)} \cup CastlesByRule(p)

\* The generator, which never makes a move to test it, gives the legal moves and
\* no other; the test a hash move passes agrees with it on every pair of squares;
\* and the check a move is said to give is given.
GeneratedIsLegal ==
  LET legal == GenerateLegal(pos)
  IN /\ legal = LegalByRule(pos)
     /\ \A s \in pos.byColor[pos.stm] : \A t \in Squares \ {s} :
          Legal(pos, Move(s, t)) <=> Move(s, t) \in legal
     /\ \A m \in legal : GivesCheck(pos, m) <=> Exposed(pos, m, Flip(pos.stm))

\* Taking a move back restores the position to the last bit of it.
TakeBackRestores ==
  /\ \A m \in GenerateLegal(pos) : Quiet(UndoMove(Made(pos, m), m)) = pos
  /\ St(pos).checkers = {} => UndoNullMove(DoNullMove(pos)) = pos

\* Making a move and taking it back keep the books: nothing drifts in either way.
BoardIsExact == IncrementalIsRecomputed /\ TakeBackRestores

\* The repetition mark of each position is the distance to its nearest repeat,
\* the table of reversible moves foresees a repetition exactly when some legal
\* move makes one, wherever the search's root lies, and a repeated game is known.
CycleIsExact ==
  LET n    == Len(pos.sts)
      back == {i \in 4..Window(St(pos)) : pos.sts[n - i].key = St(pos).key}
      next == IF Window(St(pos)) < 3 THEN {} ELSE {Made(pos, m) : m \in GenerateLegal(pos)}
  IN /\ back = {} <=> St(pos).repetition = 0
     /\ back # {} => St(pos).repetition = (IF \E i \in back : i > Min(back) THEN -1 ELSE 1) * Min(back)
     /\ \A ply \in 0..n : UpcomingRepetition(pos, ply) <=> \E q \in next : IsRepetition(q, ply + 1)
     /\ HasRepeated(pos) <=>
          \E i, j \in 0..Window(St(pos)) : i < j /\ pos.sts[n - i].key = pos.sts[n - j].key

\* p is the position that the FEN of pos names, q the one that the flipped FEN names.
SameAsParsed(p) ==
  /\ \A k \in {"key", "ep", "rule50", "castlingRights", "checkers", "blockers", "pinners"} :
       St(p)[k] = St(pos)[k]
  /\ p.mask = [s \in Squares |-> pos.mask[s] \cap St(pos).castlingRights]
  /\ (\A i \in DOMAIN made : made[i] # NullMove) => p.gamePly = pos.gamePly

MirrorsMoves(q, legal) ==
  GenerateLegal(q) = {[m EXCEPT !.from = Mirror(@), !.to = Mirror(@)] : m \in legal}

EpAfterPush(last) ==
  LET sq     == (last.from + last.to) \div 2
      pushed == last # NullMove /\ TypeOf(pos.board[last.to]) = PAWN /\ last.to - last.from \in {16, -16}
  IN pushed /\ UsableEp(pos, sq) => St(pos).ep = sq

NamedByFen(fen, legal) ==
  /\ Accepted(fen)
  /\ SameAsParsed(SetPosition(fen, line.chess960))
  /\ MirrorsMoves(SetPosition(FlipFen(fen), line.chess960), legal)
  /\ \A m \in legal : MovesFromUci(pos, MoveToUci(pos, m)) = {m}

\* A double push leaves its en passant square when, and only when, the capture is
\* legal, so a position played into is the position its FEN names; the FEN is
\* accepted; a move's text names that move alone; and the flipped FEN names the
\* mirrored position, whose moves are the mirror images.
PlayedIsParsed ==
  /\ made # <<>> => EpAfterPush(Last(made))
  /\ NamedByFen(FenOf(pos), GenerateLegal(pos))

\* The moves of a position are those of the rules, however it was come by: played
\* into, or named by text.
MovesAreExact == GeneratedIsLegal /\ PlayedIsParsed

\* What an evaluation reads is the sum a fresh accumulation of the position has,
\* whichever plies were skipped, undone or refreshed before, and the stack has a
\* slot for each real move.
AccumulatorIsRefreshed ==
  /\ Len(arena.stack) = 1 + Len(SelectSeq(made, LAMBDA m : m # NullMove))
  /\ \A c \in Colors :
       Computed(arena, Len(arena.stack), c) =>
         LET ksq == KingSquare(pos, c)
         IN arena.stack[Len(arena.stack)].acc[c] =
              Sum2(PsqActive(c, ksq, OpponentHasQueen(pos, c), pos.board), FullActive(c, ksq, pos), 1)

\* What the exchange on m's square is worth to the mover when each side may stop
\* at every turn: the minimax over the least valuable attackers.
Exchange(p, m) ==
  LET to == m.to
      value(s) == IF p.board[s] = NO_PIECE THEN 0 ELSE PieceValue(p.board[s])
      \* worth[<<side to take, the men left, the man on the square>>]
      worth[x \in Colors \X (SUBSET Squares) \X Pieces] ==
        LET stm == x[1]
            att == AttackersTo(p, to, x[2]) \cap x[2]
            own == (att \cap p.byColor[stm])
                     \ (IF St(p).pinners[Flip(stm)] \cap x[2] # {} THEN St(p).blockers[stm] ELSE {})
            pt  == Min({TypeOf(p.board[s]) : s \in own})
            s   == Min({t \in own : TypeOf(p.board[t]) = pt})
            net == PieceValue(x[3]) - worth[<<Flip(stm), x[2] \ {s}, p.board[s]>>]
        IN IF own = {} \/ (pt = KING /\ att \ p.byColor[stm] # {}) THEN 0
           ELSE IF net > 0 THEN net ELSE 0
  IN value(to) - worth[<<Flip(p.stm), (p.byType[ALL_PIECES] \ {m.from}) \cup {to}, p.board[m.from]>>]

\* The early exits of see_ge never change its answer.
SeeIsExact ==
  \A m \in {x \in GenerateLegal(pos) : x.type = "NORMAL"} :
    LET v == Exchange(pos, m)
    IN \A t \in {v - 1, v, v + 1, -100, 0, 1, 100} : SeeGe(pos, m, t) <=> v >= t

\* What came out: the hash move first, no move twice, all that must and nothing that may not.
RightlyHanded(out, c) ==
  /\ Cardinality(ToSet(out)) = Len(out)
  /\ c.must \subseteq ToSet(out) /\ ToSet(out) \subseteq c.may
  /\ c.m \in ToSet(out) => out[1] = c.m
  /\ ToSet(SubSeq(out, c.n + 1, Len(out))) \subseteq c.late

\* A picker of one kind with hash move m, whose caller gives up on the quiets
\* after n moves; late is what may still come out then.
Case(first, m, n, threshold, must, may, late) ==
  [first |-> first, m |-> m, n |-> n, threshold |-> threshold, must |-> must, may |-> may, late |-> late]

HashMoves(legal, takes) ==
  LET some(S) == IF S = {} THEN {} ELSE {CHOOSE m \in S : TRUE}
  IN {NoMove, Move(27, 36)} \cup some(takes) \cup some(legal \ takes)

\* worth: the captures whose exchange wins 300 or more.
Cases(legal, takes, worth) ==
  LET hash == HashMoves(legal, takes)
  IN IF St(pos).checkers # {}
     THEN {Case("EVASION", m, n, 0, legal, legal, legal) : m \in hash, n \in {0, 2, 100}}
     ELSE {Case("GOOD_CAPTURE", m, n, 0, IF n = 100 THEN legal ELSE takes \cup (legal \cap {m}),
                legal, takes \cup {m}) : m \in hash, n \in {0, 2, 100}}
            \cup {Case("QSEARCH", m, 100, 0, takes \cup (legal \cap {m}), takes \cup {m}, {}) : m \in hash}
            \cup {Case("PROBCUT", m, 100, 300, worth, worth \cup {m}, {}) : m \in hash}

SortsAgree(list) ==
  \A limit \in {NoLimit, -7120, 0} : ScalarSort(list, limit) = VectorSort(list, limit)

\* Whatever the hash move and whenever the search gives up on the quiets, the
\* picker hands out the hash move first, no move twice, every capture, every
\* evasion, and every quiet that was not given up; the vector sort orders the
\* list as the scalar one does.
PickerHandsOutEach ==
  /\ \A legal \in {GenerateLegal(pos)} : \A takes \in {{m \in legal : CaptureStage(pos, m)}} :
       \A c \in Cases(legal, takes, {x \in takes : SeeGe(pos, x, 300)}) :
         RightlyHanded(Handed(InitPicker(pos, c.m, c.first, 3, c.threshold), pos, c.n), c)
  /\ \A kind \in (IF St(pos).checkers # {} THEN {EVASIONS} ELSE {CAPTURES, QUIETS}) :
       SortsAgree(ScoreList(pos, kind))

\* The order a node searches its moves in rests on true exchanges and loses no move.
OrderingIsExact == SeeIsExact /\ PickerHandsOutEach
=============================================================================
