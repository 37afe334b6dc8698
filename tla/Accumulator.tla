----------------------------- MODULE Accumulator -----------------------------
(* The network's first layer, kept up to date move by move: src/src/engine/   *)
(* eval/nnue/nnue_feature.c and nnue_accumulator.c.  An accumulation is the   *)
(* bias plus one weight row per active feature, in wrapping 16-bit arithmetic *)
(* where sums commute; so it is held as the bag of the rows in it, a function *)
(* from feature indices to how often each was added, less how often removed.  *)
(* Two accumulations with equal bags are equal whatever the weights are.      *)
EXTENDS MoveGen

CONSTANTS MaxStack,       \* NNUE_MAX_STACK_SIZE
          MinHybrid       \* MIN_PC_COUNT_HYBRID
ASSUME StackAssumption == MaxStack \in Nat /\ MaxStack >= 2 /\ MinHybrid \in Nat

\* Bags with signed counts; absent features count zero.
NoRows    == <<>>
Count(b, f) == IF f \in DOMAIN b THEN b[f] ELSE 0
Sum2(a, b, sign) ==
  LET n(f) == Count(a, f) + sign * Count(b, f)
  IN [f \in {g \in DOMAIN a \cup DOMAIN b : n(g) # 0} |-> n(f)]
Rows(S) == [f \in S |-> 1]

-----------------------------------------------------------------------------
\* nnue_feature.c.  An index names the orientation-independent content: who sees
\* what from where, after the perspective's rank flip and its king's file mirror.
Oriented(persp, mirror, s) ==
  SquareAt(IF mirror THEN 7 - FileOf(s) ELSE FileOf(s), RelativeRank(persp, s))
Relative(persp, pc) == IF persp = WHITE THEN pc ELSE MakePiece(Flip(ColorOf(pc)), TypeOf(pc))

\* The piece-square features mirror a king on files a to d, the others one on e
\* to h; both kings share a plane.
PsqIndex(persp, s, pc, ksq, queen) ==
  LET o(x)  == Oriented(persp, FileOf(ksq) <= 3, x)
      plane == IF TypeOf(pc) = KING THEN KING ELSE Relative(persp, pc)
  IN (((IF queen THEN 64 ELSE 0) + o(ksq)) * 16 + plane) * 64 + o(s)

\* -1 stands for any index past NNUE_FULL_DIMENSIONS: a pair the set leaves out,
\* or the second direction of two pieces of one type that see each other.
ThreatIndex(persp, ksq, t) ==
  LET o(x) == Oriented(persp, FileOf(ksq) >= 4, x)
      pc   == Relative(persp, t[1])
      tpc  == Relative(persp, t[3])
      same == TypeOf(pc) = TypeOf(tpc)
  IN IF \/ TypeOf(pc) = KING \/ TypeOf(tpc) \notin TargetTypes(TypeOf(pc))
        \/ same /\ o(t[2]) < o(t[4])
     THEN -1 ELSE 1000000 + ((pc * 64 + o(t[2])) * 16 + tpc) * 64 + o(t[4])

\* A pawn is <<colour, square>>; the pair is unordered.
PairIndex(persp, ksq, a, b) ==
  LET id(x) == 64 * (IF x[1] = persp THEN 0 ELSE 1) + Oriented(persp, FileOf(ksq) >= 4, x[2])
  IN 3000000 + 128 * Max({id(a), id(b)}) + Min({id(a), id(b)})

PawnPairBand(s) ==
  {t \in Squares \ {s} : RankOf(t) \in 1..6 /\ FileOf(t) - FileOf(s) \in -1..1}

PawnsOf(p) == {<<c, s>> \in Colors \X Squares : s \in PiecesCP(p, c, PAWN)}

\* The pairs of pawns that touch one of `some`.
PairIndices(persp, ksq, pawns, some) ==
  {PairIndex(persp, ksq, x[1], x[2]) :
     x \in {y \in some \X pawns : y[1] # y[2] /\ y[2][2] \in PawnPairBand(y[1][2])}}

\* Every threat and pawn pair of the position.
FullActive(persp, ksq, p) ==
  LET occ     == p.byType[ALL_PIECES]
      targets == occ \ p.byType[KING]
      seen(s) == {t \in targets \cap (IF TypeOf(p.board[s]) = PAWN THEN PawnAttacks[ColorOf(p.board[s])][s]
                                      ELSE Attacks(TypeOf(p.board[s]), s, occ)) :
                    TypeOf(p.board[t]) \in TargetTypes(TypeOf(p.board[s]))}
      indices == UNION {{ThreatIndex(persp, ksq, <<p.board[s], s, p.board[t], t>>) : t \in seen(s)} :
                          s \in targets}
      pawns   == PawnsOf(p)
  IN Rows((indices \ {-1}) \cup PairIndices(persp, ksq, pawns, pawns))

PsqActive(persp, ksq, queen, board) ==
  Rows({PsqIndex(persp, s, board[s], ksq, queen) : s \in {t \in Squares : board[t] # NO_PIECE}})

\* The rows one ply adds, less those it removes.
PsqDelta(persp, ksq, queen, d) ==
  LET row(s, pc) == IF s = SQ_NONE THEN NoRows ELSE Rows({PsqIndex(persp, s, pc, ksq, queen)})
  IN Sum2(Sum2(row(d.to, d.pc), row(d.addSq, d.addPc), 1),
          Sum2(row(d.from, d.pc), row(d.removeSq, d.removePc), 1), -1)

ThreatDelta(persp, ksq, d) ==
  LET hits == UNION {{<<ThreatIndex(persp, ksq, r.of), i, r.add>> : r \in d.list[i]} : i \in DOMAIN d.list}
      n(f) == Cardinality({h \in hits : h[1] = f /\ h[3]}) - Cardinality({h \in hits : h[1] = f /\ ~h[3]})
      pair(now, then) == Rows(PairIndices(persp, ksq, now, now \ then))
  IN Sum2([f \in {h[1] : h \in hits} \ {-1} |-> n(f)],
          Sum2(pair(d.after, d.before), pair(d.before, d.after), -1), 1)

PlyDelta(persp, ksq, queen, slot) ==
  Sum2(PsqDelta(persp, ksq, queen, slot.dp), ThreatDelta(persp, ksq, slot), 1)

\* Slip: the queen's coming and going is not a refresh.
RequiresRefreshForKing(persp, d) == d.pc = MakePiece(persp, KING)

\* The ply's own king moved, or an opponent queen came or went.
RequiresRefresh(persp, d) ==
  \/ d.pc = MakePiece(persp, KING)
  \/ d.removeSq # SQ_NONE /\ d.removePc = MakePiece(Flip(persp), QUEEN)
  \/ d.addSq # SQ_NONE /\ d.addPc = MakePiece(Flip(persp), QUEEN)

OpponentHasQueen(p, persp) == PiecesCP(p, Flip(persp), QUEEN) # {}

-----------------------------------------------------------------------------
\* nnue_accumulator.c: the stack of plies and the refresh cache.  An entry of the
\* cache is a board and its piece-square accumulation; one never used is empty.
NoSlot == [dp |-> NullPiece, list |-> <<>>, before |-> {}, after |-> {},
           computed |-> [c \in Colors |-> FALSE], acc |-> [c \in Colors |-> NoRows]]

NewArena == [stack |-> <<NoSlot>>, depth |-> 0, cache |-> <<>>]

EmptyEntry == [board |-> [s \in Squares |-> NO_PIECE], acc |-> NoRows]
Entry(a, key) == IF key \in DOMAIN a.cache THEN a.cache[key] ELSE EmptyEntry

\* eval_acc_push: past the arena the ply is absorbed in scratch space.
Push(a, p, m, q) ==
  IF a.depth + 2 > MaxStack THEN a
  ELSE [a EXCEPT !.depth = @ + 1,
                 !.stack = Append(@, [NoSlot EXCEPT !.dp = DirtyPiece(p, m), !.list = q.dts,
                                                    !.before = PawnsOf(p), !.after = PawnsOf(q)])]
Pop(a) ==
  IF a.depth = 0 THEN a ELSE [a EXCEPT !.depth = @ - 1, !.stack = SubSeq(@, 1, Len(@) - 1)]

Computed(a, i, persp) == a.stack[i].computed[persp]
Store(a, i, persp, acc) ==
  [a EXCEPT !.stack[i].computed[persp] = TRUE, !.stack[i].acc[persp] = acc]

\* Down from the last ply to one that is computed or forces a refresh; else the root.
FindLastUsable(a, persp) ==
  Max({1} \cup {i \in 2..Len(a.stack) : Computed(a, i, persp) \/ RequiresRefresh(persp, a.stack[i].dp)})

\* The cache entry brought to a board by the difference of the two boards.
Refreshed(a, persp, ksq, queen, board) ==
  LET e       == Entry(a, <<persp, ksq, queen>>)
      changed == {s \in Squares : e.board[s] # board[s]}
      rows(b) == Rows({PsqIndex(persp, s, b[s], ksq, queen) : s \in {t \in changed : b[t] # NO_PIECE}})
  IN [board |-> board, acc |-> Sum2(Sum2(e.acc, rows(e.board), -1), rows(board), 1)]

WithEntry(a, key, e) == [a EXCEPT !.cache = [k \in DOMAIN @ \cup {key} |-> IF k = key THEN e ELSE @[k]]]

\* One step between neighbours, forward by the target's ply or backward by the source's.
ApplyCombined(a, persp, ksq, queen, target, source) ==
  LET forward == target > source
      ply     == a.stack[IF forward THEN target ELSE source]
  IN Store(a, target, persp,
           Sum2(a.stack[source].acc[persp], PlyDelta(persp, ksq, queen, ply), IF forward THEN 1 ELSE -1))

\* The steps from slot i to slot j, one after another.
Steps(a, persp, ksq, queen, i, j) ==
  LET walk[n \in Nat] == IF n = 0 THEN a
                         ELSE IF j > i THEN ApplyCombined(walk[n - 1], persp, ksq, queen, i + n, i + n - 1)
                                       ELSE ApplyCombined(walk[n - 1], persp, ksq, queen, i - n, i - n + 1)
  IN walk[IF j > i THEN j - i ELSE i - j]

\* A king move within its half of the board, without castling or taking a queen.
HybridApplicable(a, persp, p) ==
  /\ Len(a.stack) >= 2
  /\ LET d == a.stack[Len(a.stack)].dp
     IN /\ d.pc = MakePiece(persp, KING)
        /\ ~ (d.removeSq # SQ_NONE /\ d.removePc = MakePiece(Flip(persp), QUEEN))
        /\ Computed(a, Len(a.stack) - 1, persp)
        /\ Cardinality(p.byType[ALL_PIECES]) >= MinHybrid
        /\ (FileOf(d.from) >= 4) <=> (FileOf(d.to) >= 4)
        /\ d.addSq = SQ_NONE

\* Swap the piece-square half between the two kings' cache entries, the old one
\* brought to the board before the move in passing, and keep the rest.
UpdateHybrid(a, persp, p) ==
  LET n     == Len(a.stack)
      d     == a.stack[n].dp
      queen == OpponentHasQueen(p, persp)
      prev  == [p.board EXCEPT ![d.to] = IF d.removeSq # SQ_NONE THEN d.removePc ELSE NO_PIECE,
                               ![d.from] = d.pc]
      old   == Refreshed(a, persp, d.from, queen, prev)
      new   == Refreshed(a, persp, d.to, queen, p.board)
  IN WithEntry(Store(a, n, persp,
                     Sum2(Sum2(Sum2(a.stack[n - 1].acc[persp], old.acc, -1), new.acc, 1),
                          ThreatDelta(persp, d.to, a.stack[n]), 1)),
               <<persp, d.to, queen>>, new)

RefreshCombined(a, persp, ksq, queen, p) ==
  LET e == Refreshed(a, persp, ksq, queen, p.board)
  IN WithEntry(Store(a, Len(a.stack), persp, Sum2(e.acc, FullActive(persp, ksq, p), 1)),
               <<persp, ksq, queen>>, e)

EvaluateSide(a, persp, p) ==
  LET last  == FindLastUsable(a, persp)
      ksq   == KingSquare(p, persp)
      queen == OpponentHasQueen(p, persp)
      n     == Len(a.stack)
  IN CASE Computed(a, last, persp) -> Steps(a, persp, ksq, queen, last, n)
       [] ~Computed(a, last, persp) /\ HybridApplicable(a, persp, p) -> UpdateHybrid(a, persp, p)
       [] OTHER -> Steps(RefreshCombined(a, persp, ksq, queen, p), persp, ksq, queen, n, last)

\* Both sides walk forward together when neither needs a refresh, which only
\* shares the reading of the plies: each accumulation gets the steps it gets alone.
Evaluate(a, p) == EvaluateSide(EvaluateSide(a, WHITE, p), BLACK, p)
=============================================================================
