----------------------------- MODULE MovePicker -----------------------------
(* The staged move picker: src/src/engine/search/movepick.c and movepick.h.   *)
(* It hands out one move per call from one buffer, which the good captures,   *)
(* the quiets generated over them, and the losers set aside share.  A score   *)
(* is whatever the operator Score says: the histories decide the order, never *)
(* which moves come out.                                                      *)
EXTENDS MoveGen, SequencesExt

CONSTANTS SorterMax,        \* MOVE_SORTER_MAX, the lanes of the vector sorter
          Score(_, _)       \* score_list: the value of a move in a stage's list
ASSUME SorterAssumption == SorterMax \in Nat /\ SorterMax >= 2

GOOD_QUIET_THRESHOLD == -14000
NoLimit == -2000000000

\* capture_stage: a capture, or the queen's promotion.
CaptureStage(p, m) ==
  (m.type # "CASTLING" /\ p.board[m.to] # NO_PIECE) \/ m.type = "EN_PASSANT"
    \/ (m.type = "PROMOTION" /\ m.promo = QUEEN)

\* list with x moved up to before the first entry worth less.
Insert(list, x) ==
  LET i == Min({k \in 1..Len(list) : list[k].value < x.value} \cup {Len(list) + 1})
  IN InsertAt(list, i, x)

\* partial_insertion_sort: the entries at the limit or above come first, sorted;
\* each displaces the one standing after the sorted run.  st = [list, end].
SortStep(st, scan, limit) ==
  LET x == st.list[scan]
  IN IF x.value < limit THEN st
     ELSE LET e == st.end + 1
              moved == [st.list EXCEPT ![scan] = st.list[e]]
          IN [end |-> e,
              list |-> Insert(SubSeq(moved, 1, st.end), x) \o SubSeq(moved, e + 1, Len(moved))]

ScalarSort(list, limit) ==
  IF list = <<>> THEN list
  ELSE FoldLeft(LAMBDA st, scan : SortStep(st, scan, limit),
                [list |-> list, end |-> 1], [i \in 1..(Len(list) - 1) |-> i + 1]).list

\* The AVX-512 form keeps the sorted run in a register until it is full, writes
\* it over the front of the list, and leaves the tail to the scalar loop.
VectorSort(list, limit) ==
  LET step(st, scan) ==
        IF st.full \/ list[scan].value < limit THEN st
        ELSE IF st.end >= SorterMax THEN [st EXCEPT !.full = TRUE, !.at = scan]
        ELSE [st EXCEPT !.end = @ + 1, !.run = Insert(@, list[scan]),
                        !.list[scan] = st.list[st.end + 1]]
      v == FoldLeft(step, [list |-> list, run |-> <<list[1]>>, end |-> 1, full |-> FALSE, at |-> Len(list) + 1],
                    [i \in 1..(Len(list) - 1) |-> i + 1])
      front == [list |-> v.run \o SubSeq(v.list, v.end + 1, Len(list)), end |-> v.end]
  IN IF list = <<>> THEN list
     ELSE FoldLeft(LAMBDA st, scan : SortStep(st, scan, limit), front,
                   [i \in 1..(Len(list) + 1 - v.at) |-> v.at + i - 1]).list

ScoreList(p, kind) ==
  LET list == FoldSet(LAMBDA m, acc : Append(acc, m), <<>>, GenerateAll(p, kind))
  IN [i \in DOMAIN list |-> [move |-> list[i], value |-> Score(kind, list[i])]]

NoMove == [from |-> 0, to |-> 0, type |-> "NONE", promo |-> KNIGHT]

\* The picker as its caller starts it: at the hash move when that is legal here,
\* which it keeps either way so that the lists leave it out.
InitPicker(p, ttMove, first, depth, threshold) ==
  [ttMove |-> ttMove, first |-> first, depth |-> depth, threshold |-> threshold, skipQuiets |-> FALSE,
   stage |-> IF ttMove # NoMove /\ Legal(p, ttMove) /\ (first = "PROBCUT" => CaptureStage(p, ttMove))
             THEN "TT" ELSE "INIT",
   cur |-> 0, endCur |-> 0, endBadCaptures |-> 0, endBadMoves |-> 0, moves |-> <<>>]

\* list written into the buffer from position at (counted from 0) on.
Overlay(buffer, at, list) ==
  SubSeq(buffer, 1, at) \o list \o SubSeq(buffer, at + Len(list) + 1, Len(buffer))

\* Walk the span to the next entry that passes; the ones that fail are dropped,
\* or, in the two filtering stages, copied behind the losers already kept.
\* at is where the walk ends: at the move it hands out, or at the end of the span.
Stopped(mp, at, keeps) ==
  LET lost  == SelectSeq([i \in 1..(at - mp.cur) |-> mp.moves[mp.cur + i]],
                         LAMBDA e : e.move # mp.ttMove)
      kept  == IF keeps THEN [mp EXCEPT !.moves = Overlay(@, mp.endBadMoves, lost),
                                        !.endBadMoves = @ + Len(lost)] ELSE mp
  IN IF at = mp.endCur THEN [mp |-> [kept EXCEPT !.cur = at], move |-> NoMove]
     ELSE [mp |-> [kept EXCEPT !.cur = at + 1], move |-> mp.moves[at + 1].move]

Select(mp, passes(_), keeps) ==
  Stopped(mp, Min({mp.endCur} \cup {i \in mp.cur..(mp.endCur - 1) :
                     mp.moves[i + 1].move # mp.ttMove /\ passes(mp.moves[i + 1])}), keeps)

SelectAny(mp) == Select(mp, LAMBDA e : TRUE, FALSE)

\* The losing captures, then the losing quiets behind them.
BadMoves(mp) == SelectAny([mp EXCEPT !.cur = 0, !.endCur = mp.endBadMoves, !.stage = "BAD_MOVES"])

WalkQuiets(mp) ==
  LET r == Select(mp, LAMBDA e : e.value > GOOD_QUIET_THRESHOLD, TRUE)
  IN IF r.move # NoMove THEN r ELSE BadMoves(r.mp)

\* The quiets go behind the losing captures.
QuietsBehind(mp, list) ==
  [mp EXCEPT !.cur = mp.endBadMoves, !.endCur = mp.endBadMoves + Len(list),
             !.moves = Overlay(@, mp.endBadMoves, list), !.stage = "GOOD_QUIET"]

AfterCaptures(mp, p) ==
  IF mp.skipQuiets THEN BadMoves(mp)
  ELSE WalkQuiets(QuietsBehind(mp, ScalarSort(ScoreList(p, QUIETS), -3560 * mp.depth)))

GoodCaptures(mp, p) ==
  LET bar(v)   == IF v >= 0 THEN -(v \div 18) ELSE (-v) \div 18
      rest(r)  == IF r.move # NoMove THEN r
                  ELSE AfterCaptures([r.mp EXCEPT !.endBadCaptures = r.mp.endBadMoves], p)
  IN rest(Select(mp, LAMBDA e : SeeGe(p, e.move, bar(e.value)), TRUE))

\* movepick_next, from a stage whose list is there.
Walk1(mp, p) ==
  CASE mp.stage = "GOOD_CAPTURE" -> GoodCaptures(mp, p)
    [] mp.stage = "GOOD_QUIET"   -> WalkQuiets(mp)
    [] mp.stage = "PROBCUT"      -> Select(mp, LAMBDA e : SeeGe(p, e.move, mp.threshold), FALSE)
    [] OTHER                     -> SelectAny(mp)

\* The first list of the picker is made when it is first asked.
Listed(mp, list) ==
  [mp EXCEPT !.cur = 0, !.endBadMoves = 0, !.endCur = Len(list), !.moves = Overlay(@, 0, list),
             !.stage = mp.first]

NextMove(mp, p) ==
  LET kind == IF mp.first = "EVASION" THEN EVASIONS ELSE CAPTURES
  IN IF mp.stage = "TT" THEN [mp |-> [mp EXCEPT !.stage = "INIT"], move |-> mp.ttMove]
     ELSE Walk1(IF mp.stage = "INIT" THEN Listed(mp, ScalarSort(ScoreList(p, kind), NoLimit)) ELSE mp, p)

\* movepick_skip_quiets: whatever quiets the span still holds are cut off.
SkipQuiets(mp) ==
  IF mp.stage \in {"BAD_MOVES", "GOOD_QUIET"}
  THEN [mp EXCEPT !.skipQuiets = TRUE, !.endCur = mp.endBadCaptures, !.endBadMoves = mp.endBadCaptures]
  ELSE [mp EXCEPT !.skipQuiets = TRUE]

\* Everything a picker hands out, when quiets are given up after the n-th move.
Handed(mp0, p, n) ==
  LET given(s, r, i) == IF r.move = NoMove THEN [s EXCEPT !.done = TRUE]
                        ELSE [s EXCEPT !.mp = IF i = n THEN SkipQuiets(r.mp) ELSE r.mp,
                                       !.out = Append(@, r.move)]
      next(s, i) == IF s.done THEN s ELSE given(s, NextMove(s.mp, p), i)
      more[i \in Nat] ==
        IF i = 0 THEN [mp |-> IF n = 0 THEN SkipQuiets(mp0) ELSE mp0, out |-> <<>>, done |-> FALSE]
        ELSE next(more[i - 1], i)
  IN more[Cardinality(GenerateLegal(p)) + 2].out
=============================================================================
