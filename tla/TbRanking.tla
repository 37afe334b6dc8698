----------------------------- MODULE TbRanking -----------------------------
(* Playing an endgame from the tables: at every `go` the root moves are    *)
(* ranked by DTZ, or by WDL when a DTZ probe fails                         *)
(* (engine/search/root_move_build.c), the search picks among the moves of  *)
(* the top rank as it likes, and a line it reports is cut and drawn out by *)
(* the same ranking (engine/search/syzygy_pv.c).  The opponent plays       *)
(* anything, and the game ends by mate, by stalemate, by the third         *)
(* occurrence of a position or by the fifty-move rule.                     *)
EXTENDS TbProbe

CONSTANTS Starts,   \* a set of records [game, files, limit, rule50, budget, pos, clock, given]; bound: `given`
                    \* moves come with the position, before the engine's first `go`
          LineBound, \* bound: the longest win whose reported lines are looked at
          MaxPast,   \* bound: how long a game without all its tables goes on without a zeroing move
          NULL

VARIABLES
    start,  \* the endgame, its files, the options and the first position
    board,  \* the positions since the last zeroing move or since the FEN, and the 50-move counter
    engine, \* whether the engine is to move
    root,   \* the board of the engine's first `go`
    played  \* how many moves the GUI has given
vars == <<start, board, engine, root, played>>

\* DTZ ranks of -MAX_DTZ, 0 and MAX_DTZ are the certain ones.
MAX_DTZ == 2^18

Now(b) == Last(b.past)

Play(b, m) == IF m.kind = "quiet" THEN [past |-> Append(b.past, m.to), clock |-> b.clock + 1]
                                  ELSE [past |-> <<m.to>>, clock |-> 0]

\* StateInfo.repetition: the distance to the last occurrence, negative if that was one itself.
RECURSIVE Repetition(_)
Repetition(past) ==
    LET n    == Len(past)
        same == {i \in 1..(n - 4) : past[i] = past[n]}
        last == Max(same)
    IN  IF same = {} THEN 0
        ELSE IF Repetition(SubSeq(past, 1, last)) # 0 THEN last - n ELSE n - last

IsRepetition(b, ply) == Repetition(b.past) # 0 /\ Repetition(b.past) < ply
HasRepeated(b)       == \E i \in DOMAIN b.past : Repetition(SubSeq(b.past, 1, i)) # 0
IsDraw(g, b, ply)    == (b.clock > 99 /\ ~Mated(g, Now(b))) \/ IsRepetition(b, ply)

---------------------------------------------------------------------------
\* The ranking.  A setting e is a start.

\* What a root move comes to: its DTZ, the move counted, or a failed probe; a draw by the rules
\* is not probed.
DrawnBy(e, c) == (e.rule50 /\ IsDraw(e.game, c, 1)) \/ IsRepetition(c, 1)

Counted(e, m, probe) ==
    LET n == -probe.value - Sign(probe.value)
    IN  [probe EXCEPT !.value = IF n = 2 /\ Mated(e.game, m.to) THEN 1 ELSE n]

MoveDtz(e, b, m) ==
    LET c == Play(b, m)
    IN  IF c.clock = 0 THEN [SearchWdl(e.game, e.files, m.to, FALSE) EXCEPT !.value = Before(-@)]
        ELSE IF DrawnBy(e, c) THEN Ok(0)
        ELSE Counted(e, m, ProbeFen(e.game, e.files, m.to).dtz)

\* Slip: a win is certain up to the hundredth ply, the rounding of the file forgotten.
DtzRankAtTheEdge(dtz, clock, repeated, exact) ==
    LET term == IF exact THEN dtz ELSE 0 IN
    IF dtz > 0
    THEN IF dtz + clock <= 100 /\ ~repeated THEN MAX_DTZ - term ELSE MAX_DTZ \div 2 - (dtz + clock)
    ELSE IF dtz < 0
    THEN IF -2 * dtz + clock < 100 THEN -MAX_DTZ - term ELSE -(MAX_DTZ \div 2) + (clock - dtz)
    ELSE 0

\* Slip: the exact ranks of the wins are turned round.
DtzRankSlowest(dtz, clock, repeated, exact) ==
    LET term == IF exact THEN dtz ELSE 0 IN
    IF dtz > 0
    THEN IF dtz + clock <= 99 /\ ~repeated THEN MAX_DTZ + term ELSE MAX_DTZ \div 2 + (dtz + clock)
    ELSE IF dtz < 0
    THEN IF -2 * dtz + clock < 100 THEN -MAX_DTZ - term ELSE -(MAX_DTZ \div 2) + (clock - dtz)
    ELSE 0

DtzRank(dtz, clock, repeated, exact) ==
    LET term == IF exact THEN dtz ELSE 0 IN
    IF dtz > 0
    THEN IF dtz + clock <= 99 /\ ~repeated THEN MAX_DTZ - term ELSE MAX_DTZ \div 2 - (dtz + clock)
    ELSE IF dtz < 0
    THEN IF -2 * dtz + clock < 100 THEN -MAX_DTZ - term ELSE -(MAX_DTZ \div 2) + (clock - dtz)
    ELSE 0

MoveWdl(e, b, m) ==
    IF DrawnBy(e, Play(b, m)) THEN Ok(0)
    ELSE [SearchWdl(e.game, e.files, m.to, FALSE) EXCEPT !.value = -@]

WdlRank(wdl) == <<-MAX_DTZ, -MAX_DTZ + 101, 0, MAX_DTZ - 101, MAX_DTZ>>[wdl + 3]

\* tb_stable_sort_by_rank.
Insert(s, x) ==
    LET k == Cardinality({i \in DOMAIN s : s[i].rank >= x.rank})
    IN  SubSeq(s, 1, k) \o <<x>> \o SubSeq(s, k + 1, Len(s))
ByRank(ranked) == FoldLeft(Insert, <<>>, ranked)

Ranked(moves, Rank(_)) == [i \in DOMAIN moves |-> [move |-> moves[i], rank |-> Rank(i)]]
Failed(probes) == \E i \in DOMAIN probes : probes[i].state = "FAIL"

\* load_tb_config: no table has more men than the largest that was found.
Largest(e) == LET found == Max(e.files.wdl \union {0}) IN IF e.limit < found THEN e.limit ELSE found

\* tb_rank_moves; `late` when the time of a report runs out during the DTZ pass.
NotInTb(moves) == [inTb |-> FALSE, tree |-> TRUE, moves |-> Ranked(moves, LAMBDA i : 0)]

RankByDtz(moves, dtz, clock, repeated, exact) ==
    [inTb |-> TRUE, tree |-> FALSE,
     moves |-> ByRank(Ranked(moves, LAMBDA i : DtzRank(dtz[i].value, clock, repeated, exact)))]

RankByWdl(ranked) == [inTb |-> TRUE, tree |-> ranked[1].rank > 0, moves |-> ranked]

RankProbed(moves, dtz, wdl, clock, repeated, exact) ==
    IF ~Failed(dtz) THEN RankByDtz(moves, dtz, clock, repeated, exact)
    ELSE IF ~Failed(wdl) THEN RankByWdl(ByRank(Ranked(moves, LAMBDA i : WdlRank(wdl[i].value))))
    ELSE NotInTb(moves)

TbRankMoves(e, b, moves, asDtm, clock, repeated, late) ==
    IF moves = <<>> \/ e.game.men[Now(b)] > Largest(e) \/ late THEN NotInTb(moves)
    ELSE RankProbed(moves, [i \in DOMAIN moves |-> MoveDtz(e, b, moves[i])],
                    [i \in DOMAIN moves |-> MoveWdl(e, b, moves[i])],
                    clock, repeated, asDtm \/ Now(b) \in e.game.dtm)

\* root_moves_build: a scratch board set up from the root FEN, which has no history.
Scratch(b) == [past |-> <<Now(b)>>, clock |-> b.clock]

RootMovesBuild(e, b) ==
    TbRankMoves(e, Scratch(b), e.game.moves[Now(b)], FALSE, b.clock, HasRepeated(b), FALSE)

\* The search looks at no root move below the top rank.
TopMoves(ranked) == {r.move : r \in {r \in ToSet(ranked.moves) : r.rank = ranked.moves[1].rank}}

---------------------------------------------------------------------------
\* syzygy_extend_pv.  The time is over when more than `budget` readings were made of the clock.

Late(e, t) == t > e.budget

\* The line of the search is kept while its moves have the top rank.
Ranks(e, b, moves, asDtm, t) == TbRankMoves(e, b, moves, asDtm, b.clock, HasRepeated(b), Late(e, t))

RECURSIVE Validate(_, _, _, _, _)
ValidateMove(e, b, pv, ply, after, r) ==
    LET c     == Play(b, pv[ply + 1])
        drawn == (e.rule50 /\ IsDraw(e.game, c, ply + 1)) \/ IsRepetition(c, ply + 1)
    IN  IF pv[ply + 1] \notin TopMoves(r) \/ (r.inTb /\ drawn)
        THEN [board |-> b, line |-> SubSeq(pv, 1, ply), t |-> after]
        ELSE IF r.inTb /\ Late(e, after + 1)
        THEN [board |-> c, line |-> SubSeq(pv, 1, ply + 1), t |-> after + 1]
        ELSE Validate(e, c, pv, ply + 1, after)

Validate(e, b, pv, ply, t) ==
    LET moves == e.game.moves[Now(b)]
        after == t + Len(moves)
    IN  IF ply = Len(pv) THEN [board |-> b, line |-> pv, t |-> t]
        ELSE ValidateMove(e, b, pv, ply, after, Ranks(e, b, moves, FALSE, after))

\* rank_by_opponent_mobility: how little a move leaves to the opponent.
Mobility(e, m) == -Len(e.game.moves[m.to]) - 99 * Cardinality(MovesOf(e.game, m.to, {"capture"}))
ByMobility(e, moves) == ByRank(Ranked(moves, LAMBDA i : Mobility(e, moves[i])))

\* The line is drawn out with the moves of least DTZ.
RECURSIVE WalkOn(_, _, _, _)
WalkMove(e, b, line, after, r) ==
    IF ~r.inTb \/ r.tree THEN [board |-> b, line |-> line]
    ELSE WalkOn(e, Play(b, r.moves[1].move), Append(line, r.moves[1].move), after)

WalkOn(e, b, line, t) ==
    LET moves == [i \in DOMAIN e.game.moves[Now(b)] |-> ByMobility(e, e.game.moves[Now(b)])[i].move]
        after == t + 1 + Len(moves)
    IN  IF (e.rule50 /\ IsDraw(e.game, b, 0)) \/ Late(e, t + 1) \/ moves = <<>>
        THEN [board |-> b, line |-> line]
        ELSE WalkMove(e, b, line, after, Ranks(e, b, moves, TRUE, after))

ExtendPv(e, b, pv) ==
    LET kept == Validate(e, Play(b, pv[1]), pv, 1, 1)
    IN  IF Late(e, 1) THEN [board |-> b, line |-> pv]
        ELSE WalkOn(e, kept.board, kept.line, kept.t)

---------------------------------------------------------------------------
\* The game.

Game  == start.game
Moves == Game.moves[Now(board)]

Drawn(b) == \/ Cardinality({i \in DOMAIN b.past : b.past[i] = Now(b)}) >= 3
            \/ start.rule50 /\ b.clock >= 100 /\ ~Mated(Game, Now(b))
            \/ Game.moves[Now(b)] = <<>> /\ ~Mated(Game, Now(b))

\* The position and all that a game from it comes to is in the tables.
Whole(b) == /\ Game.men[Now(b)] <= Largest(start)
            /\ \A p \in DOMAIN Game.men : Game.men[p] > 2 => Game.men[p] \in start.files.wdl \cap start.files.dtz

\* Bound: games without all their tables are not followed for ever.
Goes(b) == Game.moves[Now(b)] # <<>> /\ ~Drawn(b) /\ (Whole(b) \/ Len(b.past) <= MaxPast)

Init ==
    /\ \E s \in Starts : start = [s EXCEPT !.game = Games[s.game]]
    /\ board = [past |-> <<start.pos>>, clock |-> start.clock]
    /\ engine = TRUE /\ root = NULL /\ played = 0

\* A pair of moves that comes with the position: anybody may have played them.
GuiMoves ==
    /\ root = NULL /\ played < start.given /\ ~Drawn(board)
    /\ \E m \in ToSet(Moves) : \E n \in ToSet(Game.moves[m.to]) :
         board' = Play(Play(board, m), n) /\ ~Drawn(Play(board, m)) /\ ~Drawn(board')
    /\ played' = played + 2
    /\ UNCHANGED <<start, engine, root>>

\* A `go`: the search plays a move of the top rank.
EngineMoves ==
    /\ engine /\ Goes(board)
    /\ \E m \in TopMoves(RootMovesBuild(start, board)) : board' = Play(board, m)
    /\ engine' = FALSE
    /\ root' = IF root = NULL THEN board ELSE root
    /\ UNCHANGED <<start, played>>

OpponentMoves ==
    /\ ~engine /\ Goes(board)
    /\ \E m \in ToSet(Moves) : board' = Play(board, m)
    /\ engine' = TRUE
    /\ UNCHANGED <<start, root, played>>

Next == GuiMoves \/ EngineMoves \/ OpponentMoves

Spec == Init /\ [][Next]_vars

---------------------------------------------------------------------------
(* What the tables say of every position a game comes to is the truth, or  *)
(* a failure: through captures, en passant, one-sided and rounded files.   *)
ProbesExact == Exact(Game, start.files, Now(board))

Value(b) == Game.value[Now(b)]

\* Won with every rounding counted, and lost beyond the reach of the fifty-move rule.
Certain(b)  == Whole(b) /\ Value(b) > 0 /\ (start.rule50 => Value(b) + b.clock <= 99)
Holdable(b) == Whole(b) /\ (Value(b) >= 0 \/ (start.rule50 /\ -Value(b) + b.clock > 101))

(* A root that is certainly won is won: whatever move of the top rank the  *)
(* search prefers, and whatever is played against it, the game does not    *)
(* end in a draw, of any of the three kinds, nor in a loss.                *)
WonIsWon == root # NULL /\ Certain(root) => ~Drawn(board) /\ ~(engine /\ Mated(Game, Now(board)))

(* A root that is drawn, or lost too slowly for the fifty-move rule, is    *)
(* held.                                                                   *)
HeldIsHeld == root # NULL /\ Holdable(root) => ~(engine /\ Mated(Game, Now(board)))

(* Ranked by either kind of table, a move never gives a result away: the   *)
(* sign of the value is kept, the fifty-move rule left aside.              *)
ResultKept ==
    engine /\ Goes(board) /\ RootMovesBuild(start, board).inTb =>
        \A m \in TopMoves(RootMovesBuild(start, board)) :
            LET next == Play(board, m)
            IN  ~Drawn(next) => -Sign(Value(next)) = Sign(Value(board))

(* A root keeps what the tables say it is worth, played to the end with the *)
(* best ranked moves: won is won, held is held, and no move gives either    *)
(* away.                                                                    *)
RootHolds == WonIsWon /\ HeldIsHeld /\ ResultKept

(* A line that is reported as won is won to its end: drawn out in time, it *)
(* runs from the move of the search to the mate.                           *)
LineIsWon ==
    engine /\ Certain(board) /\ Value(board) <= LineBound =>
        \A m \in TopMoves(RootMovesBuild(start, board)), n \in {0, 1} :
            LET reply == Game.moves[m.to]
                pv    == IF n = 0 \/ reply = <<>> THEN <<m>> ELSE <<m, reply[Len(reply)]>>
                shown == ExtendPv(start, board, pv)
            IN  /\ shown.line[1] = m
                /\ start.budget >= 500 => Mated(Game, Now(shown.board))
=============================================================================
