------------------------------ MODULE TbProbe ------------------------------
(* What a Syzygy probe answers (platform/syzygy/wdl.c and probe.c).  A     *)
(* file does not hold the value of every position: where a capture is as   *)
(* good as the value the file may hold anything less, it knows no          *)
(* en-passant rights, a DTZ file holds one side to move, whole moves for   *)
(* plies and nothing where a zeroing move wins.  The probes make up for    *)
(* each of these by playing moves.                                         *)
(* An endgame is a graph of positions with the value the generator of the  *)
(* tables finds: the plies to the mate or to the capture or pawn move that *)
(* keeps the result, positive when the side to move wins; over 100 it is a *)
(* win the fifty-move rule takes away.                                     *)
EXTENDS Integers, Sequences, FiniteSets, SequencesExt

CONSTANT Games
\* for each name a record of: moves, [positions -> Seq([to, kind])], kind \in Kinds; check, the positions whose
\* side to move is in check; value; men, [positions -> Nat]; twin, [positions -> positions], the
\* position without its en-passant right; otherSide, the positions whose side to move the DTZ
\* file does not hold; dtm, the positions where DTZ is the distance to mate; plies, the numbers of men whose DTZ files count plies.

Kinds == {"quiet", "pawn", "capture"}

Sign(x)  == IF x > 0 THEN 1 ELSE IF x < 0 THEN -1 ELSE 0
Size(x)  == IF x < 0 THEN -x ELSE x

\* dtz_before_zeroing.
Before(wdl) == <<-1, -101, 0, 101, 1>>[wdl + 3]

Mated(g, p) == p \in g.check /\ g.moves[p] = <<>>
MovesOf(g, p, kinds) == {m \in ToSet(g.moves[p]) : m.kind \in kinds}

---------------------------------------------------------------------------
\* The files, as their generator fills them.

Class(v) == Sign(v) * (IF Size(v) <= 100 THEN 2 ELSE 1)

Yields(g, m) == IF m.kind # "quiet" THEN Before(-Class(g.value[m.to]))
                ELSE IF Mated(g, m.to) THEN 1
                ELSE -g.value[m.to] - Sign(g.value[m.to])

\* One step of the retrograde analysis changes nothing: the values are the true ones.
Solved(g) == \A p \in DOMAIN g.moves :
    LET all == {Yields(g, m) : m \in ToSet(g.moves[p])}
        won == {y \in all : y > 0}
    IN  g.value[p] = IF all = {} THEN (IF p \in g.check THEN -1 ELSE 0)
                     ELSE IF won # {} THEN Min(won)
                     ELSE IF 0 \in all THEN 0 ELSE Min(all)

HeldWdl(g, p) ==
    IF \E m \in MovesOf(g, p, {"capture"}) : -Class(g.value[m.to]) >= Class(g.value[p])
    THEN -2 ELSE Class(g.value[p])

HeldDtz(g, p) ==
    LET n == Size(g.value[p]) - (IF Size(g.value[p]) > 100 THEN 100 ELSE 0)
    IN  IF Size(g.value[p]) <= 100 /\ g.men[p] \in g.plies THEN n - 1 ELSE (n - 1) \div 2

Typed(g) ==
    LET positions == DOMAIN g.moves IN
    /\ g.moves \in [positions -> Seq([to : positions, kind : Kinds])]
    /\ g.value \in [positions -> Int] /\ g.men \in [positions -> Nat] /\ g.twin \in [positions -> positions]
    /\ g.check \subseteq positions /\ g.otherSide \subseteq positions /\ g.dtm \subseteq positions

\* The sides to move alternate: what one file leaves out, a quiet move leads out of.
OneSided(g) == \A p \in g.otherSide : \A m \in MovesOf(g, p, {"quiet"}) : m.to \notin g.otherSide

\* No position comes back after two plies.
NoWayBack(g) == \A p \in DOMAIN g.moves : \A m \in MovesOf(g, p, {"quiet"}) :
                    \A n \in MovesOf(g, m.to, {"quiet"}) : n.to # p

ASSUME GamesAssumption ==
    \A g \in Range(Games) : Typed(g) /\ Solved(g) /\ OneSided(g) /\ NoWayBack(g)

---------------------------------------------------------------------------
\* A probe's answer.  `files` says which files are there and whole, by their number of men.

Fail == [value |-> 0, state |-> "FAIL"]
Ok(v) == [value |-> v, state |-> "OK"]

\* probe_table for a WDL file: two kings need none.
WdlTable(g, files, p) ==
    IF g.men[p] = 2 THEN Ok(0)
    ELSE IF g.men[p] \notin files.wdl THEN Fail
    ELSE Ok(HeldWdl(g, g.twin[p]))

\* map_score_dtz: what counts in moves is doubled.
MapScoreDtz(g, p, wdl, raw) ==
    (IF Size(wdl) = 1 \/ g.men[p] \notin g.plies THEN 2 * raw ELSE raw) + 1

\* The same for a DTZ file: do_probe_table finds the position in it unless it holds the
\* other side to move only.
DtzTable(g, files, p, wdl) ==
    IF g.men[p] = 2 THEN Ok(0)
    ELSE IF g.men[p] \notin files.dtz THEN Fail
    ELSE IF p \in g.otherSide THEN [value |-> 0, state |-> "CHANGE_STM"]
    ELSE Ok(MapScoreDtz(g, p, wdl, HeldDtz(g, g.twin[p])))

\* search_wdl once the zeroing moves are played: `best` is the best of them, of which there are
\* `count`, and `best` is no answer when a quiet move is left.
\* Slip: the file is believed even where every move was played.
BestOrHeldTrusting(g, files, p, best, count) ==
    LET table == WdlTable(g, files, p)
    IN  IF table.state = "FAIL" THEN Fail
        ELSE IF best >= table.value
             THEN [value |-> best, state |-> IF best > 0 THEN "ZEROING" ELSE "OK"]
             ELSE Ok(table.value)

BestOrHeld(g, files, p, best, count) ==
    LET none  == count # 0 /\ count = Len(g.moves[p])
        table == WdlTable(g, files, p)
    IN  IF ~none /\ table.state = "FAIL" THEN Fail
        ELSE IF none \/ best >= table.value
             THEN [value |-> best, state |-> IF best > 0 \/ none THEN "ZEROING" ELSE "OK"]
             ELSE Ok(table.value)

\* search_wdl: the zeroing moves in their order, up to the first that wins or cannot be probed.
BestPlayed(g, files, p, child) ==
    LET ends == {i \in DOMAIN child : child[i].state = "FAIL" \/ child[i].value = -2}
    IN  IF ends # {}
        THEN IF child[Min(ends)].state = "FAIL" THEN Fail ELSE [value |-> 2, state |-> "ZEROING"]
        ELSE BestOrHeld(g, files, p,
                        -Min({2} \union {child[i].value : i \in DOMAIN child}), Len(child))

RECURSIVE SearchWdl(_, _, _, _)
SearchWdl(g, files, p, zeroing) ==
    LET kinds  == IF zeroing THEN {"capture", "pawn"} ELSE {"capture"}
        played == SelectSeq(g.moves[p], LAMBDA m : m.kind \in kinds)
    IN  BestPlayed(g, files, p, [i \in DOMAIN played |-> SearchWdl(g, files, played[i].to, FALSE)])

\* The one-ply search of probe_dtz, from what each move comes to.
OnePly(g, wdl, m, dtz) ==
    IF dtz = 1 /\ Mated(g, m.to) THEN 1
    ELSE IF m.kind = "quiet" THEN dtz + Sign(dtz) ELSE dtz

BestOfOnePly(g, w, after) ==
    LET dtz(m) == IF m.kind # "quiet" THEN -Before(after[m].value) ELSE -after[m].value
        kept   == {n \in {OnePly(g, w, m, dtz(m)) : m \in DOMAIN after} : Sign(n) = Sign(w)}
    IN  IF \E m \in DOMAIN after : after[m].state = "FAIL" THEN Fail
        ELSE Ok(IF kept = {} THEN -1 ELSE Min(kept))

\* probe_dtz, from the WDL, what the file says and what each move comes to.
DtzFrom(g, w, table, after) ==
    IF w.state = "FAIL" THEN Fail
    ELSE IF w.value = 0 THEN Ok(0)
    ELSE IF w.state = "ZEROING" THEN Ok(Before(w.value))
    ELSE IF table.state = "FAIL" THEN Fail
    ELSE IF table.state = "OK"
         THEN Ok(Sign(w.value) * (table.value + (IF Size(w.value) = 1 THEN 100 ELSE 0)))
    ELSE BestOfOnePly(g, w.value, after)

RECURSIVE ProbeDtz(_, _, _)
ProbeDtz(g, files, p) ==
    LET w == SearchWdl(g, files, p, TRUE)
    IN  DtzFrom(g, w, DtzTable(g, files, p, w.value),
                [m \in ToSet(g.moves[p]) |-> IF m.kind # "quiet" THEN SearchWdl(g, files, m.to, FALSE)
                                                                 ELSE ProbeDtz(g, files, m.to)])

\* syzygy_probe_fen: the DTZ of a position whose WDL cannot be probed is not asked for.
ProbeFen(g, files, p) ==
    LET w == SearchWdl(g, files, p, FALSE)
    IN  [wdl |-> w, dtz |-> IF w.state = "FAIL" THEN Fail ELSE ProbeDtz(g, files, p)]

---------------------------------------------------------------------------
(* The answer is the truth: the class of the position whatever the file    *)
(* holds for it, and a DTZ that is the true one or, where the file counts  *)
(* moves, one ply short of it.                                             *)
Exact(g, files, p) ==
    LET probe == ProbeFen(g, files, p) IN
    /\ probe.wdl.state # "FAIL" => probe.wdl.value = Class(g.value[p])
    /\ probe.dtz.state # "FAIL" =>
         /\ Sign(probe.dtz.value) = Sign(g.value[p])
         /\ Size(g.value[p]) - Size(probe.dtz.value) \in {0, 1}
=============================================================================
