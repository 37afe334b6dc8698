----------------------------- MODULE Histories -----------------------------
(* The history tables of src/src/engine/search/history.[ch] and the updates    *)
(* the search makes of them (search_common.c, search_main.c).  A worker has    *)
(* tables of its own; the pawn, continuation and correction tables are shared  *)
(* by the workers of a NUMA node, whose updates load an entry and store it     *)
(* later, so that one may lose another's.  An entry is int16_t and every       *)
(* product an int: what a node end contributes must fit both.                  *)
EXTENDS Integers, Sequences

CONSTANTS
  Workers,
  Pages,      \* what selects a row: a side, a ply, a key, the page of a stack frame
  Moves,
  NoMove,
  Nodes,      \* what a node may end with, each one of NodeEnd below
  Pieces,     \* the values of what a capture may take
  MaxNodes    \* bound: node ends in all

Cells == (Pages \cup {NoMove}) \X Moves

OwnTables    == {"main", "lowPly", "capture", "ttMove", "contCorrection"}
SharedTables == {"pawn", "cont", "corrPawn", "corrMinor", "corrWhite", "corrBlack"}
Tables       == OwnTables \cup SharedTables

\* HIST_LIMIT_*: the band of each table, and what history_clear puts in it.
Limit ==
  [t \in Tables |->
     CASE t \in {"main", "lowPly"} -> 7183
       [] t = "capture"            -> 10692
       [] t \in {"ttMove", "pawn"} -> 8192
       [] t = "cont"               -> 30000
       [] OTHER                    -> 1024]
Fill ==
  [t \in Tables |->
     CASE t \in {"main", "corrPawn", "corrMinor", "corrWhite", "corrBlack"} -> -5
       [] t = "capture"        -> -742
       [] t = "ttMove"         -> 0
       [] t = "contCorrection" -> 5
       [] t = "lowPly"         -> 102
       [] t = "cont"           -> -586
       [] t = "pawn"           -> -1338]

MAX_PLY              == 246
LOW_PLY_HISTORY_SIZE == 5
SEARCHED_LIST        == 32

\* Slip: the weights from before they and the divisor were halved together.
ConthistBonusesDoubled == <<1040, 780, 290, 502, 418>>

\* The weight of each frame, and the multiplier of each positive_count.
ConthistBonuses == <<520, 390, 145, 251, 209>>

CmhcMultipliers == <<94, 103, 110, 106, 119, 126>>
CONTHIST_NEAR_FRAME_BONUS == 73
CONTHIST_BONUS_BOUND      == Limit["cont"] - CONTHIST_NEAR_FRAME_BONUS

\* The stack frames a walk visits are 1, 2, 3, 4 and 6 plies back; they are numbered 1..5.
Frames == [1..5 -> Pages \cup {NoMove}]
Kinds == {"cutoff", "static", "reduced", "multicut", "best", "prior", "priorCapture", "barren"}
Plies     == 0..MAX_PLY
\* A node is entered with 1 to MAX_PLY - 1; two adjustments may each add a ply.
Depths    == 1..(MAX_PLY + 1)
MaybeMove == Moves \cup {NoMove}
MoveList  == Seq(Moves)
Eases     == 0..487
Deltas    == -64002..64002
NodeEnd ==
  [kind    : Kinds,
   depth   : Depths, ply : Plies,
   pv      : BOOLEAN, isTt : BOOLEAN, isCapture : BOOLEAN,
   checked : BOOLEAN, checkedBefore : BOOLEAN,
   row     : Pages, frames : Frames, before : Frames,
   move    : Moves, prev : MaybeMove,
   prevEarly : BOOLEAN, prevPawn : BOOLEAN, easy : Eases,
   quiets  : MoveList, captures : MoveList,
   delta   : Deltas]

HistoriesAssumption ==
  /\ NoMove \notin Pages \cup Moves
  /\ Nodes \subseteq NodeEnd
  /\ \A n \in Nodes : Len(n.quiets) <= SEARCHED_LIST /\ Len(n.captures) <= SEARCHED_LIST
  /\ Pieces \subseteq 0..2538
ASSUME HistoriesAssumption

VARIABLES
  searching,    \* the workers whose search is under way
  own, shared,  \* the entries, [worker ->] [table -> [cell -> value]]
  stat,         \* stat_score of the frame above each worker's node
  todo,         \* the updates a node end still has to make, in order
  phase, held,  \* of the update under way: what has been read, and the entry's value then
  at, count,    \* of the walk under way: the frame it has come to, and positive_count
  nodes,        \* bound: node ends so far
  start,        \* history variable: where each shared table stood at the last clear
  punished      \* history variable: the shared entries a punishing update was stored in since
vars == <<searching, own, shared, stat, todo, phase, held, at, count, nodes, start, punished>>

-----------------------------------------------------------------------------
Abs(v)          == IF v < 0 THEN -v ELSE v
Least(a, b)     == IF a < b THEN a ELSE b
Within(v, d)    == -d <= v /\ v <= d
Clamped(b, d)   == IF b < -d THEN -d ELSE IF b > d THEN d ELSE b
\* The division of C.
Quot(a, b)      == IF a < 0 THEN -((-a) \div b) ELSE a \div b
\* Slip: the pull takes the sign of the bonus.
GravitySigned(v, b, d) == v + b - Quot(v * b, d)

\* stats_update, without the clamp: the entry is pulled back as it is pushed.
Gravity(v, b, d) == v + b - Quot(v * Abs(b), d)


\* ---- the bonuses of a node end, search_common.c
QuietStatScore(main, cont0, cont1) == Quot(2252 * main + 1126 * cont0 + 1093 * cont1, 1024)
CaptureStatScore(piece, hist)      == (873 * piece) \div 128 + hist
StatMalus(depth)                   == Least(968 * depth - 235, 2244)
\* `bonus += bonus * uint64_t(n) / 256` rounds a negative product down.
StatBonus(n, score) ==
  LET bonus == Least(133 * n.depth - 81, 1487) + (IF n.isTt THEN 364 ELSE 0) + Quot(score, 28)
  IN IF n.pv THEN bonus ELSE bonus + (bonus * (Len(n.quiets) + Len(n.captures))) \div 256
\* Slip: the floor is dropped.
PriorBonusScaleSigned(n, score) == -241 - Quot(score, 98) + Least(59 * n.depth, 420) + n.easy

\* `easy` is what the three flags of the node add up to.
PriorBonusScale(n, score) ==
  LET s == -241 - Quot(score, 98) + Least(59 * n.depth, 420) + n.easy
  IN IF s > 0 THEN s ELSE 0

PriorScaledBonus(n, score) == Least(150 * n.depth - 85, 1337) * PriorBonusScale(n, score)
QuietPawnScale(bonus)      == Quot(bonus * (IF bonus > -4 THEN 1104 ELSE 459), 1024)
EvalDiff(raw)              == (IF Least(raw, 194) > -189 THEN Least(raw, 194) ELSE -189) + 60
CorrectionHistoryBonus(n)  ==
  Quot(1061 * Clamped(Quot(n.delta * n.depth * (IF n.kind = "best" THEN 12 ELSE 18), 128), 256), 1024)
MulticutCorrectionBonus(n) == Clamped(Quot(n.delta * 664, 1024), 256)

\* ---- the updates they become.  A malus of a later quiet is made when it is reached.
Nudges == [table : Tables \ {"cont"}, cell : Cells, bonus : Int, reward : BOOLEAN]
Walks  == [table : {"cont"}, frames : Frames, checked : BOOLEAN, move : Moves, bonus : Int, reward : BOOLEAN]
Loops  == [table : {"quiets"}, node : Nodes, at : 1..(SEARCHED_LIST + 1), malus : Int]

Nudge(t, page, m, bonus, good) ==
  <<[table |-> t, cell |-> <<page, m>>, bonus |-> bonus, reward |-> good]>>

\* conthist_walk visits the frames that made a move, only the two nearest ones in check.
Skipped(frames, checked, k)   == frames[k] = NoMove \/ (checked /\ k > 2)
NextFrame(frames, checked, k) ==
  CHOOSE j \in k..6 : /\ j < 6 => ~Skipped(frames, checked, j)
                      /\ \A i \in k..(j - 1) : Skipped(frames, checked, i)
Walk(frames, checked, m, bonus, good) ==
  IF NextFrame(frames, checked, 1) = 6 THEN <<>>
  ELSE <<[table |-> "cont", frames |-> frames, checked |-> checked, move |-> m, bonus |-> bonus, reward |-> good]>>

UpdateQuietHistories(n, m, bonus, good) ==
  Nudge("main", n.row, m, bonus, good)
  \o (IF n.ply < LOW_PLY_HISTORY_SIZE THEN Nudge("lowPly", n.row, m, Quot(bonus * 712, 1024), good) ELSE <<>>)
  \o Walk(n.frames, n.checked, m, Quot(bonus * 750, 1024), good)
  \o Nudge("pawn", n.row, m, QuietPawnScale(bonus), good)

UpdateCorrection(n, bonus) ==
  Nudge("corrPawn", n.row, n.move, bonus, FALSE)
  \o Nudge("corrMinor", n.row, n.move, Quot(bonus * 150, 128), FALSE)
  \o Nudge("corrWhite", n.row, n.move, Quot(bonus * 186, 128), FALSE)
  \o Nudge("corrBlack", n.row, n.move, Quot(bonus * 186, 128), FALSE)
  \o (IF n.prev = NoMove THEN <<>>
      ELSE Nudge("contCorrection", n.frames[2], n.prev, Quot(bonus * 130, 128), FALSE)
           \o Nudge("contCorrection", n.frames[4], n.prev, Quot(bonus * 70, 128), FALSE)
           \o Nudge("contCorrection", n.frames[5], n.prev, Quot(bonus * 35, 128), FALSE))

\* search_update_all_stats
BestMove(n, score) ==
  (IF n.isCapture
     THEN Nudge("capture", n.row, n.move, Quot(StatBonus(n, score) * 1427, 1024), FALSE)
     ELSE UpdateQuietHistories(n, n.move, Quot(StatBonus(n, score) * 899, 1024), FALSE)
          \o <<[table |-> "quiets", node |-> n, at |-> 1, malus |-> Quot(StatMalus(n.depth) * 1159, 1024)]>>)
  \o (IF n.prev # NoMove /\ n.prevEarly
        THEN Walk(n.before, n.checkedBefore, n.prev, Quot(-StatMalus(n.depth) * 713, 1024), FALSE) ELSE <<>>)
  \o [j \in 1..Len(n.captures) |->
        Nudge("capture", n.row, n.captures[j], Quot(-StatMalus(n.depth) * 1489, 1024), FALSE)[1]]
  \o (IF n.pv THEN <<>> ELSE Nudge("ttMove", n.row, n.move, IF n.isTt THEN 918 ELSE -747, FALSE))

\* A quiet move no reply improved on is credited to the side that made it.
PriorMove(n, scaled) ==
  Walk(n.before, n.checkedBefore, n.prev, Quot(scaled * 263, 16384), TRUE)
  \o Nudge("main", n.row, n.prev, Quot(scaled * 215, 32768), TRUE)
  \o (IF n.prevPawn THEN <<>> ELSE Nudge("pawn", n.row, n.prev, Quot(scaled * 324, 8192), TRUE))

Cutoff(n) ==
  (IF n.isCapture THEN <<>> ELSE UpdateQuietHistories(n, n.move, 131 * n.depth, TRUE))
  \o (IF n.prev # NoMove /\ n.prevEarly THEN Walk(n.before, n.checkedBefore, n.prev, -2210, FALSE) ELSE <<>>)

\* The static evaluations before and after the last move order it.
OrderByEval(n) ==
  IF n.checked \/ n.checkedBefore \/ n.prev = NoMove THEN <<>>
  ELSE Nudge("main", n.row, n.prev, EvalDiff(n.delta) * 11, FALSE)
       \o (IF n.prevPawn THEN <<>> ELSE Nudge("pawn", n.row, n.prev, EvalDiff(n.delta) * 13, FALSE))

Multicut(n) ==
  Nudge("ttMove", n.row, n.move, -421 - 110 * n.depth, FALSE)
  \o (IF n.checked \/ n.delta <= 0 THEN <<>> ELSE UpdateCorrection(n, MulticutCorrectionBonus(n)))

\* The evaluation is corrected towards a value on the side of it the node proved.
Correct(n) ==
  IF n.checked \/ (n.kind = "best" /\ n.isCapture) \/ (n.delta > 0) # (n.kind = "best") THEN <<>>
  ELSE UpdateCorrection(n, CorrectionHistoryBonus(n))

Ends(n, score) ==
  CASE n.kind = "cutoff"   -> Cutoff(n)
    [] n.kind = "static"   -> OrderByEval(n)
    [] n.kind = "reduced"  -> Walk(n.frames, n.checked, n.move, 1334, TRUE)
    [] n.kind = "multicut" -> Multicut(n)
    [] n.kind = "best"     -> BestMove(n, score) \o Correct(n)
    [] n.kind = "prior"    -> (IF n.prev = NoMove THEN <<>> ELSE PriorMove(n, PriorScaledBonus(n, score))) \o Correct(n)
    [] n.kind = "priorCapture" ->
         (IF n.prev = NoMove THEN <<>> ELSE Nudge("capture", n.row, n.prev, 892, TRUE)) \o Correct(n)
    [] OTHER               -> Correct(n)

-----------------------------------------------------------------------------
\* A search under way: long play has left every entry of a table at one level.
Levels == {"cleared", "floor", "ceiling"}
Level(l, t) == IF l = "cleared" THEN Fill[t] ELSE IF l = "floor" THEN -Limit[t] ELSE Limit[t]
Init ==
  /\ \E l \in Levels :
       /\ own = [w \in Workers |-> [t \in OwnTables |-> [c \in Cells |-> Level(l, t)]]]
       /\ start = [t \in SharedTables |-> Level(l, t)]
  /\ shared = [t \in SharedTables |-> [c \in Cells |-> start[t]]]
  /\ searching = {}
  /\ stat = [w \in Workers |-> 0]
  /\ todo = [w \in Workers |-> <<>>]
  /\ phase = [w \in Workers |-> "idle"]
  /\ held = [w \in Workers |-> 0]
  /\ at = [w \in Workers |-> 1]
  /\ count = [w \in Workers |-> 0]
  /\ nodes = 0
  /\ punished = {}

Quiet(w) == w \in searching => todo[w] = <<>> /\ nodes < MaxNodes
Between(w) == w \in searching /\ Quiet(w)

\* iterative_deepening, before its loop: history_fill_low_ply and history_age_main.
StartSearch(w) ==
  /\ w \notin searching
  /\ searching' = searching \cup {w}
  /\ own' = [own EXCEPT ![w].lowPly = [c \in Cells |-> Fill["lowPly"]],
                        ![w].main = [c \in Cells |-> Quot(own[w].main[c] * 729, 1024)]]
  /\ UNCHANGED <<shared, stat, todo, phase, held, at, count, nodes, start, punished>>

\* history_clear, each worker its own tables and its share of the node's.  ucinewgame
\* waits for the searches, and the next one for it.
Clear ==
  /\ searching # {} /\ \A w \in Workers : Quiet(w)
  /\ searching' = {}
  /\ own' = [w \in Workers |-> [t \in OwnTables |-> IF t = "lowPly" THEN own[w][t] ELSE [c \in Cells |-> Fill[t]]]]
  /\ start' = [t \in SharedTables |-> Fill[t]]
  /\ shared' = [t \in SharedTables |-> [c \in Cells |-> Fill[t]]]
  /\ stat' = [w \in Workers |-> 0]
  /\ punished' = {}
  /\ UNCHANGED <<todo, phase, held, at, count, nodes>>

\* The frame above makes the move the node answers, and rates it by what the tables say.
Rate(w) ==
  /\ Between(w) /\ stat[w] = 0
  /\ \E m \in Moves, page, near, far \in Pages :
       \E score \in {QuietStatScore(own[w].main[<<page, m>>], shared.cont[<<near, m>>], shared.cont[<<far, m>>])}
                    \cup {CaptureStatScore(v, own[w].capture[<<page, m>>]) : v \in Pieces} :
         stat' = [stat EXCEPT ![w] = score]
  /\ UNCHANGED <<searching, own, shared, todo, phase, held, at, count, nodes, start, punished>>

NodeEnds(w) ==
  /\ Between(w)
  /\ nodes' = nodes + 1
  /\ \E n \in Nodes : todo' = [todo EXCEPT ![w] = Ends(n, stat[w])]
  /\ UNCHANGED <<searching, own, shared, stat, phase, held, at, count, start, punished>>

\* The loop over the quiet moves tried: the later one was tried, the less it is blamed.
Turn(l) ==
  LET malus == Quot(l.malus * 921, 1024)
  IN IF l.at > Len(l.node.quiets) THEN <<>>
     ELSE UpdateQuietHistories(l.node, l.node.quiets[l.at], -malus, FALSE)
          \o <<[table |-> "quiets", node |-> l.node, at |-> l.at + 1, malus |-> malus]>>
NextQuiet(w) ==
  /\ todo[w] # <<>> /\ Head(todo[w]).table = "quiets"
  /\ todo' = [todo EXCEPT ![w] = Turn(Head(todo[w])) \o Tail(todo[w])]
  /\ UNCHANGED <<searching, own, shared, stat, phase, held, at, count, nodes, start, punished>>

\* stats_update
UpdateOwn(w) ==
  /\ todo[w] # <<>> /\ Head(todo[w]).table \in OwnTables
  /\ LET u == Head(todo[w])
     IN own' = [own EXCEPT ![w][u.table][u.cell] = Gravity(@, Clamped(u.bonus, Limit[u.table]), Limit[u.table])]
  /\ todo' = [todo EXCEPT ![w] = Tail(todo[w])]
  /\ UNCHANGED <<searching, shared, stat, phase, held, at, count, nodes, start, punished>>

\* The shared entry the update under way is about.
Walking(w) == Head(todo[w]).table = "cont"
Frame(w)   == NextFrame(Head(todo[w]).frames, Head(todo[w]).checked, at[w])
Cell(w)    == IF Walking(w) THEN <<Head(todo[w]).frames[Frame(w)], Head(todo[w]).move>> ELSE Head(todo[w]).cell

\* conthist_walk's own look at the entry, before the update looks at it again.
Count(w) ==
  /\ todo[w] # <<>> /\ Walking(w) /\ phase[w] = "idle"
  /\ count' = [count EXCEPT ![w] = count[w] + (IF shared.cont[Cell(w)] > 0 THEN 1 ELSE 0)]
  /\ phase' = [phase EXCEPT ![w] = "counted"]
  /\ UNCHANGED <<searching, own, shared, stat, todo, held, at, nodes, start, punished>>

\* shared_stat_load
Load(w) ==
  /\ todo[w] # <<>> /\ Head(todo[w]).table \in SharedTables
  /\ phase[w] = IF Walking(w) THEN "counted" ELSE "idle"
  /\ held' = [held EXCEPT ![w] = shared[Head(todo[w]).table][Cell(w)]]
  /\ phase' = [phase EXCEPT ![w] = "loaded"]
  /\ UNCHANGED <<searching, own, shared, stat, todo, at, count, nodes, start, punished>>

\* conthist_delta: ConthistScale is one product of the two tables.
ConthistScale(frame, positive) == ConthistBonuses[frame] * CmhcMultipliers[positive + 1]
Push(bonus, scale) == Quot(bonus * scale, 65536)
ConthistDelta(w) ==
  Push(Head(todo[w]).bonus, ConthistScale(Frame(w), count[w]))
    + (IF Frame(w) = 1 THEN CONTHIST_NEAR_FRAME_BONUS ELSE 0)

\* The walk that leaves the clamp out.
Bounded(bonus) == Within(bonus, CONTHIST_BONUS_BOUND)

Applied(w) ==
  IF ~Walking(w) THEN Clamped(Head(todo[w]).bonus, Limit[Head(todo[w]).table])
  ELSE IF Bounded(Head(todo[w]).bonus) THEN ConthistDelta(w)
  ELSE Clamped(ConthistDelta(w), Limit["cont"])

\* shared_stat_store: not a read-modify-write with the load.
Store(w) ==
  /\ todo[w] # <<>> /\ phase[w] = "loaded"
  /\ LET u == Head(todo[w])
     IN /\ shared' = [shared EXCEPT ![u.table][Cell(w)] = Gravity(held[w], Applied(w), Limit[u.table])]
        /\ punished' = IF u.reward THEN punished ELSE punished \cup {<<u.table, Cell(w)>>}
        /\ IF Walking(w) /\ NextFrame(u.frames, u.checked, Frame(w) + 1) < 6
             THEN at' = [at EXCEPT ![w] = Frame(w) + 1] /\ UNCHANGED <<todo, count>>
             ELSE /\ at' = [at EXCEPT ![w] = 1]
                  /\ count' = [count EXCEPT ![w] = 0]
                  /\ todo' = [todo EXCEPT ![w] = Tail(todo[w])]
  /\ phase' = [phase EXCEPT ![w] = "idle"]
  /\ UNCHANGED <<searching, own, stat, held, nodes, start>>

Next ==
  \/ Clear
  \/ \E w \in Workers :
       \/ StartSearch(w) \/ Rate(w) \/ NodeEnds(w) \/ NextQuiet(w)
       \/ UpdateOwn(w) \/ Count(w) \/ Load(w) \/ Store(w)
Spec == Init /\ [][Next]_vars

-----------------------------------------------------------------------------
INT_MAX == 2147483647

\* history.h: an entry stays in its table's band, so that storing it as int16_t never
\* truncates, though workers overwrite one another's updates; and a walk that leaves
\* the clamp out, which asserts its bonus is in the band, is right to.
WithinLimits ==
  /\ \A w \in Workers, t \in OwnTables, c \in Cells : Within(own[w][t][c], Limit[t])
  /\ \A t \in SharedTables, c \in Cells : Within(shared[t][c], Limit[t])
  /\ \A w \in Workers :
       todo[w] # <<>> /\ phase[w] = "loaded" /\ Walking(w) /\ Bounded(Head(todo[w]).bonus)
         => Within(ConthistDelta(w), Limit["cont"])

\* search_common.c, conthist_delta: bonus * scale is an unguarded int product.  The
\* tables bound the score of the move above, and that the bonus, closely enough.
NoProductOverflows ==
  \A w \in Workers :
    todo[w] # <<>> /\ phase[w] \in {"counted", "loaded"} /\ Walking(w)
      => Abs(Head(todo[w]).bonus) <= INT_MAX \div ConthistScale(Frame(w), count[w])

\* search_common.c, prior_bonus_scale: a fail low "can only ever reward" the move before
\* it, and a research or a cutoff rewards too: where nothing else was stored, workers
\* losing each other's updates never leave an entry below where it was.
RewardsNeverPunish ==
  \A t \in SharedTables, c \in Cells : <<t, c>> \notin punished => shared[t][c] >= start[t]
=============================================================================
