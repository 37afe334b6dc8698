-------------------------- MODULE IterativeDeepening --------------------------
(* The depth loop of one worker and what is made of it: iterative_deepening   *)
(* of src/src/engine/search/search_id.c over the root move list of            *)
(* search_types.h, root_update of search_control.c, the reports of            *)
(* search_emit.c, the vote of worker_set.c and the answer of run_main_search. *)
(* The tree below a root move is an oracle: any value, except that a decisive *)
(* bound it claims is true of the move (SearchTree checks that it is).  The   *)
(* sibling's result at the vote is any that this loop could have given.       *)
EXTENDS Integers, Sequences, FiniteSets, SequencesExt

CONSTANTS
  Searches,       \* the searches that may be asked for, each a record:
                  \*   values, [move -> its true value]: decisive, or 0 when neither won nor lost
                  \*   ranks, [move -> tb_rank]; multiPv, skill, depth, mate: options and limits
                  \*   chatty, whether enough nodes are searched to report in mid-iteration
                  \*   inTb and tb, [move -> tb_score]: whether the tablebases rank the root moves
                  \*   siblings, how many more workers vote
  VALUE_INFINITE, VALUE_MATE, MAX_PLY,
  Guesses,        \* the values that prove nothing
  Averages,       \* what average_score may be, which only places the window
  Delta           \* aspiration_initial_delta

NoScore == -VALUE_INFINITE
IsMate(v)  == v >= VALUE_MATE - MAX_PLY
IsMated(v) == v <= MAX_PLY - VALUE_MATE
TB_WIN_IN_MAX_PLY == VALUE_MATE - 2 * MAX_PLY - 1
IsWin(v)    == v >= TB_WIN_IN_MAX_PLY
IsLoss(v)   == v <= -TB_WIN_IN_MAX_PLY
Decisive(v) == IsWin(v) \/ IsLoss(v)
Abs(v)      == IF v < 0 THEN -v ELSE v

\* Moves are numbered, in the order they were generated.
SearchAssumption(g) ==
  /\ DOMAIN g.values # {} /\ IsFiniteSet(DOMAIN g.values) /\ DOMAIN g.values \subseteq Int
  /\ \A m \in DOMAIN g.values :
       /\ g.values[m] \in Int /\ g.ranks[m] \in Int
       /\ g.values[m] = 0 \/ (Decisive(g.values[m]) /\ Abs(g.values[m]) <= VALUE_MATE)
       /\ g.tb[m] \in Int /\ Abs(g.tb[m]) <= VALUE_MATE - MAX_PLY - 1
  /\ g.inTb \in BOOLEAN /\ (~g.inTb => \A k, m \in DOMAIN g.values : g.ranks[k] = g.ranks[m])
  /\ g.multiPv \in Nat \ {0} /\ g.depth \in Nat /\ g.siblings \in Nat
DeepeningAssumption ==
  /\ MAX_PLY \in Nat /\ VALUE_MATE \in Nat /\ VALUE_INFINITE \in Nat /\ Delta \in Nat
  /\ 2 * MAX_PLY + 1 < VALUE_MATE /\ VALUE_MATE < VALUE_INFINITE /\ Delta >= 3
  /\ \A v \in Guesses : v \in Int /\ ~Decisive(v)
  /\ \A v \in Averages : v \in Int /\ -VALUE_INFINITE <= v /\ v <= VALUE_INFINITE
  /\ \A g \in Searches : SearchAssumption(g)
ASSUME DeepeningAssumption

VARIABLES
  go,       \* the search asked for
  root,     \* ctx->root_moves
  depth, pvIdx, pvFirst, pvLast,
  window,   \* [alpha, beta, delta] of the aspiration
  node,     \* the root node under way: [alpha, best, left, count]
  last,     \* [line, score] of last_best_move_*
  sent,     \* uci_pv_sent
  wire,     \* the last report, line by line
  stop, pc
vars == <<go, root, depth, pvIdx, pvFirst, pvLast,
          window, node, last, sent, wire, stop, pc>>
Moves == DOMAIN go.values

-----------------------------------------------------------------------------
\* A root move's line is the move and the value the line ends in, which stands for
\* the rest of it, so that a line shown with another value's score is seen.
NewRoot(m) ==
  [move |-> m, score |-> NoScore, uci |-> NoScore, lower |-> FALSE, upper |-> FALSE,
   line |-> <<m>>, prev |-> NoScore, prevExact |-> FALSE, prevLine |-> <<m>>]
Inexact(rm)   == rm.lower \/ rm.upper
ExactLoss(rm) == rm.score # NoScore /\ IsLoss(rm.score) /\ ~Inexact(rm)

RootLess(a, b) == IF a.score # b.score THEN a.score > b.score ELSE a.prev > b.prev

\* A stable sort of the positions from lo to hi: each goes behind those it does not beat.
StableSort(list, lo, hi) ==
  LET before(i, j) == RootLess(list[i], list[j]) \/ (i < j /\ ~RootLess(list[j], list[i]))
      place(i)     == lo + Cardinality({j \in lo..hi : j # i /\ before(j, i)})
  IN [k \in DOMAIN list |-> IF k \in lo..hi THEN list[CHOOSE i \in lo..hi : place(i) = k] ELSE list[k]]
Holds(list, m) == \E i \in DOMAIN list : list[i].line[1] = m
MoveToFront(list, m) ==
  IF ~Holds(list, m) THEN list
  ELSE LET at == CHOOSE i \in DOMAIN list : list[i].line[1] = m /\ \A j \in 1..(i - 1) : list[j].line[1] # m
       IN [k \in DOMAIN list |-> IF k = 1 THEN list[at] ELSE IF k <= at THEN list[k - 1] ELSE list[k]]

\* search_emit_pv: a move not reached this iteration is shown with the score and the line
\* of the one before, and a score there never was as 0; a root in a tablebase with the
\* table's score, unless it is a mate.
Kept(rm) ==
  LET v == IF rm.score = NoScore THEN rm.prev ELSE rm.uci IN IF v = NoScore THEN 0 ELSE v
Tabled(v)     == go.inTb /\ ~IsMate(v) /\ ~IsMated(v)
Displayed(rm) == IF Tabled(Kept(rm)) THEN go.tb[rm.move] ELSE Kept(rm)

\* syzygy_extend_pv keeps the line when the clock is short; else it cuts it where the tables
\* part from it and walks on.  A walk that meets a draw takes the score back.
Walks == {"kept", "cut", "walked", "drawn"}
FromTables(v) == Decisive(v) /\ ~IsMate(v) /\ ~IsMated(v)
Extends(rm) == rm.score # NoScore /\ FromTables(Displayed(rm)) /\ (Tabled(Kept(rm)) \/ ~Inexact(rm))
Walked(rm) == [kept |-> rm.line, cut |-> <<rm.move>>, walked |-> <<rm.move, Displayed(rm)>>, drawn |-> <<rm.move, 0>>]
Reported(rm, walk) ==
  [line  |-> IF rm.score = NoScore THEN rm.prevLine ELSE Walked(rm)[walk],
   score |-> IF walk = "drawn" THEN 0 ELSE Displayed(rm),
   bound |-> IF rm.score = NoScore \/ Tabled(Kept(rm)) THEN ""
             ELSE IF rm.lower THEN "lower" ELSE IF rm.upper THEN "upper" ELSE ""]

\* Each line under its number; in the first iteration one without a score is left out.
Emissions(list) ==
  LET lines    == {i \in DOMAIN list : i <= go.multiPv /\ ~(depth = 1 /\ list[i].score = NoScore /\ i > 1)}
      extended == {i \in lines : Extends(list[i])}
  IN {[i \in lines |-> Reported(list[i], IF i \in extended THEN walk[i] ELSE "kept")] : walk \in [extended -> Walks]}

\* What the tables made of a line stays in the list.
Written(list, w) ==
  [i \in DOMAIN list |-> IF i \in DOMAIN w /\ list[i].score # NoScore THEN [list[i] EXCEPT !.line = w[i].line] ELSE list[i]]

\* The list is filled by tb_rank, and within a rank in the order of generation.
Before(k, m) == go.ranks[k] > go.ranks[m] \/ (go.ranks[k] = go.ranks[m] /\ k < m)
Listed(i) == CHOOSE m \in Moves : Cardinality({k \in Moves : Before(k, m)}) = i - 1

Init ==
  /\ go \in Searches
  /\ root = [i \in 1..Cardinality(Moves) |-> NewRoot(Listed(i))]
  /\ depth = 0 /\ pvIdx = 0 /\ pvFirst = 0 /\ pvLast = 0
  /\ window = [alpha |-> NoScore, beta |-> VALUE_INFINITE, delta |-> Delta]
  /\ node = [alpha |-> 0, best |-> 0, left |-> {}, count |-> 0]
  /\ last = [line |-> <<>>, score |-> NoScore]
  /\ sent = FALSE /\ wire = <<>>
  /\ stop = FALSE /\ pc = "loop"

Lines == LET wanted == IF go.skill /\ go.multiPv < 4 THEN 4 ELSE go.multiPv
         IN IF wanted > Len(root) THEN Len(root) ELSE wanted

\* The user, the clock or another worker's find.
RaiseStop ==
  /\ ~stop /\ pc # "answered"
  /\ stop' = TRUE
  /\ UNCHANGED <<go, root, depth, pvIdx, pvFirst, pvLast, window, node, last, sent, wire, pc>>

MayDeepen == depth + 1 < MAX_PLY /\ ~stop /\ (go.depth # 0 => depth < go.depth)
StartIteration ==
  /\ pc = "loop" /\ MayDeepen
  /\ depth' = depth + 1
  /\ sent' = FALSE
  /\ root' = [i \in DOMAIN root |-> [root[i] EXCEPT !.prev = root[i].score, !.prevLine = root[i].line,
                                                    !.prevExact = i <= Lines]]
  /\ pvIdx' = 0 /\ pvFirst' = 0 /\ pvLast' = 0
  /\ pc' = "line"
  /\ UNCHANGED <<go, window, node, last, wire, stop>>

\* Positions are counted from 0, as in the code.
At(i) == root[i + 1]
SameRank(i) == CHOOSE k \in (i + 1)..Len(root) :
                 /\ \A j \in i..(k - 1) : go.ranks[At(j).move] = go.ranks[At(i).move]
                 /\ k = Len(root) \/ go.ranks[At(k).move] # go.ranks[At(i).move]
Low(v)  == IF v > NoScore THEN v ELSE NoScore
High(v) == IF v < VALUE_INFINITE THEN v ELSE VALUE_INFINITE
Opened(alpha) == [alpha |-> alpha, best |-> NoScore, left |-> {At(i).move : i \in pvIdx'..(pvLast' - 1)}, count |-> 0]

\* The line's window, around the average its move has had.
StartLine ==
  /\ pc = "line" /\ pvIdx < Lines
  /\ IF pvIdx = pvLast THEN pvFirst' = pvLast /\ pvLast' = SameRank(pvLast) ELSE UNCHANGED <<pvFirst, pvLast>>
  /\ UNCHANGED pvIdx
  /\ \E average \in Averages :
       /\ window' = [alpha |-> Low(average - Delta), beta |-> High(average + Delta), delta |-> Delta]
       /\ node' = Opened(Low(average - Delta))
  /\ pc' = "search"
  /\ UNCHANGED <<go, root, depth, last, sent, wire, stop>>

\* The values the tree below m may give: a decisive bound it claims is true.
Found(m, alpha, beta) ==
  {v \in Guesses \cup {go.values[k] : k \in Moves} :
     /\ v < beta /\ IsLoss(v) => go.values[m] # 0 /\ go.values[m] <= v
     /\ v > alpha /\ IsWin(v) => go.values[m] # 0 /\ go.values[m] >= v}

\* root_update: the first move and any that beats alpha keep what was found of them.
Update(rm, v, first) ==
  IF first \/ v > node.alpha
  THEN [rm EXCEPT !.score = v, !.line = <<rm.move, v>>,
                  !.lower = v >= window.beta, !.upper = v <= node.alpha,
                  !.uci = IF v >= window.beta THEN window.beta ELSE IF v <= node.alpha THEN node.alpha ELSE v]
  ELSE [rm EXCEPT !.score = NoScore]

\* One root move: the hash move first.  Above beta the rest are left as they were.
NextMove == IF At(pvIdx).move \in node.left THEN At(pvIdx).move
            ELSE CHOOSE m \in node.left : \A k \in node.left : m <= k
SearchMove ==
  /\ pc = "search" /\ ~stop /\ node.left # {}
  /\ LET m == NextMove
         i == CHOOSE k \in DOMAIN root : root[k].line[1] = m
     IN \E v \in Found(m, node.alpha, window.beta) :
          /\ root' = [root EXCEPT ![i] = Update(@, v, node.count = 0)]
          /\ node' = [alpha |-> IF v > node.alpha THEN v ELSE node.alpha,
                      best  |-> IF v > node.best THEN v ELSE node.best,
                      left  |-> IF v >= window.beta THEN {} ELSE node.left \ {m},
                      count |-> node.count + 1]
  /\ UNCHANGED <<go, depth, pvIdx, pvFirst, pvLast, window, last, sent, wire, stop, pc>>

\* ProbCut, of the root node too: a bound at or above beta before any move is searched.
CutNode ==
  /\ pc = "search" /\ ~stop /\ node.count = 0 /\ node.left # {}
  /\ ~Decisive(window.beta)
  /\ \E v \in Guesses :
       /\ v >= window.beta
       /\ node' = [alpha |-> v, best |-> v, left |-> {}, count |-> 0]
  /\ UNCHANGED <<go, root, depth, pvIdx, pvFirst, pvLast, window, last, sent, wire, stop, pc>>

\* The node returns; outside the window it is searched again in a wider one.
\* Slip: what failed low is searched again as it was.
FailsLowInPlace == [alpha |-> window.alpha, beta |-> window.beta]

FailsLow == [alpha |-> Low(node.best - window.delta), beta |-> window.alpha]

FailsHigh ==
  [alpha |-> IF window.beta - window.delta > window.alpha THEN window.beta - window.delta ELSE window.alpha,
   beta  |-> High(node.best + window.delta)]
\* Past twice VALUE_INFINITE a wider window is no other window.
Grown(delta) == LET wider == delta + (47 * delta) \div 128
                IN IF wider > 2 * VALUE_INFINITE THEN 2 * VALUE_INFINITE ELSE wider
ReturnNode ==
  /\ pc = "search" /\ (stop \/ node.left = {})
  /\ LET sorted == StableSort(root, pvIdx + 1, pvLast)
         low    == node.best <= window.alpha
         high   == node.best >= window.beta
         wider  == IF low THEN FailsLow ELSE FailsHigh
     IN /\ IF ~stop /\ (low \/ high) /\ Lines = 1 /\ go.chatty
           THEN \E w \in Emissions(sorted) : wire' = w /\ root' = Written(sorted, w)
           ELSE root' = sorted /\ UNCHANGED wire
        /\ UNCHANGED <<pvIdx, pvLast>>
        /\ IF ~stop /\ (low \/ high)
           THEN /\ window' = [alpha |-> wider.alpha, beta |-> wider.beta, delta |-> Grown(window.delta)]
                /\ node' = [alpha |-> wider.alpha, best |-> NoScore,
                            left |-> {sorted[i + 1].move : i \in pvIdx..(pvLast - 1)}, count |-> 0]
                /\ UNCHANGED pc
           ELSE /\ pc' = "lined"
                /\ UNCHANGED <<window, node>>
  /\ UNCHANGED <<go, depth, pvFirst, last, sent, stop>>

\* An aborted line may not spoil a loss proven of an earlier one, nor claim a loss.
Distrusted(cur, above) ==
  (IsLoss(above.score) /\ RootLess(cur, above)) \/ ExactLoss(cur)
Repaired(cur, above) ==
  IF cur.prev # NoScore /\ cur.prevExact /\ cur.prev <= above.score
  THEN [cur EXCEPT !.score = cur.prev, !.uci = cur.prev, !.prev = NoScore, !.line = cur.prevLine,
                   !.lower = FALSE, !.upper = FALSE]
  ELSE IF IsLoss(above.score)
       THEN [cur EXCEPT !.score = above.score, !.uci = above.score, !.prev = NoScore, !.line = <<cur.line[1]>>,
                        !.upper = TRUE, !.lower = FALSE]
       ELSE [cur EXCEPT !.upper = FALSE, !.lower = TRUE]
AfterAbort(list) ==
  IF ~stop \/ pvIdx = 0 THEN list
  ELSE [i \in DOMAIN list |->
          IF i = pvIdx + 1 THEN IF Distrusted(list[i], list[i - 1]) THEN Repaired(list[i], list[i - 1]) ELSE list[i]
          ELSE IF i \in (pvIdx + 2)..Lines /\ ExactLoss(list[i]) THEN [list[i] EXCEPT !.lower = TRUE]
          ELSE list[i]]
EndLine ==
  /\ pc = "lined"
  /\ root' = StableSort(AfterAbort(root), pvFirst + 1, pvIdx + 1)
  /\ pc' = "sorted"
  /\ UNCHANGED <<go, depth, pvIdx, pvFirst, pvLast, window, node, last, sent, wire, stop>>

\* The stop is read again before the report, and once more after it.
ShowLine ==
  /\ pc = "sorted"
  /\ IF ~stop /\ (pvIdx + 1 = Lines \/ go.chatty)
     THEN /\ \E w \in Emissions(root) : wire' = w /\ root' = Written(root, w)
          /\ sent' = (pvIdx + 1 = Lines)
     ELSE UNCHANGED <<root, wire, sent>>
  /\ pc' = "shown"
  /\ UNCHANGED <<go, depth, pvIdx, pvFirst, pvLast, window, node, last, stop>>

LeaveLine ==
  /\ pc = "shown"
  /\ pc' = IF stop \/ pvIdx + 1 = Lines THEN "iterated" ELSE "line"
  /\ pvIdx' = IF stop THEN pvIdx ELSE pvIdx + 1
  /\ UNCHANGED <<go, root, depth, pvFirst, pvLast, window, node, last, sent, wire, stop>>

\* Slip: the loss of a search cut short is believed, and an unfinished iteration's mate only is restored.
LossBelieved == FALSE
ForgottenWhenStopped ==
  /\ stop /\ last.score # NoScore /\ (IsMate(last.score) \/ IsMated(last.score))
  /\ Abs(root[1].score) < Abs(last.score) \/ Inexact(root[1])

\* A mate found and then lost sight of is put back, and so is the last iteration's
\* result in place of a loss that a search cut short claims.
ForgottenMate ==
  /\ last.score # NoScore /\ (IsMate(last.score) \/ IsMated(last.score))
  /\ Abs(root[1].score) < Abs(last.score) \/ Inexact(root[1])

AbortedLoss == stop /\ pvIdx = 0 /\ ExactLoss(root[1])

RollsBack == AbortedLoss \/ (root[1].score # NoScore /\ ForgottenMate)
MateInLimit(v) == go.mate # 0 /\ (IsMate(v) \/ IsMated(v)) /\ VALUE_MATE - Abs(v) <= 2 * go.mate
EndIteration ==
  /\ pc = "iterated"
  /\ last' = IF stop \/ ForgottenMate THEN last ELSE [line |-> root[1].line, score |-> root[1].score]
  /\ IF RollsBack /\ last'.line # <<>>
     THEN /\ root' = LET list == MoveToFront(root, last'.line[1])
                     IN [list EXCEPT ![1] = [@ EXCEPT !.score = last'.score, !.uci = last'.score, !.line = last'.line,
                                                      !.lower = FALSE, !.upper = FALSE]]
          /\ sent' = FALSE
     ELSE /\ root' = IF AbortedLoss THEN [root EXCEPT ![1].lower = TRUE] ELSE root
          /\ UNCHANGED sent
  /\ stop' = (stop \/ MateInLimit(root'[1].score))
  /\ pc' = "loop"
  /\ UNCHANGED <<go, depth, pvIdx, pvFirst, pvLast, window, node, wire>>

-----------------------------------------------------------------------------
\* A handicapped search plays any of its lines, or one that was among them when it was picked.
Handicapped(list) ==
  IF ~go.skill THEN {list}
  ELSE {[list EXCEPT ![1] = list[i], ![i] = list[1]] : i \in 1..(IF depth > 1 THEN Len(list) ELSE Lines)}

\* The moves the proof of a loss has to cover: those of the move's rank.
Rivals(m) == {k \in Moves : go.ranks[k] = go.ranks[m]}

\* worker_set.c: what the siblings may bring to the vote, each the first of its own
\* root moves, which heads its rank; one stopped before its first has no score yet.
Results ==
  {rm \in [move : {m \in Moves : \A k \in Moves : go.ranks[k] <= go.ranks[m]},
           score : {NoScore} \cup Guesses \cup {go.values[k] : k \in Moves}, exact : BOOLEAN] :
     rm.exact => /\ rm.score # NoScore
                 /\ IsLoss(rm.score) => \A k \in Rivals(rm.move) : go.values[k] # 0 /\ go.values[k] <= rm.score
                 /\ IsWin(rm.score) => go.values[rm.move] # 0 /\ go.values[rm.move] >= rm.score}
Sibling(rm) == [NewRoot(rm.move) EXCEPT !.score = rm.score, !.uci = rm.score, !.lower = ~rm.exact,
                                        !.line = <<rm.move, rm.score>>]

ExactDecisive(rm) == rm.score # NoScore /\ Decisive(rm.score) /\ ~Inexact(rm)
VoteFor(m, all) ==
  LET low == CHOOSE s \in {all[i].score : i \in DOMAIN all} : \A i \in DOMAIN all : s <= all[i].score
  IN FoldLeft(LAMBDA sum, rm : IF rm.line[1] = m THEN sum + rm.score - low + 14 ELSE sum, 0, all)
Better(new, best, all) ==
  IF ExactDecisive(best) THEN ExactDecisive(new) /\ Abs(new.score) > Abs(best.score)
  ELSE \/ ExactDecisive(new)
       \/ /\ ~IsLoss(new.score)
          /\ \/ VoteFor(new.line[1], all) > VoteFor(best.line[1], all)
             \/ VoteFor(new.line[1], all) = VoteFor(best.line[1], all) /\ Len(new.line) > Len(best.line)
\* The vote goes through the workers once: leader[i] is the one ahead after the i-th.
Elects(all, winner) ==
  \E leader \in [DOMAIN all -> DOMAIN all] :
    /\ leader[1] = 1
    /\ \A i \in 2..Len(all) : leader[i] = IF Better(all[i], all[leader[i - 1]], all) THEN i ELSE leader[i - 1]
    /\ winner = leader[Len(all)]

\* Slip: a reply found to ponder on does not count as a new line.
SentWithoutReply(ponder, winner) == sent /\ winner = 1

SentBefore(ponder, winner) == sent /\ ~ponder /\ winner = 1

\* run_main_search once the loop is over: join, vote, look for a reply to ponder on,
\* and report again unless the line on the wire is the one played.
Answer ==
  /\ pc = "loop" /\ ~MayDeepen
  /\ \E list \in Handicapped(root), results \in [1..go.siblings -> Results] :
       LET all == [i \in 1..(go.siblings + 1) |-> IF i = 1 THEN list[1] ELSE Sibling(results[i - 1])]
       IN \E winner \in DOMAIN all, ponder \in BOOLEAN :   \* ponder: a single move is all there was, and the table has a reply
            /\ IF go.skill \/ go.depth # 0 THEN winner = 1 ELSE Elects(all, winner)
            /\ LET best == IF ponder THEN [all[winner] EXCEPT !.line = Append(@, VALUE_INFINITE)] ELSE all[winner]
               IN \E final \in {IF winner = 1 THEN [list EXCEPT ![1] = best] ELSE <<best>>} :
                    IF SentBefore(ponder, winner) THEN root' = final /\ UNCHANGED wire
                    ELSE \E w \in Emissions(final) : wire' = w /\ root' = Written(final, w)
  /\ stop' = TRUE
  /\ pc' = "answered"
  /\ UNCHANGED <<go, depth, pvIdx, pvFirst, pvLast, window, node, last, sent>>

Deepen == StartIteration \/ StartLine \/ SearchMove \/ CutNode \/ ReturnNode
            \/ EndLine \/ ShowLine \/ LeaveLine \/ EndIteration \/ Answer
Next == RaiseStop \/ Deepen
Spec == Init /\ [][Next]_vars /\ WF_vars(Deepen)

-----------------------------------------------------------------------------
\* An exact loss is answered only when every move of that rank loses at least as
\* fast, whenever the stop came: a loss met by a search cut short is not believed.
LossIsProven(rm) == IsLoss(rm.score) /\ \A m \in Rivals(rm.move) : go.values[m] # 0 /\ go.values[m] <= rm.score
ExactLossIsProven == pc = "answered" /\ ~go.skill /\ ExactLoss(root[1]) => LossIsProven(root[1])

\* A mate once found is never traded for less: no later iteration replaces it, whether
\* it was cut short or not, and no vote prefers a line that is not proven.
FoundMate == last.score # NoScore /\ (IsMate(last.score) \/ IsMated(last.score))
MateIsKept ==
  [][FoundMate => /\ Abs(last'.score) >= Abs(last.score)
                  /\ pc' = "answered" /\ ~go.skill /\ root'[1].score # NoScore =>
                       ExactDecisive(root'[1]) /\ Abs(root'[1].score) >= Abs(last.score)]_vars

\* The list stays a permutation of the root moves, each line beginning with its own move.
Permuted ==
  /\ {root[i].move : i \in DOMAIN root} = Moves
  /\ \A i \in DOMAIN root : root[i].line[1] = root[i].move /\ root[i].prevLine[1] = root[i].move

\* A report with a score and without a mark: its line ends in that score, or in the draw
\* the tables found where a table's score was claimed, or in a reply to ponder on; with
\* the root in a tablebase the score is the table's for the move, or a mate.
Unmarked(w) ==
  IF go.inTb THEN IsMate(w.score) \/ IsMated(w.score) \/ w.score = go.tb[w.line[1]]
  ELSE Len(w.line) > 1 => w.line[2] \in {w.score, VALUE_INFINITE} \/ (w.line[2] = 0 /\ FromTables(w.score))

\* The last report is of the line played and its score, unless the tables met a draw, and
\* says that the answer is a bound when it is: except of a table's score, and of a loss
\* shown when it was proven and marked when the stop came during the report.
Played(w, rm) ==
  /\ w.line = rm.line
  /\ w.score = Displayed(rm) \/ (w.score = 0 /\ FromTables(Displayed(rm)))
  /\ w.bound # "" => Inexact(rm)
  /\ w.bound = "" /\ Inexact(rm) => Tabled(Kept(rm)) \/ LossIsProven(rm)

ReportedIsPlayed ==
  /\ pc # "answered" => Permuted
  /\ \A i \in DOMAIN root : ~(root[i].lower /\ root[i].upper)
  /\ \A i \in DOMAIN wire : wire[i].bound = "" /\ wire[i].score # 0 => Unmarked(wire[i])
  /\ pc = "answered" /\ ~go.skill /\ root[1].score # NoScore => Played(wire[1], root[1])

\* The search ends, however the values it meets fall outside its windows.
DeepeningEnds == <>(pc = "answered")
=============================================================================
