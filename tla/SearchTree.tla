----------------------------- MODULE SearchTree -----------------------------
(* One worker's alpha-beta tree: search_node of src/src/engine/search/        *)
(* search_main.c and qsearch_node of search_qsearch.c, called by deeper and   *)
(* deeper root searches.  The C stack is the sequence `stack` of frames, the  *)
(* Stack array of per-ply slots is ss, the position is the path to it through *)
(* a small abstract game.  Where the code compares a tuned margin, a history  *)
(* or an exchange with a value, the model takes either branch, under the      *)
(* guards that do not depend on the tuning; each such choice that prunes,     *)
(* reduces or extends costs one of MaxTricks.  The values keep their bands.   *)
EXTENDS Integers, Sequences, FiniteSets, FiniteSetsExt, Functions

CONSTANTS
  Games,         \* records [root, moves, check, eval, npm, null, tb], see GameAssumption
  VALUE_INFINITE, VALUE_MATE, MAX_PLY,
  MaxDepth,      \* the deepest root search
  MaxTricks,     \* tuned choices made against the default, per behaviour
  Margin,        \* the least step of a margin: ProbCut's, the singular one's
  CaptureWorth,  \* the value of a captured piece
  NullReduction, \* null_move_reduction
  From,          \* the depths from which a step applies, see Steps
  FiftyMoves,    \* 100
  MayStop        \* whether somebody may raise the stop flag

\* In the code cut 5, confirm 7, penalize 6, verify 16, reduce 6, singular 6.
Steps == {"cut", "confirm", "penalize", "verify", "reduce", "singular"}
DRAW  == 0
NONE  == VALUE_INFINITE + 1
MATE_IN_MAX_PLY == VALUE_MATE - MAX_PLY
TB    == MATE_IN_MAX_PLY - 1
TB_WIN_IN_MAX_PLY == TB - MAX_PLY
DEPTH_QS == 0
DEPTH_UNSEARCHED == -2

\* A position is an index; a move an index into its list of [to, cap]; null is
\* the position after a null move, or 0; tb the WDL of a tabled position.
GameAssumption ==
  /\ \A g \in Games :
       /\ g.root \in DOMAIN g.moves
       /\ \A p \in DOMAIN g.moves :
            /\ \A m \in DOMAIN g.moves[p] : g.moves[p][m].to \in DOMAIN g.moves /\ g.moves[p][m].cap \in BOOLEAN
            /\ g.check[p] \in BOOLEAN /\ g.npm[p] \in BOOLEAN
            /\ g.eval[p] \in (1 - TB_WIN_IN_MAX_PLY)..(TB_WIN_IN_MAX_PLY - 1)
            /\ g.null[p] # 0 => g.null[p] \in DOMAIN g.moves /\ ~g.check[p] /\ ~g.check[g.null[p]]
            /\ g.tb[p] \in -2..2 \cup {NONE}
  /\ TB_WIN_IN_MAX_PLY > Margin /\ VALUE_MATE < VALUE_INFINITE
  /\ DOMAIN From = Steps /\ From.cut <= From.penalize
ASSUME GameAssumption

VARIABLES game, path, stack, ss, tt, nmpMinPly, stop, iteration, rootMoves, ret, tricks
vars == <<game, path, stack, ss, tt, nmpMinPly, stop, iteration, rootMoves, ret, tricks>>

-----------------------------------------------------------------------------
\* search_common.h: the bands a value lies in.
IsWin(v)    == v >= TB_WIN_IN_MAX_PLY
IsLoss(v)   == v <= -TB_WIN_IN_MAX_PLY
Decisive(v) == IsWin(v) \/ IsLoss(v)
MatedIn(n)  == n - VALUE_MATE
MateIn(n)   == VALUE_MATE - n
Draws       == {-1, 1}          \* search_value_draw: the node count picks one

ValueToTT(v, ply) == IF IsWin(v) THEN v + ply ELSE IF IsLoss(v) THEN v - ply ELSE v

\* A win too far off to come before the fifty moves run out is no longer one.
WinFromTT(v, ply, r50) ==
  IF \/ v >= MATE_IN_MAX_PLY /\ VALUE_MATE - v > FiftyMoves - r50
     \/ TB - v > FiftyMoves - r50
  THEN TB_WIN_IN_MAX_PLY - 1 ELSE v - ply
ValueFromTT(v, ply, r50) ==
  CASE v = NONE -> NONE
    [] v # NONE /\ IsWin(v)  -> WinFromTT(v, ply, r50)
    [] v # NONE /\ IsLoss(v) -> -WinFromTT(-v, ply, r50)
    [] OTHER -> v

\* C's division, towards zero.
Quot(a, b)  == IF a < 0 THEN -((-a) \div b) ELSE a \div b
Blend(a, b) == Quot(a + b, 2)

-----------------------------------------------------------------------------
\* The position: the path of [pos, r50, since, cap] from the root.
ply  == Len(path) - 1
Node == path[Len(path)]
here == Node.pos
InCheck == game.check[here]
Moves   == game.moves[here]

Step(m) == LET mv == Moves[m]
           IN [pos |-> mv.to, r50 |-> IF mv.cap THEN 0 ELSE Node.r50 + 1,
               since |-> Node.since + 1, cap |-> mv.cap]
NullStep == [pos |-> game.null[here], r50 |-> Node.r50 + 1, since |-> 0, cap |-> FALSE]
Back(i)  == path[Len(path) - i].pos
Window   == IF Node.r50 < Node.since THEN Node.r50 ELSE Node.since

UpcomingRepetition ==
  \E i \in 3..Window : i < ply /\ \E m \in DOMAIN Moves : ~Moves[m].cap /\ Moves[m].to = Back(i)
IsDraw ==
  LET same == {i \in 4..Window : i <= ply /\ Back(i) = here}
  IN \/ same # {} /\ Min(same) < ply
     \/ Node.r50 >= FiftyMoves /\ (~InCheck \/ Moves # <<>>)

-----------------------------------------------------------------------------
\* The stack of frames.
NoEntry == [found |-> FALSE, value |-> NONE, bound |-> {}, depth |-> DEPTH_UNSEARCHED - 1, move |-> 0, pv |-> FALSE]
NewSlot == [excluded |-> 0, pv |-> 0, reduction |-> 0, ttPv |-> FALSE]

Frame(kind, at, a, b, depth, cut) ==
  [kind |-> kind, pc |-> "enter", ply |-> at, alpha |-> a, beta |-> b, depth |-> depth, cut |-> cut,
   window |-> <<a, b>>, excluded |-> 0, tt |-> NoEntry, eval |-> NONE, static |-> NONE,
   best |-> -VALUE_INFINITE, max |-> VALUE_INFINITE, bestMove |-> 0, count |-> 0, done |-> {},
   skipQuiets |-> FALSE, move |-> 0, extension |-> 0, newDepth |-> 0, reached |-> 0, value |-> 0, pv |-> <<>>]

n == Len(stack)
f == stack[n]
At(kinds, pc) == stack # <<>> /\ f.kind \in kinds /\ f.pc = pc
Main   == {"root", "pv", "nonpv"}
Quiesce == {"qpv", "q"}
IsPv   == f.kind \in {"root", "pv", "qpv"}
AllNode == ~IsPv /\ ~f.cut

Become(g)    == stack' = [stack EXCEPT ![n] = g]
Call(g, fr)  == stack' = Append([stack EXCEPT ![n] = g], fr)
NoReturn     == [value |-> NONE, pos |-> 0, ply |-> 0, window |-> <<0, 0>>, excluded |-> 0, kind |-> "q"]
Return(v)    == /\ stack' = SubSeq(stack, 1, n - 1)
                /\ ret' = [value |-> v, pos |-> here, ply |-> ply, window |-> f.window,
                           excluded |-> f.excluded, kind |-> f.kind]
Continue     == ret' = NoReturn
Trick        == tricks < MaxTricks /\ tricks' = tricks + 1
NoTrick      == UNCHANGED tricks

\* tt_save, of which TranspositionTable has the rest: an exact bound or a depth near
\* the stored one replaces it, the move is replaced by any move there is.
SaveTo(pos, v, bound, depth, move, pv) ==
  LET d    == IF depth < MAX_PLY - 1 THEN depth ELSE MAX_PLY - 1
      kept == IF move = 0 THEN tt[pos].move ELSE move
  IN tt' = IF bound = {"LOWER", "UPPER"} \/ d + (IF pv THEN 2 ELSE 0) > tt[pos].depth - 4
           THEN [tt EXCEPT ![pos] = [found |-> TRUE, value |-> v, bound |-> bound, depth |-> d, move |-> kept, pv |-> pv]]
           ELSE [tt EXCEPT ![pos].move = kept]
Save(v, bound, depth, move, pv) == SaveTo(here, ValueToTT(v, ply), bound, depth, move, pv)

\* The line a PV node writes: the local of the frame its slot points at.
WithLine(s, target, line) == IF target = 0 THEN s ELSE [s EXCEPT ![target].pv = line]
ChildLine(s) == IF ss[f.ply + 1].pv = 0 THEN <<>> ELSE s[ss[f.ply + 1].pv].pv

Init ==
  /\ game \in Games
  /\ path = <<[pos |-> game.root, r50 |-> 0, since |-> 0, cap |-> FALSE]>>
  /\ stack = <<>> /\ ret = NoReturn
  /\ ss = [p \in 0..(MAX_PLY + 1) |-> NewSlot]
  /\ tt = [p \in DOMAIN game.moves |-> NoEntry]
  /\ nmpMinPly = 0 /\ stop = FALSE /\ iteration = 0 /\ tricks = 0
  /\ rootMoves = [m \in DOMAIN game.moves[game.root] |-> [score |-> -VALUE_INFINITE, line |-> <<m>>]]

\* The depth loop's call; the root moves are sorted by their scores before it.
SearchRoot ==
  /\ stack = <<>> /\ ~stop /\ iteration < MaxDepth /\ rootMoves # <<>>
  /\ iteration' = iteration + 1
  /\ stack' = <<Frame("root", 0, -VALUE_INFINITE, VALUE_INFINITE, iteration + 1, FALSE)>>
  /\ Continue
  /\ UNCHANGED <<game, path, ss, tt, nmpMinPly, stop, rootMoves, tricks>>

RaiseStop ==
  /\ MayStop /\ ~stop /\ stack # <<>>
  /\ stop' = TRUE
  /\ UNCHANGED <<game, path, stack, ss, tt, nmpMinPly, iteration, rootMoves, ret, tricks>>

\* search_node at depth 0.
Dive ==
  /\ At(Main, "enter") /\ f.depth <= 0
  /\ Become([f EXCEPT !.kind = IF IsPv THEN "qpv" ELSE "q"])
  /\ UNCHANGED <<game, path, ss, tt, nmpMinPly, stop, iteration, rootMoves, ret, tricks>>

\* A cycle the mover can close raises alpha to a draw.  A quiescence PV node then
\* clears the line it will write, and lends its own to the ply below.
Open ==
  /\ At(Main \cup Quiesce, "enter") /\ (f.kind \in Main => f.depth > 0)
  /\ LET cycle == f.kind # "root" /\ f.alpha < DRAW /\ UpcomingRepetition
     IN \E a \in IF cycle THEN Draws ELSE {f.alpha} :
        /\ IF a = 1 /\ cycle THEN Trick ELSE NoTrick
        /\ LET g == [f EXCEPT !.pc = "opened", !.alpha = a, !.excluded = IF f.kind \in Main THEN ss[ply].excluded ELSE 0,
                             !.depth = IF @ < MAX_PLY THEN @ ELSE MAX_PLY - 1]
          IN IF cycle /\ a >= f.beta THEN Return(a) /\ UNCHANGED ss
             ELSE /\ Continue
                  /\ IF f.kind = "qpv"
                     THEN /\ stack' = WithLine([stack EXCEPT ![n] = g], ss[ply].pv, <<>>)
                          /\ ss' = [ss EXCEPT ![ply + 1].pv = n]
                     ELSE Become(g) /\ UNCHANGED ss
  /\ UNCHANGED <<game, path, tt, nmpMinPly, stop, iteration, rootMoves>>

\* Step 2: a stopped search, a draw, the last ply.  Quiescence reads no stop.
Bails == f.kind # "root" /\ ((f.kind \in Main /\ stop) \/ IsDraw \/ ply >= MAX_PLY)
Bail ==
  /\ At(Main \cup Quiesce, "opened") /\ Bails
  /\ \E d \in IF f.kind \in Main THEN Draws ELSE {DRAW} :
       /\ Return(IF ply >= MAX_PLY /\ ~InCheck THEN game.eval[here] ELSE d)
       /\ IF d = 1 THEN Trick ELSE NoTrick
  /\ UNCHANGED <<game, path, ss, tt, nmpMinPly, stop, iteration, rootMoves>>

\* Step 3: no mate found below can beat one already found above.
MateAlpha == IF f.kind # "root" /\ MatedIn(ply) > f.alpha THEN MatedIn(ply) ELSE f.alpha
MateBeta  == IF f.kind # "root" /\ MateIn(ply + 1) < f.beta THEN MateIn(ply + 1) ELSE f.beta
MateDistance ==
  /\ At(Main, "opened") /\ ~Bails /\ MateAlpha >= MateBeta
  /\ Return(MateAlpha)
  /\ UNCHANGED <<game, path, ss, tt, nmpMinPly, stop, iteration, rootMoves, tricks>>

\* Steps 4 and 5: the table's entry, and the static evaluation, which a miss files
\* at once; the root's hash move heads its own list.  In hindsight of the parent's
\* reduction the depth moves by one, as the evaluations compare.
BestRootMove == CHOOSE m \in DOMAIN rootMoves :
                  \A k \in DOMAIN rootMoves : \/ rootMoves[k].score < rootMoves[m].score
                                              \/ rootMoves[k].score = rootMoves[m].score /\ m <= k
Hashed(e) == [e EXCEPT !.value = IF e.found THEN ValueFromTT(@, ply, Node.r50) ELSE NONE,
                       !.move = IF f.kind = "root" THEN BestRootMove ELSE IF e.found THEN @ ELSE 0]
Covers(e, high) == (IF high THEN "LOWER" ELSE "UPPER") \in e.bound
Hindsight == LET r == IF ply = 0 THEN 0 ELSE ss[ply - 1].reduction
             IN {0} \cup {d \in {-1, 1} : d = 1 /\ r >= 3} \cup {d \in {-1} : r >= 2 /\ f.depth >= 2}

Probe ==
  /\ At(Main, "opened") /\ ~Bails /\ MateAlpha < MateBeta
  /\ LET e      == Hashed(tt[here])
         static == IF InCheck THEN NONE ELSE game.eval[here]
         trusts == ~InCheck /\ f.excluded = 0 /\ e.found /\ e.value # NONE /\ Covers(e, e.value > static)
         ttPv   == IF f.excluded # 0 THEN ss[ply].ttPv ELSE IsPv \/ (e.found /\ e.pv)
     IN /\ \E d \in Hindsight :
             /\ IF d = 0 THEN NoTrick ELSE Trick
             /\ Become([f EXCEPT !.pc = "cut", !.alpha = MateAlpha, !.beta = MateBeta, !.tt = e, !.static = static,
                                 !.eval = IF trusts THEN e.value ELSE static, !.depth = @ + d])
        /\ IF ~InCheck /\ f.excluded = 0 /\ ~e.found
           THEN SaveTo(here, NONE, {}, DEPTH_UNSEARCHED, 0, ttPv)
           ELSE UNCHANGED tt
        /\ ss' = [p \in DOMAIN ss |-> IF p = ply THEN [ss[p] EXCEPT !.ttPv = ttPv]
                                      ELSE IF p = ply - 1 THEN [ss[p] EXCEPT !.reduction = 0] ELSE ss[p]]
  /\ Continue
  /\ UNCHANGED <<game, path, nmpMinPly, stop, iteration, rootMoves>>

\* Step 6: a non-PV node answered by an entry deep enough, whose bound covers the
\* side asked about; a deep cutoff must agree with the entry of the position its
\* move leads to, read even if it was penalized out of use.  An entry as deep whose
\* bound points the other way is penalized.
Answers == /\ ~IsPv /\ f.excluded = 0 /\ f.tt.value # NONE
           /\ f.tt.depth > f.depth - (IF f.tt.value <= f.beta THEN 1 ELSE 0)
Cuts    == /\ Answers /\ Covers(f.tt, f.tt.value >= f.beta)
           /\ f.cut = (f.tt.value >= f.beta) \/ f.depth >= From.cut
Confirmed ==
  /\ Node.r50 < FiftyMoves - 4
  /\ f.depth >= From.confirm /\ f.tt.move # 0 /\ ~Decisive(f.tt.value) =>
       LET next == tt[Moves[f.tt.move].to].value
       IN next # NONE => (f.tt.value >= f.beta) = (-next >= f.beta)
Cutoff ==
  /\ At(Main, "cut") /\ Cuts /\ Confirmed
  /\ Return(f.tt.value)
  /\ UNCHANGED <<game, path, ss, tt, nmpMinPly, stop, iteration, rootMoves, tricks>>

\* Step 7: the tablebases; a tabled win or loss cuts, or bounds a PV node's value.
TbValue == CASE game.tb[here] < -1 -> -(TB - ply)
             [] game.tb[here] > 1  -> TB - ply
             [] OTHER -> DRAW + 2 * game.tb[here]
TbBound == CASE game.tb[here] < -1 -> {"UPPER"} [] game.tb[here] > 1 -> {"LOWER"}
             [] OTHER -> {"UPPER", "LOWER"}
Penalized(e) == [e EXCEPT !.depth = @ - 1, !.found = @ /\ e.depth > DEPTH_UNSEARCHED]
ProbeTb ==
  /\ At(Main, "cut") /\ ~(Cuts /\ Confirmed)
  /\ LET tabled == f.kind # "root" /\ f.excluded = 0 /\ game.tb[here] # NONE /\ Node.r50 = 0
         cuts   == \/ TbBound = {"UPPER", "LOWER"}
                   \/ TbBound = {"LOWER"} /\ TbValue >= f.beta
                   \/ TbBound = {"UPPER"} /\ TbValue <= f.alpha
         next   == [f EXCEPT !.pc = IF InCheck THEN "deep" ELSE "prune"]
         wins   == TbBound = {"LOWER"}
     IN CASE ~tabled ->
               /\ Become(next) /\ Continue
               /\ tt' = IF Answers /\ ~Cuts /\ f.depth >= From.penalize
                        THEN [tt EXCEPT ![here] = Penalized(@)] ELSE tt
          [] tabled /\ cuts ->
               /\ Return(TbValue)
               /\ Save(TbValue, TbBound, f.depth + 6, 0, ss[ply].ttPv)
          [] OTHER ->
               /\ Become(IF ~IsPv THEN next
                         ELSE IF wins
                         THEN [next EXCEPT !.best = TbValue, !.alpha = IF @ > TbValue THEN @ ELSE TbValue]
                         ELSE [next EXCEPT !.max = TbValue])
               /\ Continue /\ UNCHANGED tt
  /\ UNCHANGED <<game, path, ss, nmpMinPly, stop, iteration, rootMoves, tricks>>

\* Steps 8 and 9, out of check: a hopeless evaluation is left to quiescence, a
\* safe one is believed, but neither a loss nor a win may come of it.
Razor ==
  /\ At(Main, "prune") /\ AllNode /\ f.eval < f.alpha /\ Trick
  /\ Call([f EXCEPT !.pc = "razored"], Frame("q", ply, f.alpha, f.beta, 0, FALSE))
  /\ Continue
  /\ UNCHANGED <<game, path, ss, tt, nmpMinPly, stop, iteration, rootMoves>>
Razored ==
  /\ At(Main, "razored")
  /\ Return(ret.value)
  /\ UNCHANGED <<game, path, ss, tt, nmpMinPly, stop, iteration, rootMoves, tricks>>

Futility ==
  /\ At(Main, "prune") /\ Trick
  /\ ~ss[ply].ttPv /\ f.eval >= f.beta /\ ~IsLoss(f.beta) /\ ~IsWin(f.eval)
  /\ f.tt.move # 0 => Moves[f.tt.move].cap
  /\ Return(Blend(f.beta, f.eval))
  /\ UNCHANGED <<game, path, ss, tt, nmpMinPly, stop, iteration, rootMoves>>

\* Step 10: the null move; a cutoff is verified at the same ply when deep, with
\* null moves forbidden until nmpMinPly, and never claims a win.
NullMove ==
  /\ At({"nonpv"}, "prune") /\ f.cut /\ f.excluded = 0 /\ Trick
  /\ game.npm[here] /\ game.null[here] # 0 /\ ply >= nmpMinPly /\ ~IsLoss(f.beta)
  /\ path' = Append(path, NullStep)
  /\ Call([f EXCEPT !.pc = "null"], Frame("nonpv", ply + 1, -f.beta, 1 - f.beta, f.depth - NullReduction, FALSE))
  /\ Continue
  /\ UNCHANGED <<game, ss, tt, nmpMinPly, stop, iteration, rootMoves>>

NullReturns ==
  /\ At({"nonpv"}, "null")
  /\ path' = SubSeq(path, 1, Len(path) - 1)
  /\ LET v    == -ret.value
         good == v >= f.beta /\ ~IsWin(v)
         done == [f EXCEPT !.value = v, !.pc = "cutoff"]
     IN IF good /\ nmpMinPly = 0 /\ f.depth >= From.verify
        THEN /\ nmpMinPly' = f.ply + Quot(3 * (f.depth - NullReduction), 4)
             /\ Call([done EXCEPT !.pc = "verify"],
                     Frame("nonpv", f.ply, f.beta - 1, f.beta, f.depth - NullReduction, FALSE))
        ELSE /\ Become(IF good THEN done ELSE [f EXCEPT !.pc = "reduce"])
             /\ UNCHANGED nmpMinPly
  /\ Continue
  /\ UNCHANGED <<game, ss, tt, stop, iteration, rootMoves, tricks>>

\* Slip: null moves stay forbidden after a verified cutoff.
VerifiedKeeps ==
  /\ At({"nonpv"}, "verify")
  /\ IF ret.value >= f.beta THEN Return(f.value) /\ UNCHANGED nmpMinPly
     ELSE nmpMinPly' = 0 /\ Become([f EXCEPT !.pc = "reduce"]) /\ Continue
  /\ UNCHANGED <<game, path, ss, tt, stop, iteration, rootMoves, tricks>>

Verified ==
  /\ At({"nonpv"}, "verify")
  /\ nmpMinPly' = 0
  /\ IF ret.value >= f.beta THEN Return(f.value) ELSE Become([f EXCEPT !.pc = "reduce"]) /\ Continue
  /\ UNCHANGED <<game, path, ss, tt, stop, iteration, rootMoves, tricks>>

EarlyCut ==
  /\ At(Main, "cutoff")
  /\ Return(f.value)
  /\ UNCHANGED <<game, path, ss, tt, nmpMinPly, stop, iteration, rootMoves, tricks>>

\* Steps 11 and 12: a node without a hash move is reduced, and a capture that beats
\* beta by a margin, in quiescence and then shallower, cuts.
ProbBeta  == f.beta + Margin
ProbDepth == f.depth - 3
MayProb   == f.depth >= 3 /\ ~Decisive(f.beta) /\ (f.tt.value # NONE => f.tt.value >= ProbBeta)

SkipPruning ==
  /\ At(Main, "prune")
  /\ Become([f EXCEPT !.pc = "reduce"]) /\ Continue
  /\ UNCHANGED <<game, path, ss, tt, nmpMinPly, stop, iteration, rootMoves, tricks>>

Reduce ==
  /\ At(Main, "reduce")
  /\ LET unhashed == ~AllNode /\ f.depth >= From.reduce /\ f.tt.move = 0
     IN \E onPv \in BOOLEAN :       \* follow_pv: still on the last iteration's line
          /\ IF onPv THEN unhashed /\ Trick ELSE NoTrick
          /\ Become([f EXCEPT !.pc = "prob", !.depth = IF unhashed /\ ~onPv THEN @ - 1 ELSE @])
  /\ Continue
  /\ UNCHANGED <<game, path, ss, tt, nmpMinPly, stop, iteration, rootMoves>>

ProbCut ==
  /\ At(Main, "prob") /\ MayProb /\ Trick
  /\ \E m \in DOMAIN Moves \ (f.done \cup {f.excluded}) :
       /\ Moves[m].cap
       /\ path' = Append(path, Step(m))
       /\ Call([f EXCEPT !.pc = "probq", !.move = m, !.done = @ \cup {m}],
               Frame("q", ply + 1, -ProbBeta, 1 - ProbBeta, 0, FALSE))
  /\ Continue
  /\ UNCHANGED <<game, ss, tt, nmpMinPly, stop, iteration, rootMoves>>

ProbSearches ==
  /\ At(Main, "probq") /\ -ret.value >= ProbBeta /\ ProbDepth > 0
  /\ Call([f EXCEPT !.pc = "probs"], Frame("nonpv", ply, -ProbBeta, 1 - ProbBeta, ProbDepth, ~f.cut))
  /\ Continue
  /\ UNCHANGED <<game, path, ss, tt, nmpMinPly, stop, iteration, rootMoves, tricks>>

ProbSettles ==
  /\ \/ At(Main, "probq") /\ (-ret.value < ProbBeta \/ ProbDepth <= 0)
     \/ At(Main, "probs")
  /\ path' = SubSeq(path, 1, Len(path) - 1)
  /\ LET v    == -ret.value
         at   == path[Len(path) - 1].pos
         next == [f EXCEPT !.pc = "prob", !.value = v]
     IN IF v < ProbBeta THEN Become(next) /\ UNCHANGED tt
        ELSE /\ SaveTo(at, ValueToTT(v, f.ply), {"LOWER"}, ProbDepth + 1, f.move, ss[f.ply].ttPv)
             /\ Become(IF Decisive(v) THEN next ELSE [next EXCEPT !.pc = "cutoff", !.value = v - Margin])
  /\ Continue
  /\ UNCHANGED <<game, ss, nmpMinPly, stop, iteration, rootMoves, tricks>>

\* Step 13, in check too: a deep enough entry already beats beta by more.
DeepBeta == f.beta + 2 * Margin
DeepCuts == /\ "LOWER" \in f.tt.bound /\ f.tt.depth >= f.depth - 4 /\ f.tt.value >= DeepBeta
            /\ ~Decisive(f.beta) /\ f.tt.value # NONE /\ ~Decisive(f.tt.value)
EnterLoop ==
  /\ At(Main, "prob") \/ At(Main, "deep")
  /\ IF DeepCuts THEN Return(DeepBeta)
     ELSE Become([f EXCEPT !.pc = "loop", !.done = {}, !.value = f.best]) /\ Continue
  /\ UNCHANGED <<game, path, ss, tt, nmpMinPly, stop, iteration, rootMoves, tricks>>

\* Step 14: the hash move, then the rest; once the quiets are given up, captures.
Untried(moves) == moves \ f.done
NextMove(moves) == IF f.tt.move \in Untried(moves) THEN f.tt.move ELSE Min(Untried(moves))
Offered == {m \in DOMAIN Moves : f.skipQuiets /\ ~InCheck => Moves[m].cap \/ m = f.tt.move}

SkipExcluded ==
  /\ At(Main, "loop") /\ Untried(Offered) # {} /\ NextMove(Offered) = f.excluded
  /\ Become([f EXCEPT !.done = @ \cup {f.excluded}])
  /\ Continue
  /\ UNCHANGED <<game, path, ss, tt, nmpMinPly, stop, iteration, rootMoves, tricks>>

PickMove ==
  /\ At(Main, "loop") /\ Untried(Offered) # {} /\ NextMove(Offered) # f.excluded
  /\ LET m == NextMove(Offered)
     IN Become([f EXCEPT !.pc = "picked", !.move = m, !.done = @ \cup {m}, !.count = @ + 1,
                         !.extension = 0, !.newDepth = f.depth - 1])
  /\ ss' = IF IsPv THEN [ss EXCEPT ![ply + 1].pv = 0] ELSE ss
  /\ Continue
  /\ UNCHANGED <<game, path, tt, nmpMinPly, stop, iteration, rootMoves, tricks>>

\* Step 15: once some move is known not to lose, others may be skipped; a quiet's
\* futility value may stand in for the best.
\* Slip: a move may be skipped though all before it lose.
MaySkipLosing == f.kind # "root" /\ game.npm[here]

MaySkip == f.kind # "root" /\ game.npm[here] /\ ~IsLoss(f.best)

Standing(v) == IF f.best <= v /\ ~Decisive(f.best) /\ ~IsWin(v) THEN v ELSE f.best
SkipMove ==
  /\ At(Main, "picked") /\ MaySkip /\ Trick
  /\ Become([f EXCEPT !.pc = "loop",
                      !.best = IF Moves[f.move].cap \/ InCheck THEN @ ELSE Standing(f.alpha)])
  /\ Continue
  /\ UNCHANGED <<game, path, ss, tt, nmpMinPly, stop, iteration, rootMoves>>
GiveUpQuiets ==
  /\ At(Main, "picked") /\ MaySkip /\ ~f.skipQuiets /\ Trick
  /\ Become([f EXCEPT !.skipQuiets = TRUE])
  /\ Continue
  /\ UNCHANGED <<game, path, ss, tt, nmpMinPly, stop, iteration, rootMoves>>

\* Step 16: is the hash move the only good one?  The same node without it.
SingularBeta == f.tt.value - Margin
IsSingularTest ==
  /\ f.kind # "root" /\ f.move = f.tt.move /\ f.excluded = 0 /\ f.extension = 0
  /\ f.depth >= From.singular + (IF ss[ply].ttPv THEN 1 ELSE 0)
  /\ f.tt.value # NONE /\ ~Decisive(f.tt.value) /\ "LOWER" \in f.tt.bound /\ f.tt.depth >= f.depth - 3
Singular ==
  /\ At(Main, "picked") /\ IsSingularTest
  /\ ss' = [ss EXCEPT ![ply].excluded = f.move]
  /\ Call([f EXCEPT !.pc = "singular"],
          Frame("nonpv", ply, SingularBeta - 1, SingularBeta, f.newDepth \div 2, f.cut))
  /\ Continue
  /\ UNCHANGED <<game, path, tt, nmpMinPly, stop, iteration, rootMoves, tricks>>

SingularReturns ==
  /\ At(Main, "singular")
  /\ ss' = [ss EXCEPT ![ply].excluded = 0]
  /\ LET v    == ret.value
         next == [f EXCEPT !.pc = "extended", !.value = v]
     IN IF v >= SingularBeta /\ v >= f.beta /\ ~Decisive(v) THEN Return(v)
        ELSE /\ Continue
             /\ Become(IF v < SingularBeta
                       THEN [next EXCEPT !.depth = @ + 1,
                                         !.extension = 1 + (IF v < SingularBeta - Margin THEN 1 ELSE 0)]
                       ELSE IF f.tt.value >= f.beta \/ f.cut THEN [next EXCEPT !.extension = -3] ELSE next)
  /\ UNCHANGED <<game, path, tt, nmpMinPly, stop, iteration, rootMoves, tricks>>

\* Steps 17 to 19: make the move, and search it with a closed window: late moves
\* shallower, or a little deeper while the ply is small.
MakeMove ==
  /\ \/ At(Main, "picked") /\ ~IsSingularTest
     \/ At(Main, "extended")
  /\ path' = Append(path, Step(f.move))
  /\ LET newDepth == f.newDepth + f.extension
         late     == f.depth >= 2 /\ f.count > 1
         g        == [f EXCEPT !.newDepth = newDepth]
         child(d, cut) == Frame("nonpv", ply + 1, -(f.alpha + 1), -f.alpha, d, cut)
         cap      == IF ply < 2 * iteration THEN 2 ELSE 0
         reached(k) == (IF newDepth + k > 1 THEN newDepth + k ELSE 1) + (IF IsPv THEN 1 ELSE 0)
     IN IF late
        THEN \E k \in {-2, -1, cap} :
               /\ IF k = -1 THEN NoTrick ELSE Trick
               /\ ss' = [ss EXCEPT ![ply].reduction = newDepth - reached(k)]
               /\ Call([g EXCEPT !.pc = "late", !.reached = reached(k)], child(reached(k), TRUE))
        ELSE /\ UNCHANGED ss
             /\ IF ~IsPv \/ f.count > 1
                THEN \E r \in 0..2 : /\ IF r = 0 THEN NoTrick ELSE Trick
                                     /\ Call([g EXCEPT !.pc = "zero"], child(newDepth - r, ~f.cut))
                ELSE Become([g EXCEPT !.pc = "open"]) /\ NoTrick
  /\ Continue
  /\ UNCHANGED <<game, tt, nmpMinPly, stop, iteration, rootMoves>>

LateReturns ==
  /\ At(Main, "late")
  /\ LET v  == -ret.value
         d  == f.reached
         nd == IF v <= f.alpha THEN f.newDepth
               ELSE f.newDepth + (IF d < f.newDepth /\ v > f.best + Margin THEN 1 ELSE 0)
                               - (IF v < f.best + 1 THEN 1 ELSE 0)
         g  == [f EXCEPT !.value = v, !.newDepth = nd]
     IN IF v > f.alpha /\ nd > d
        THEN Call([g EXCEPT !.pc = "zero"], Frame("nonpv", ply, -(f.alpha + 1), -f.alpha, nd, ~f.cut))
        ELSE Become([g EXCEPT !.pc = "open"])
  /\ ss' = [ss EXCEPT ![f.ply].reduction = 0]
  /\ Continue
  /\ UNCHANGED <<game, path, tt, nmpMinPly, stop, iteration, rootMoves, tricks>>

ZeroReturns ==
  /\ At(Main, "zero")
  /\ Become([f EXCEPT !.pc = "open", !.value = -ret.value])
  /\ Continue
  /\ UNCHANGED <<game, path, ss, tt, nmpMinPly, stop, iteration, rootMoves, tricks>>

\* Step 20: the full window, for a PV node's first move and for one that beats alpha.
HashDeserves == /\ f.move = f.tt.move
                /\ \/ f.tt.value # NONE /\ Decisive(f.tt.value) /\ f.tt.depth > 0
                   \/ f.tt.depth > 1
\* Slip: pv_clear forgotten.
PvKept(g)  == g

PvClear(g) == [g EXCEPT !.pv = <<>>]

OpenWindow ==
  /\ At(Main, "open")
  /\ IF IsPv /\ (f.count = 1 \/ f.value > f.alpha)
     THEN /\ ss' = [ss EXCEPT ![f.ply + 1].pv = n]
          /\ Call(PvClear([f EXCEPT !.pc = "full"]),
                  Frame("pv", ply, -f.beta, -f.alpha,
                        IF HashDeserves /\ f.newDepth < 1 THEN 1 ELSE f.newDepth, FALSE))
     ELSE Become([f EXCEPT !.pc = "undo"]) /\ UNCHANGED ss
  /\ Continue
  /\ UNCHANGED <<game, path, tt, nmpMinPly, stop, iteration, rootMoves, tricks>>
FullReturns ==
  /\ At(Main, "full")
  /\ Become([f EXCEPT !.pc = "undo", !.value = -ret.value])
  /\ Continue
  /\ UNCHANGED <<game, path, ss, tt, nmpMinPly, stop, iteration, rootMoves, tricks>>

\* Steps 21 and 22: take the move back; a stopped search records nothing of it.
RootUpdate(m, v) ==
  IF f.count = 1 \/ v > f.alpha
  THEN [rootMoves EXCEPT ![m] = [score |-> v, line |-> <<m>> \o ChildLine(stack)]]
  ELSE [rootMoves EXCEPT ![m].score = -VALUE_INFINITE]

Undo ==
  /\ At(Main, "undo") /\ ~stop
  /\ path' = SubSeq(path, 1, Len(path) - 1)
  /\ LET v == f.value
         m == f.move
         g(inc) ==
           IF v + inc <= f.best THEN [f EXCEPT !.pc = "loop"]
           ELSE IF v + inc <= f.alpha THEN [f EXCEPT !.pc = "loop", !.best = v]
           ELSE IF v >= f.beta THEN [f EXCEPT !.pc = "finish", !.best = v, !.bestMove = m]
           ELSE [f EXCEPT !.pc = "loop", !.best = v, !.bestMove = m, !.alpha = v,
                          !.depth = IF @ > 3 /\ @ < 12 /\ ~Decisive(v) THEN @ - 3 ELSE @]
     IN /\ rootMoves' = IF f.kind = "root" THEN RootUpdate(m, v) ELSE rootMoves
        /\ \E inc \in {0, 1} :
             /\ inc = 1 => /\ v = f.best /\ f.ply + 2 >= iteration
                           /\ ~IsWin((IF v < 0 THEN -v ELSE v) + 1)
             /\ IF inc = 1 THEN Trick ELSE NoTrick
             /\ stack' = IF f.kind = "pv" /\ v + inc > f.best /\ v + inc > f.alpha
                         THEN WithLine([stack EXCEPT ![n] = g(inc)], ss[f.ply].pv, <<m>> \o ChildLine(stack))
                         ELSE [stack EXCEPT ![n] = g(inc)]
  /\ Continue
  /\ UNCHANGED <<game, ss, tt, nmpMinPly, stop, iteration>>

UndoStopped ==
  /\ At(Main, "undo") /\ stop
  /\ path' = SubSeq(path, 1, Len(path) - 1)
  /\ Become([f EXCEPT !.pc = "cutoff", !.value = DRAW])
  /\ Continue
  /\ UNCHANGED <<game, ss, tt, nmpMinPly, stop, iteration, rootMoves, tricks>>

\* Steps 23 and 24.
Softened == IF f.best >= f.beta /\ ~Decisive(f.best) /\ ~Decisive(f.alpha)
            THEN Quot(f.best * f.depth + f.beta, f.depth + 1) ELSE f.best
Verdict  == CASE f.count > 0 -> Softened
              [] f.count = 0 /\ f.excluded # 0 -> f.alpha
              [] f.count = 0 /\ f.excluded = 0 /\ InCheck -> MatedIn(ply)
              [] OTHER -> DRAW
Finish ==
  /\ At(Main, "finish") \/ (At(Main, "loop") /\ Untried(Offered) = {})
  /\ LET v    == IF IsPv /\ f.max < Verdict THEN f.max ELSE Verdict
         ttPv == ss[ply].ttPv \/ (v <= f.alpha /\ ply > 0 /\ ss[ply - 1].ttPv)
     IN /\ Return(v)
        /\ IF f.excluded # 0 THEN UNCHANGED tt
           ELSE Save(v, IF v >= f.beta THEN {"LOWER"}
                        ELSE IF IsPv /\ f.bestMove # 0 THEN {"LOWER", "UPPER"} ELSE {"UPPER"},
                     IF f.count # 0 THEN f.depth ELSE f.depth + 6, f.bestMove, ttPv)
        /\ ss' = [ss EXCEPT ![ply].ttPv = ttPv]
  /\ UNCHANGED <<game, path, nmpMinPly, stop, iteration, rootMoves, tricks>>

-----------------------------------------------------------------------------
\* qsearch_node: the table answers off the PV; out of check the better of the
\* evaluation and an indecisive entry may stand, and raises alpha.
QProbe ==
  /\ At(Quiesce, "opened") /\ ~Bails
  /\ LET e      == Hashed(tt[here])
         answer == ~IsPv /\ e.value # NONE /\ e.depth >= DEPTH_QS /\ Covers(e, e.value >= f.beta)
         static == IF InCheck THEN -VALUE_INFINITE ELSE game.eval[here]
         stand  == IF /\ ~InCheck /\ e.value # NONE /\ ~Decisive(e.value) /\ Covers(e, e.value > static)
                   THEN e.value ELSE static
     IN CASE answer -> Return(e.value) /\ UNCHANGED tt
          [] ~answer /\ ~InCheck /\ stand >= f.beta ->
               /\ Return(Blend(stand, f.beta))
               /\ IF e.found THEN UNCHANGED tt
                  ELSE SaveTo(here, NONE, {"LOWER"}, DEPTH_UNSEARCHED, 0, FALSE)
          [] OTHER ->
               /\ Become([f EXCEPT !.pc = "loop", !.tt = e, !.static = static, !.best = stand, !.alpha = IF stand > @ THEN stand ELSE @])
               /\ Continue /\ UNCHANGED tt
  /\ UNCHANGED <<game, path, ss, nmpMinPly, stop, iteration, rootMoves, tricks>>

\* Captures, or every evasion; a quiet is passed over once some move is known not to
\* lose, and so may a capture be, whose futility value may stand in for the best.
QOffered == {m \in DOMAIN Moves : InCheck \/ Moves[m].cap \/ m = f.tt.move}
FutilityValues == LET base == f.static + Margin
                  IN {base + CaptureWorth, IF f.alpha < base THEN f.alpha ELSE base}
QSkip ==
  /\ At(Quiesce, "loop") /\ Untried(QOffered) # {} /\ ~IsLoss(f.best)
  /\ LET m    == NextMove(QOffered)
         skip == [f EXCEPT !.done = @ \cup {m}, !.count = @ + 1]
     IN \/ ~Moves[m].cap /\ NoTrick /\ Become(skip)
        \/ /\ Moves[m].cap /\ Trick
           /\ \E v \in {f.best} \cup (IF InCheck THEN {} ELSE {u \in FutilityValues : u > f.best /\ u <= f.alpha}) :
                Become([skip EXCEPT !.best = v])
  /\ Continue
  /\ UNCHANGED <<game, path, ss, tt, nmpMinPly, stop, iteration, rootMoves>>

QMake ==
  /\ At(Quiesce, "loop") /\ Untried(QOffered) # {}
  /\ LET m == NextMove(QOffered)
     IN /\ IsLoss(f.best) \/ Moves[m].cap
        /\ path' = Append(path, Step(m))
        /\ Call([f EXCEPT !.pc = "full", !.move = m, !.done = @ \cup {m}, !.count = @ + 1],
                Frame(f.kind, ply + 1, -f.beta, -f.alpha, 0, FALSE))
  /\ Continue
  /\ UNCHANGED <<game, ss, tt, nmpMinPly, stop, iteration, rootMoves, tricks>>

QReturns ==
  /\ At(Quiesce, "full")
  /\ path' = SubSeq(path, 1, Len(path) - 1)
  /\ LET v == -ret.value
         g == IF v <= f.best THEN [f EXCEPT !.pc = "loop"]
              ELSE IF v <= f.alpha THEN [f EXCEPT !.pc = "loop", !.best = v]
              ELSE IF v < f.beta THEN [f EXCEPT !.pc = "loop", !.best = v, !.bestMove = f.move, !.alpha = v]
              ELSE [f EXCEPT !.pc = "finish", !.best = v, !.bestMove = f.move]
     IN stack' = IF IsPv /\ v > f.best /\ v > f.alpha
                 THEN WithLine([stack EXCEPT ![n] = g], ss[f.ply].pv, <<f.move>> \o ChildLine(stack))
                 ELSE [stack EXCEPT ![n] = g]
  /\ Continue
  /\ UNCHANGED <<game, ss, tt, nmpMinPly, stop, iteration, rootMoves, tricks>>

\* No evasion is mate; a stalemate is looked for only where it is cheap to see.
QFinish ==
  /\ At(Quiesce, "finish") \/ (At(Quiesce, "loop") /\ Untried(QOffered) = {})
  /\ IF f.count = 0 /\ InCheck
     THEN Return(MatedIn(ply)) /\ UNCHANGED tt
     ELSE \E stalemate \in BOOLEAN :
            /\ stalemate => f.count = 0 /\ ~game.npm[here] /\ Node.cap /\ Moves = <<>>
            /\ LET best == IF stalemate THEN DRAW ELSE f.best
                   v    == IF ~Decisive(best) /\ best > f.beta THEN Blend(best, f.beta) ELSE best
               IN /\ Return(v)
                  /\ Save(v, IF v >= f.beta THEN {"LOWER"} ELSE {"UPPER"}, DEPTH_QS, f.bestMove, f.tt.found /\ f.tt.pv)
  /\ UNCHANGED <<game, path, ss, nmpMinPly, stop, iteration, rootMoves, tricks>>

-----------------------------------------------------------------------------
Shortcuts == \/ Dive \/ Open \/ Bail \/ MateDistance \/ Probe \/ Cutoff \/ ProbeTb \/ Razor \/ Razored \/ Futility
             \/ NullMove \/ NullReturns \/ Verified \/ EarlyCut \/ SkipPruning \/ Reduce
             \/ ProbCut \/ ProbSearches \/ ProbSettles
MoveLoop  == \/ EnterLoop \/ SkipExcluded \/ PickMove \/ SkipMove \/ GiveUpQuiets \/ Singular \/ SingularReturns
             \/ MakeMove \/ LateReturns \/ ZeroReturns \/ OpenWindow \/ FullReturns \/ Undo \/ UndoStopped \/ Finish
Quiescence == QProbe \/ QSkip \/ QMake \/ QReturns \/ QFinish
Next == SearchRoot \/ RaiseStop \/ Shortcuts \/ MoveLoop \/ Quiescence
Spec == Init /\ [][Next]_vars

-----------------------------------------------------------------------------
\* What is true of the game: the positions whose mover mates, or is mated, within k
\* plies, and those won or lost by mate or by the tables.
Mated(g) == {p \in DOMAIN g.moves : g.check[p] /\ g.moves[p] = <<>>}
Spread(g, won, lost, fate) ==
  [won  |-> won \cup {p \in DOMAIN g.moves : \E m \in DOMAIN g.moves[p] : g.moves[p][m].to \in fate.lost},
   lost |-> lost \cup {p \in DOMAIN g.moves : /\ g.moves[p] # <<>>
                                              /\ \A m \in DOMAIN g.moves[p] : g.moves[p][m].to \in fate.won}]
Plies(g) == 0..Len(g.moves)
MateFate == [g \in Games |->
  LET fate[k \in Plies(g)] == IF k = 0 THEN [won |-> {}, lost |-> Mated(g)]
                              ELSE Spread(g, {}, Mated(g), fate[k - 1])
  IN fate]
TbFate == [g \in Games |->
  LET won  == {p \in DOMAIN g.moves : g.tb[p] = 2}
      lost == Mated(g) \cup {p \in DOMAIN g.moves : g.tb[p] = -2}
      fate[k \in Plies(g)] == IF k = 0 THEN [won |-> won, lost |-> lost] ELSE Spread(g, won, lost, fate[k - 1])
  IN fate[Len(g.moves)]]

Within(k) == IF k > Len(game.moves) THEN Len(game.moves) ELSE k
WinIsReal(v, pos, at) ==
  IF v >= MATE_IN_MAX_PLY
  THEN VALUE_MATE - v >= at /\ pos \in MateFate[game][Within(VALUE_MATE - v - at)].won
  ELSE IsWin(v) => pos \in TbFate[game].won
LossIsReal(v, pos, at) ==
  IF v <= -MATE_IN_MAX_PLY
  THEN VALUE_MATE + v >= at /\ pos \in MateFate[game][Within(VALUE_MATE + v - at)].lost
  ELSE IsLoss(v) => pos \in TbFate[game].lost

\* Whatever is pruned, reduced, extended, taken from the table or cut short by a
\* stop, a mate or a tablebase win or loss that a node returns, or files, is one the
\* game really has, and the mate comes within the plies its value says.
DecisiveIsReal ==
  /\ ret.value # NONE /\ ret.excluded = 0 =>
       /\ ret.value > ret.window[1] => WinIsReal(ret.value, ret.pos, ret.ply)
       /\ ret.value < ret.window[2] => LossIsReal(ret.value, ret.pos, ret.ply)
  /\ \A p \in DOMAIN tt :
       /\ tt[p].found /\ tt[p].value # NONE
       => /\ "LOWER" \in tt[p].bound => WinIsReal(tt[p].value, p, 0)
          /\ "UPPER" \in tt[p].bound => LossIsReal(tt[p].value, p, 0)

\* The line kept with a root move can be played from the root, to its last move:
\* pv_update copies the local of the frame that searched the move, never a line left
\* there by a sibling or by a frame that is gone.
RECURSIVE Playable(_, _)
Playable(pos, line) ==
  line # <<>> => /\ Head(line) \in DOMAIN game.moves[pos]
                 /\ Playable(game.moves[pos][Head(line)].to, Tail(line))
PvIsALine == \A m \in DOMAIN rootMoves : Playable(game.root, rootMoves[m].line)

\* However a node is left, what it set for the nodes below is put back: null moves
\* are forbidden only during the one verification there can be, a move is excluded
\* only at the ply of a singular test under way, and the position is the node's own.
MadeMove == {"null", "probq", "probs", "late", "zero", "open", "full", "undo"}
Reached(k) == stack[k].ply + (IF stack[k].pc \in MadeMove THEN 1 ELSE 0)
UnwindsClean ==
  LET at(pc) == {k \in DOMAIN stack : stack[k].pc = pc}
  IN /\ Cardinality(at("verify")) <= 1 /\ (nmpMinPly # 0) = (at("verify") # {})
     /\ \A p \in DOMAIN ss : (ss[p].excluded # 0) = (\E k \in at("singular") : stack[k].ply = p)
     /\ ply = IF stack = <<>> THEN 0 ELSE Reached(n)
     /\ \A k \in 1..(n - 1) : stack[k + 1].ply = Reached(k)
=============================================================================
