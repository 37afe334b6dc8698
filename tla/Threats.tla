------------------------------ MODULE Threats ------------------------------
(* The threat delta of one piece put on, or taken from, one square:           *)
(* src/src/engine/board/threats.c.  A threat is <<pc, s, tpc, ts>>, the piece *)
(* pc on s attacks the piece tpc on ts; a scan yields the set of [add, of]    *)
(* records the code appends to the dirty list.  Only the pairs the threat     *)
(* features encode are recorded.  The scalar order and the AVX-512 one differ *)
(* in the order of the list alone, which nothing reads.                       *)
EXTENDS Attacks

CanSliderThreat(pc, slider) == TypeOf(pc) # QUEEN \/ TypeOf(slider) = QUEEN

\* The squares beyond s, and up to it, on the line of a slider standing on from.
RayPass(from, s) == {t \in Line[from][s] \ {from} : from \notin Between[s][t]}

\* What a type may threaten: the restriction written into threatened / incoming.
TargetTypes(pt) ==
  CASE pt = PAWN             -> {KNIGHT, ROOK}
    [] pt \in {BISHOP, ROOK} -> {PAWN, KNIGHT, BISHOP, ROOK}
    [] OTHER                 -> PieceTypes \ {KING}

\* What a slider on t sees past s once the square is empty, if anything: unless the
\* other square of the move lies there.  `seen` is what a queen on s sees.
Past(p, t, s, seen, noRays) ==
  IF noRays \subseteq RayPass(t, s) THEN {}
  ELSE {u \in (RayPass(t, s) \cap seen) \ p.byType[KING] :
          p.board[u] # NO_PIECE /\ CanSliderThreat(p.board[u], p.board[t])}

\* A king is threatened by nothing and threatens nothing.
Direct(p, pc, put, s, sliders, seen) ==
  LET pt       == TypeOf(pc)
      outgoing == {t \in seen \ p.byType[KING] :
                     p.board[t] # NO_PIECE /\ TypeOf(p.board[t]) \in TargetTypes(pt)}
      pawns    == {t \in p.byType[PAWN] : s \in PawnAttacks[ColorOf(p.board[t])][t]}
      incoming == (PseudoAttacks[KNIGHT][s] \cap p.byType[KNIGHT])
                    \cup (IF pt \in {KNIGHT, ROOK} THEN pawns ELSE {})
                    \cup {t \in sliders : CanSliderThreat(pc, p.board[t])}
  IN IF pt = KING THEN {}
     ELSE {[add |-> put, of |-> <<pc, s, p.board[t], t>>] : t \in outgoing}
            \cup {[add |-> put, of |-> <<p.board[t], t, pc, s>>] : t \in incoming}

\* r and b are what a rook and a bishop on s see.
Scan(rays, p, pc, put, s, noRays, r, b, sliders) ==
  (IF rays THEN UNION {{[add |-> ~put, of |-> <<p.board[t], t, p.board[u], u>>] :
                          u \in Past(p, t, s, r \cup b, noRays)} : t \in sliders}
           ELSE {})
    \cup Direct(p, pc, put, s, sliders,
                CASE TypeOf(pc) = PAWN   -> PawnAttacks[ColorOf(pc)][s]
                  [] TypeOf(pc) = BISHOP -> b
                  [] TypeOf(pc) = ROOK   -> r
                  [] TypeOf(pc) = QUEEN  -> r \cup b
                  [] OTHER               -> PseudoAttacks[TypeOf(pc)][s])

SlidersAmong(p, r, b) == (r \cap (p.byType[ROOK] \cup p.byType[QUEEN]))
                           \cup (b \cap (p.byType[BISHOP] \cup p.byType[QUEEN]))

ScanLines(rays, p, pc, put, s, noRays, r, b) ==
  Scan(rays, p, pc, put, s, noRays, r, b, SlidersAmong(p, r, b))

UpdatePieceThreats(rays, p, pc, put, s, noRays) ==
  ScanLines(rays, p, pc, put, s, noRays,
            Attacks(ROOK, s, p.byType[ALL_PIECES]), Attacks(BISHOP, s, p.byType[ALL_PIECES]))
=============================================================================
