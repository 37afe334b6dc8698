---------------------------- MODULE MCTbRanking ----------------------------
(* Endgames for TbRanking.  In ring r the stronger side to move at A(i)    *)
(* needs 2i - 1 plies and the weaker at B(i) holds out for 2i; both may    *)
(* lose time -- at either end of a long ring -- and a square x  *)
(* keeps a repetition four plies away.  Ring 1                             *)
(* has four men and ends in a capture that leads into ring 2; ring 2 has   *)
(* three and ends in mate.  At D the stronger side has left a man hanging. *)
(* E and F have an en-passant capture; with it, E is won and F is not yet  *)
(* stalemate.                                                              *)
EXTENDS TbRanking

A(r, i, x) == <<"A", r, i, x>>
B(r, i, x) == <<"B", r, i, x>>
Mate == <<"M">>   Hanging == <<"D">>   Kings == <<"K">>
E == <<"E">>      NoE == <<"E", "twin">>
F == <<"F">>      NoF == <<"F", "twin">>

Quiet(p)   == [to |-> p, kind |-> "quiet"]
Capture(p) == [to |-> p, kind |-> "capture"]
Pawn(p)    == [to |-> p, kind |-> "pawn"]

Rings(n1, n2) ==
    {<<s, 1, i, x>> : s \in {"A", "B"}, i \in 1..n1, x \in 0..1} \union
    {<<s, 2, i, x>> : s \in {"A", "B"}, i \in 1..n2, x \in 0..1}

Ends == {Mate, Hanging, Kings, E, NoE, F, NoF}
Stronger(p) == p[1] \in {"A", "E"}

MovesAt(p, n1, n2) ==
    CASE p = Hanging -> <<Pawn(A(1, 1, 0)), Capture(Kings)>>
      [] p = E       -> <<Quiet(Hanging), Capture(B(2, 1, 0))>>
      [] p = NoE     -> <<Quiet(Hanging)>>
      [] p = F       -> <<Capture(A(2, 1, 0))>>
      [] p \in {Mate, Kings, NoF} -> <<>>
      [] p[1] = "A"  -> (IF p[3] \in 1..3 \union {n2} THEN <<Quiet(B(p[2], p[3], p[4]))>> ELSE <<>>)
                        \o (IF p[2] = 2 /\ p[3] < 3 THEN <<Quiet(B(2, p[3] + 1, p[4]))>> ELSE <<>>)
                        \o (IF p[2] = 1 THEN <<Quiet(Hanging)>> ELSE <<>>)
                        \o (IF p[3] > 1 THEN <<Quiet(B(p[2], p[3] - 1, p[4]))>>
                            ELSE IF p[2] = 1 THEN <<Capture(B(2, n2, p[4]))>> ELSE <<Quiet(Mate)>>)
      [] p[1] = "B"  -> (IF p[3] \in {2, 3, n2} \ {1} THEN <<Quiet(A(p[2], p[3] - 1, 1 - p[4]))>> ELSE <<>>)
                        \o <<Quiet(A(p[2], p[3], 1 - p[4]))>>
                        \o (IF p[2] = 1 THEN <<Pawn(A(2, 1, 0))>> ELSE <<>>)

ValueAt(p, far) == CASE p \in {Hanging, Kings, NoE, NoF} -> 0
                [] p = E -> 1
                [] p \in {F, Mate} -> -1
                [] p[1] = "A" -> (IF p[2] = 1 THEN far ELSE 0) + 2 * p[3] - 1
                [] p[1] = "B" -> -(IF p[2] = 1 THEN far ELSE 0) - 2 * p[3]

Endgame(n1, n2, oneSided, plies, dtm) ==
    LET P == Rings(n1, n2) \union Ends IN
    [moves |-> [p \in P |-> MovesAt(p, n1, n2)],
     check |-> {Mate},
     value |-> [p \in P |-> ValueAt(p, IF n2 > 50 THEN 100 ELSE 0)],
     men   |-> [p \in P |-> IF p = Kings THEN 2 ELSE IF p = Mate \/ (Len(p) = 4 /\ p[2] = 2) THEN 3 ELSE 4],
     twin  |-> [p \in P |-> IF p = E THEN NoE ELSE IF p = F THEN NoF ELSE p],
     otherSide |-> {p \in P : (oneSided = "A" /\ ~Stronger(p)) \/ (oneSided = "B" /\ Stronger(p))},
     plies |-> plies,
     dtm   |-> IF dtm THEN {p \in P : Len(p) = 4 /\ p[2] = 2} ELSE {}]

\* What a start names: two rings of three, over files for either side to move or for both; a
\* ring at the edge of the fifty-move rule and one beyond it; one where DTZ is the way to mate.
MCGames ==
    [strong |-> Endgame(2, 3, "A", {}, FALSE),
     weak   |-> Endgame(2, 3, "B", {}, FALSE),
     both   |-> Endgame(2, 3, "none", {}, FALSE),
     edge   |-> Endgame(1, 50, "B", {3}, FALSE),
     cursed |-> Endgame(1, 51, "A", {3, 4}, FALSE),
     dtm    |-> Endgame(2, 3, "A", {4}, TRUE)]

All     == [wdl |-> {3, 4}, dtz |-> {3, 4}]
WdlOnly == [wdl |-> {3, 4}, dtz |-> {}]
NoDtz3  == [wdl |-> {3, 4}, dtz |-> {4}]
NoWdl3  == [wdl |-> {4}, dtz |-> {4}]
Start(g, files, rule50, pos, clock) ==
    [game |-> g, files |-> files, limit |-> 7, rule50 |-> rule50, budget |-> 1000, pos |-> pos, clock |-> clock,
     given |-> 0]

MCStarts ==
    {Start(g, All, TRUE, A(2, 3, 0), c) : g \in {"strong", "weak", "both"}, c \in {91, 93, 95}}
    \union {Start("weak", All, TRUE, A(2, 2, 0), 84), Start("strong", All, TRUE, A(1, 2, 0), 95),
            Start("weak", All, TRUE, A(1, 2, 0), 96), Start("weak", All, TRUE, B(1, 2, 0), 98)}
    \union {Start("weak", All, rule50, p, 0) : rule50 \in BOOLEAN, p \in {E, F, Hanging}}
    \union {Start("strong", files, rule50, A(1, 2, 0), 94) : files \in {WdlOnly, NoDtz3, NoWdl3}, rule50 \in BOOLEAN}
    \union {Start("dtm", All, TRUE, A(2, 3, 0), c) : c \in {0, 91}}
    \union {Start("edge", All, rule50, A(1, 1, 0), 0) : rule50 \in BOOLEAN}
    \union {Start("cursed", All, TRUE, B(2, 51, 0), 0), Start("cursed", All, FALSE, A(2, 51, 0), 0)}
    \union {[Start("weak", All, TRUE, A(2, 3, 0), 91) EXCEPT !.budget = n] : n \in {0, 4, 9}}
    \union {[Start("weak", All, TRUE, A(1, 2, 0), 90) EXCEPT !.limit = 3]}
    \union {[Start(g, All, TRUE, A(2, 2, 0), 0) EXCEPT !.given = 2] : g \in {"weak", "strong"}}

\* For a root that was reached by other moves than the engine's.
MCHistories == {[Start("both", All, TRUE, A(2, 2, 0), 0) EXCEPT !.given = 10]}

=============================================================================
