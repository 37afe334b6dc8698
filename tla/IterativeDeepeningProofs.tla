----------------------- MODULE IterativeDeepeningProofs -----------------------
(* The depth loop answers no unproven loss as exact, keeps a mate it found     *)
(* and reports the line it plays: for every position, window, oracle, number   *)
(* of lines and of voting workers, and whenever the stop comes.                *)
EXTENDS IterativeDeepening, FiniteSetTheorems, SequenceTheorems, TLAPS

N      == Cardinality(Moves)
Scores == {NoScore} \cup {v \in Int : -VALUE_MATE <= v /\ v <= VALUE_MATE}
Bounds == {v \in Int : NoScore <= v /\ v <= VALUE_INFINITE}
Record == [move : Moves, score : Scores, uci : Bounds, lower : BOOLEAN, upper : BOOLEAN,
           line : Seq(Int), prev : Scores, prevExact : BOOLEAN, prevLine : Seq(Int)]

\* A line begins with its move, and if it goes on ends in its score, or in the draw the
\* tables found where it claims theirs; a root in a tablebase has lines of the tables.
EndsIn(line, v) ==
  ~go.inTb /\ v # NoScore /\ Len(line) > 1 => line[2] = v \/ (line[2] = 0 /\ FromTables(v))
SoundMove(rm) ==
  /\ Len(rm.line) > 0 /\ rm.line[1] = rm.move
  /\ Len(rm.prevLine) > 0 /\ rm.prevLine[1] = rm.move
  /\ ~(rm.lower /\ rm.upper)
  /\ EndsIn(rm.line, rm.score) /\ EndsIn(rm.prevLine, rm.prev)
  /\ rm.score # NoScore => rm.uci # NoScore /\ (~Inexact(rm) => rm.uci = rm.score)

Lists(list) ==
  /\ list \in [1..N -> Record]
  /\ \A i \in 1..N : SoundMove(list[i])
  /\ \A i, j \in 1..N : list[i].move = list[j].move => i = j
  /\ \A m \in Moves : \E i \in 1..N : list[i].move = m
\* tb_rank never rises along the list.
RankAt(list, i) == go.ranks[list[i].move]
Ranked(list) == \A i, j \in 1..N : i <= j => RankAt(list, i) >= RankAt(list, j)

IsTop(m) == \A k \in Moves : go.ranks[k] <= go.ranks[m]
\* Every move of the best rank loses, for v or worse.
Proven(v)   == \A m \in Moves : IsTop(m) => go.values[m] # 0 /\ go.values[m] <= v
Trusted(v)  == IsLoss(v) => Proven(v)

InLine  == pc \in {"search", "lined", "sorted", "shown"}
Running == InLine \/ pc \in {"line", "iterated"}

Types ==
  /\ go \in Searches /\ depth \in Nat /\ pvIdx \in Nat /\ pvFirst \in Nat /\ pvLast \in Nat
  /\ stop \in BOOLEAN /\ sent \in BOOLEAN
  /\ pc \in {"loop", "line", "search", "lined", "sorted", "shown", "iterated", "answered"}

\* The lines being searched are moves of one tb_rank, and the whole of it.
Segment ==
  pc = "line" \/ InLine =>
    /\ pvFirst <= pvIdx /\ pvIdx <= pvLast /\ pvLast <= N /\ pvIdx < Lines
    /\ pc # "line" => pvIdx < pvLast
    /\ \A i, j \in 1..N : pvFirst < i /\ i <= pvLast /\ pvFirst < j /\ j <= pvLast =>
         RankAt(root, i) = RankAt(root, j)
    /\ pvFirst < pvLast /\ pvLast < N => RankAt(root, pvLast + 1) # RankAt(root, pvLast)

Window ==
  pc = "search" =>
    /\ window.alpha \in Bounds /\ window.beta \in Bounds /\ window.delta \in Int
    /\ window.alpha < window.beta /\ window.delta > 0

\* A position of the node under way whose move has had its turn.
Searched(i) == i \in 1..N /\ pvIdx < i /\ i <= pvLast /\ root[i].move \notin node.left
Node ==
  pc = "search" =>
    /\ node.best \in Bounds /\ node.count \in Nat
    /\ node.alpha = IF node.best > window.alpha THEN node.best ELSE window.alpha
    /\ \A m \in node.left : \E i \in 1..N : pvIdx < i /\ i <= pvLast /\ root[i].move = m
    /\ node.count = 0 /\ node.best < window.beta => node.best = NoScore /\ \A i \in 1..N : ~Searched(i)
    /\ node.count # 0 => node.best # NoScore /\ Searched(pvIdx + 1)
    /\ node.left # {} => node.best < window.beta
    /\ node.best < window.beta =>
         /\ \A i \in 1..N : Searched(i) => root[i].score <= node.best
         /\ node.best > window.alpha =>
              /\ \E i \in 1..N : Searched(i) /\ root[i].score = node.best
              /\ \A i \in 1..N : Searched(i) /\ root[i].score = node.best => ~Inexact(root[i])
         /\ IsLoss(node.best) => \A i \in 1..N : Searched(i) =>
              go.values[root[i].move] # 0 /\ go.values[root[i].move] <= node.best

Completed ==
  /\ ~stop /\ Running => \A i \in 1..N : i <= pvIdx => root[i].score # NoScore /\ ~Inexact(root[i])
  /\ ~stop /\ pc = "lined" => /\ root[pvIdx + 1].score # NoScore /\ ~Inexact(root[pvIdx + 1])
                              /\ pvIdx = 0 => Trusted(root[1].score)
  /\ ~stop /\ pc \in {"sorted", "shown"} =>
       /\ \A i \in 1..N : i <= pvIdx + 1 => root[i].score # NoScore /\ ~Inexact(root[i])
       /\ Trusted(root[1].score)
  /\ ~stop /\ pc = "iterated" => pvIdx > 0
  /\ Running /\ pvIdx > 0 => root[1].score # NoScore /\ Trusted(root[1].score)

Remembered ==
  /\ last.score \in Scores /\ last.line \in Seq(Int)
  /\ last.line = <<>> <=> last.score = NoScore
  /\ last.score # NoScore =>
       /\ last.line[1] \in Moves /\ IsTop(last.line[1]) /\ EndsIn(last.line, last.score)
       /\ Trusted(last.score) /\ root[1].score # NoScore

\* What was reported of the first move, before the tables took the score back if they did.
ShownAs(w, rm) == w.line = rm.line /\ (w.score = Displayed(rm) \/ (w.score = 0 /\ FromTables(Displayed(rm))))
\* The line on the wire is the first of the list until something else becomes that.  It
\* was shown as exact, and is marked only as the loss that the end of the iteration doubts.
Sent ==
  sent =>
    /\ pc \in {"shown", "iterated", "loop"} /\ (pc = "shown" => pvIdx + 1 = Lines)
    /\ 1 \in DOMAIN wire /\ wire[1].bound = "" /\ ShownAs(wire[1], root[1])
    /\ root[1].score # NoScore /\ Trusted(root[1].score)
    /\ Inexact(root[1]) => pc = "loop" /\ IsLoss(root[1].score)
Shown(w) == w.bound = "" /\ w.score # 0 => Unmarked(w)
Wire == \A i \in DOMAIN wire : Shown(wire[i])

Settled ==
  pc = "loop" =>
    /\ FoundMate => ExactDecisive(root[1]) /\ Abs(root[1].score) >= Abs(last.score)
    /\ ExactLoss(root[1]) => Proven(root[1].score)

Live == Lists(root) /\ Ranked(root) /\ Segment /\ Window /\ Node /\ Completed /\ Remembered /\ Sent /\ Settled
Answered ==
  /\ \A i \in DOMAIN root : ~(root[i].lower /\ root[i].upper)
  /\ ~go.skill => /\ ExactLoss(root[1]) => LossIsProven(root[1])
                  /\ root[1].score # NoScore => Played(wire[1], root[1])
IInv == Types /\ Wire /\ (pc # "answered" => Live) /\ (pc = "answered" => Answered)

-----------------------------------------------------------------------------
\* The sort.  Counting how many come before each element of a finite set, under a
\* strict total order, numbers the elements from 0.
Orders(S, R) ==
  /\ \A x \in S : <<x, x>> \notin R
  /\ \A x, y \in S : x # y => <<x, y>> \in R \/ <<y, x>> \in R
  /\ \A x, y, z \in S : <<x, y>> \in R /\ <<y, z>> \in R => <<x, z>> \in R
Earlier(S, R, x) == {y \in S : <<y, x>> \in R}

\* Who comes later has more before it.
LEMMA LaterHasMore ==
  ASSUME NEW S, IsFiniteSet(S), NEW R, Orders(S, R), NEW x \in S, NEW y \in S, <<x, y>> \in R
  PROVE  Cardinality(Earlier(S, R, x)) < Cardinality(Earlier(S, R, y))
<1>1. Earlier(S, R, x) \in SUBSET Earlier(S, R, y)
  BY DEF Orders, Earlier
<1>2. x \in Earlier(S, R, y) /\ x \notin Earlier(S, R, x)
  BY DEF Orders, Earlier
<1>3. Earlier(S, R, y) \in SUBSET S
  BY DEF Earlier
<1>4. IsFiniteSet(Earlier(S, R, y))
  BY <1>3, FS_Subset
<1>5. IsFiniteSet(Earlier(S, R, x))
  BY <1>1, <1>4, FS_Subset
<1>6. Cardinality(Earlier(S, R, x)) \in Nat /\ Cardinality(Earlier(S, R, y)) \in Nat
  BY <1>4, <1>5, FS_CardinalityType
<1>7. Cardinality(Earlier(S, R, x)) <= Cardinality(Earlier(S, R, y))
  BY <1>1, <1>4, FS_Subset
<1>8. Cardinality(Earlier(S, R, x)) # Cardinality(Earlier(S, R, y))
  BY <1>1, <1>2, <1>4, FS_Subset
<1> QED BY <1>6, <1>7, <1>8

\* The count is one to one, from 0 to one less than there are elements.
LEMMA CountingNumbers ==
  ASSUME NEW S, IsFiniteSet(S), NEW R, Orders(S, R)
  PROVE  /\ \A x \in S : Cardinality(Earlier(S, R, x)) \in 0..(Cardinality(S) - 1)
         /\ \A x, y \in S : Cardinality(Earlier(S, R, x)) = Cardinality(Earlier(S, R, y)) => x = y
         /\ \A k \in 0..(Cardinality(S) - 1) : \E x \in S : Cardinality(Earlier(S, R, x)) = k
<1> DEFINE T == 0..(Cardinality(S) - 1)
           count == [x \in S |-> Cardinality(Earlier(S, R, x))]
<1>0. Cardinality(S) \in Nat
  BY FS_CardinalityType
<1>1. ASSUME NEW x \in S PROVE Cardinality(Earlier(S, R, x)) \in T
  <2>1. Earlier(S, R, x) \in SUBSET (S \ {x})
    BY DEF Earlier, Orders
  <2>2. IsFiniteSet(S \ {x}) /\ Cardinality(S \ {x}) = Cardinality(S) - 1
    BY FS_RemoveElement
  <2>3. IsFiniteSet(Earlier(S, R, x)) /\ Cardinality(Earlier(S, R, x)) <= Cardinality(S \ {x})
    BY <2>1, <2>2, FS_Subset
  <2>4. Cardinality(Earlier(S, R, x)) \in Nat
    BY <2>3, FS_CardinalityType
  <2> QED BY <2>2, <2>3, <2>4, <1>0
<1>2. ASSUME NEW x \in S, NEW y \in S, Cardinality(Earlier(S, R, x)) = Cardinality(Earlier(S, R, y)) PROVE x = y
  <2> SUFFICES ASSUME x # y PROVE FALSE
    OBVIOUS
  <2>0. Cardinality(Earlier(S, R, x)) \in Nat /\ Cardinality(Earlier(S, R, y)) \in Nat
    BY <1>0, <1>1
  <2>1. CASE <<x, y>> \in R
    BY <2>0, <2>1, <1>2, LaterHasMore
  <2>2. CASE <<y, x>> \in R
    BY <2>0, <2>2, <1>2, LaterHasMore
  <2> QED BY <2>1, <2>2 DEF Orders
<1>3. count \in Injection(S, T)
  <2> HIDE DEF T
  <2>1. count \in [S -> T]
    BY <1>1
  <2>2. \A x, y \in S : count[x] = count[y] => x = y
    BY <1>2
  <2> QED BY <2>1, <2>2 DEF Injection, IsInjective
<1>4. IsFiniteSet(T) /\ Cardinality(T) = Cardinality(S)
  <2>1. 0 \in Int /\ Cardinality(S) - 1 \in Int /\ 0 <= (Cardinality(S) - 1) + 1
        /\ (Cardinality(S) - 1) - 0 + 1 = Cardinality(S)
    BY <1>0
  <2> QED BY ONLY <2>1, FS_Interval, SMTT(30)
<1>5. count \in Surjection(S, T)
  BY <1>3, <1>4, FS_Injection
<1>6. \A k \in T : \E x \in S : count[x] = k
  BY <1>5 DEF Surjection
<1> QED BY <1>1, <1>2, <1>6

\* A rearrangement of the positions that leaves those outside lo to hi alone.
Rearrangements(n, lo, hi) ==
  {p \in [1..n -> 1..n] :
     /\ \A i, j \in 1..n : p[i] = p[j] => i = j
     /\ \A j \in 1..n : \E i \in 1..n : p[i] = j
     /\ \A i \in 1..n : i < lo \/ hi < i => p[i] = i
     /\ \A i \in 1..n : lo <= i /\ i <= hi => lo <= p[i] /\ p[i] <= hi}
\* What root_less, or else the place, puts before what.
Precedes(list, i, j) == RootLess(list[i], list[j]) \/ (i < j /\ ~RootLess(list[j], list[i]))
Precedence(list, lo, hi) == {r \in (lo..hi) \X (lo..hi) : Precedes(list, r[1], r[2])}

LEMMA PrecedenceOrders ==
  ASSUME NEW n \in Nat, NEW list, NEW lo \in 1..n, NEW hi \in lo..n,
         \A i \in 1..n : list[i].score \in Int /\ list[i].prev \in Int
  PROVE  Orders(lo..hi, Precedence(list, lo, hi))
<1>0. \A i \in lo..hi : i \in Int /\ list[i].score \in Int /\ list[i].prev \in Int
  OBVIOUS
<1>1. \A x, y \in lo..hi : <<x, y>> \in Precedence(list, lo, hi) <=> Precedes(list, x, y)
  BY DEF Precedence
<1>2. \A x \in lo..hi : ~Precedes(list, x, x)
  BY <1>0 DEF Precedes, RootLess
<1>3. ASSUME NEW x \in lo..hi, NEW y \in lo..hi, x # y PROVE Precedes(list, x, y) \/ Precedes(list, y, x)
  BY <1>0, <1>3 DEF Precedes, RootLess
<1>4. ASSUME NEW x \in lo..hi, NEW y \in lo..hi, NEW z \in lo..hi, Precedes(list, x, y), Precedes(list, y, z)
      PROVE  Precedes(list, x, z)
  BY <1>0, <1>4 DEF Precedes, RootLess
<1> HIDE DEF Precedes
<1> QED BY <1>1, <1>2, <1>3, <1>4 DEF Orders

\* stable_sort_root rearranges the positions it is given, the best score first.
SortedBy(list, n, lo, hi, p) ==
  /\ StableSort(list, lo, hi) = [k \in 1..n |-> list[p[k]]]
  /\ \A i, j \in lo..hi : i < j => list[p[i]].score >= list[p[j]].score
LEMMA SortRearranges ==
  ASSUME NEW n \in Nat, NEW list, DOMAIN list = 1..n, NEW lo \in 1..n, NEW hi \in lo..n,
         \A i \in 1..n : list[i].score \in Int /\ list[i].prev \in Int
  PROVE  \E p \in Rearrangements(n, lo, hi) : SortedBy(list, n, lo, hi, p)
<1> DEFINE S == lo..hi
           R == Precedence(list, lo, hi)
           place(i) == lo + Cardinality(Earlier(S, R, i))
           p == [k \in 1..n |-> IF k \in S THEN CHOOSE i \in S : place(i) = k ELSE k]
<1>a. lo \in Int /\ hi \in Int /\ lo <= hi /\ S \subseteq 1..n
  OBVIOUS
<1>b. IsFiniteSet(S) /\ Cardinality(S) = hi - lo + 1
  BY <1>a, FS_Interval
<1>0. IsFiniteSet(S) /\ Cardinality(S) = hi - lo + 1 /\ S \subseteq 1..n
  BY <1>a, <1>b
<1>1. Orders(S, R)
  BY PrecedenceOrders
<1>2. /\ \A x \in S : Cardinality(Earlier(S, R, x)) \in 0..(hi - lo)
      /\ \A x, y \in S : Cardinality(Earlier(S, R, x)) = Cardinality(Earlier(S, R, y)) => x = y
      /\ \A k \in 0..(hi - lo) : \E x \in S : Cardinality(Earlier(S, R, x)) = k
  <2>1. hi - lo = Cardinality(S) - 1
    BY <1>a, <1>b
  <2> HIDE DEF S, R
  <2>2. /\ \A x \in S : Cardinality(Earlier(S, R, x)) \in 0..(Cardinality(S) - 1)
        /\ \A x, y \in S : Cardinality(Earlier(S, R, x)) = Cardinality(Earlier(S, R, y)) => x = y
        /\ \A k \in 0..(Cardinality(S) - 1) : \E x \in S : Cardinality(Earlier(S, R, x)) = k
    <3>1. IsFiniteSet(S) /\ Orders(S, R)
      BY <1>0, <1>1
    <3> QED BY ONLY <3>1, CountingNumbers
  <2> QED BY <2>1, <2>2, Zenon
<1>3. /\ \A x \in S : place(x) \in S
      /\ \A x, y \in S : place(x) = place(y) => x = y
  <2>0. \A c, d \in 0..(hi - lo) : lo + c \in lo..hi /\ (lo + c = lo + d => c = d)
    BY ONLY <1>a
  <2>1. ASSUME NEW x \in S PROVE place(x) \in S
    <3>1. Cardinality(Earlier(S, R, x)) \in 0..(hi - lo)
      BY <1>2, Zenon
    <3> QED BY <2>0, <3>1, Zenon
  <2>2. ASSUME NEW x \in S, NEW y \in S, place(x) = place(y) PROVE x = y
    <3>1. Cardinality(Earlier(S, R, x)) \in 0..(hi - lo) /\ Cardinality(Earlier(S, R, y)) \in 0..(hi - lo)
      BY <1>2, Zenon
    <3>2. Cardinality(Earlier(S, R, x)) = Cardinality(Earlier(S, R, y))
      BY <2>0, <2>2, <3>1, Zenon
    <3> QED BY <1>2, <3>2, Zenon
  <2> QED BY <2>1, <2>2
<1>4. ASSUME NEW k \in S PROVE \E x \in S : place(x) = k
  <2>1. k \in Int /\ lo \in Int /\ hi \in Int /\ lo <= k /\ k <= hi
    BY <1>4
  <2>3. k - lo \in 0..(hi - lo)
    BY ONLY <2>1
  <2>2. PICK x \in S : Cardinality(Earlier(S, R, x)) = k - lo
    BY <1>2, <2>3, Zenon
  <2> HIDE DEF S, R
  <2> QED BY <2>1, <2>2
<1>5. \A x, y \in S : <<x, y>> \in R => place(x) < place(y)
  <2> TAKE x, y \in S
  <2> HAVE <<x, y>> \in R
  <2>1. Cardinality(Earlier(S, R, x)) < Cardinality(Earlier(S, R, y))
    BY <1>0, <1>1, LaterHasMore
  <2>2. Cardinality(Earlier(S, R, x)) \in 0..(hi - lo) /\ Cardinality(Earlier(S, R, y)) \in 0..(hi - lo)
    BY <1>2, Zenon
  <2> HIDE DEF S, R
  <2> QED BY <2>1, <2>2, <1>a
<1>6. \A i \in S : {j \in S : j # i /\ Precedes(list, j, i)} = Earlier(S, R, i)
  <2> TAKE i \in S
  <2>1. <<i, i>> \notin R
    BY <1>1 DEF Orders
  <2>2. \A j \in S : <<j, i>> \in R <=> Precedes(list, j, i)
    BY DEF Precedence
  <2> QED BY <2>1, <2>2 DEF Earlier
<1>7. StableSort(list, lo, hi) =
        [k \in 1..n |-> IF k \in S THEN list[CHOOSE i \in S : lo + Cardinality({j \in S : j # i /\ Precedes(list, j, i)}) = k]
                        ELSE list[k]]
  BY DEF StableSort, Precedes
<1> HIDE DEF R
<1>8. \A k \in S : (CHOOSE i \in S : lo + Cardinality({j \in S : j # i /\ Precedes(list, j, i)}) = k)
                     = CHOOSE i \in S : place(i) = k
  BY <1>6, Zenon
<1> HIDE DEF place, S
<1>9. \A k \in S : p[k] \in S /\ place(p[k]) = k
  BY <1>0, <1>4, Zenon
<1>10. \A k \in 1..n : k \notin S => p[k] = k
  OBVIOUS
<1>11. StableSort(list, lo, hi) = [k \in 1..n |-> list[p[k]]]
  BY <1>7, <1>8
<1> HIDE DEF p
<1>12. p \in [1..n -> 1..n]
  BY <1>0, <1>9, <1>10 DEF p
<1>13. \A i, j \in 1..n : p[i] = p[j] => i = j
  BY <1>9, <1>10, <1>0
<1>14. \A j \in 1..n : \E i \in 1..n : p[i] = j
  <2> TAKE j \in 1..n
  <2>1. CASE j \in S
    <3>1. place(j) \in S
      BY <2>1, <1>3
    <3>2. p[place(j)] = j
      BY <3>1, <1>9, <1>3, <2>1
    <3> QED BY <3>1, <3>2, <1>0
  <2>2. CASE j \notin S
    BY <2>2, <1>10
  <2> QED BY <2>1, <2>2
<1>15. p \in Rearrangements(n, lo, hi)
  BY <1>9, <1>10, <1>12, <1>13, <1>14 DEF Rearrangements, S
<1>16. ASSUME NEW i \in S, NEW j \in S, i < j PROVE list[p[i]].score >= list[p[j]].score
  <2>0. i \in Int /\ j \in Int
    BY DEF S
  <2>1. p[i] \in S /\ p[j] \in S /\ place(p[i]) = i /\ place(p[j]) = j
    BY <1>9
  <2>2. p[i] # p[j] /\ <<p[j], p[i]>> \notin R
    <3>1. ~(j < i) /\ i # j
      BY <2>0, <1>16
    <3> QED BY <3>1, <2>1, <1>5, Zenon
  <2>3. <<p[i], p[j]>> \in R
    BY <2>1, <2>2, <1>1 DEF Orders
  <2>4. Precedes(list, p[i], p[j])
    BY <2>3 DEF R, Precedence
  <2>5. list[p[i]].score \in Int /\ list[p[j]].score \in Int
    BY <2>1, <1>0
  <2> QED BY <2>4, <2>5 DEF Precedes, RootLess
<1>17. SortedBy(list, n, lo, hi, p)
  BY <1>11, <1>16 DEF S, SortedBy
<1> QED BY <1>15, <1>17

-----------------------------------------------------------------------------
\* What the assumptions say of the constants and of a search.
LEMMA Constants ==
  /\ MAX_PLY \in Nat /\ VALUE_MATE \in Nat /\ VALUE_INFINITE \in Nat /\ Delta \in Nat /\ Delta >= 3
  /\ 2 * MAX_PLY + 1 < VALUE_MATE /\ VALUE_MATE < VALUE_INFINITE
  /\ \A v \in Averages : v \in Int /\ -VALUE_INFINITE <= v /\ v <= VALUE_INFINITE
BY DeepeningAssumption DEF DeepeningAssumption

LEMMA GuessesAreScores == \A v \in Guesses : v \in Int /\ -VALUE_MATE <= v /\ v <= VALUE_MATE
BY DeepeningAssumption DEF DeepeningAssumption, Decisive, IsWin, IsLoss, TB_WIN_IN_MAX_PLY

LEMMA SearchFacts ==
  ASSUME NEW g \in Searches
  PROVE  /\ DOMAIN g.values # {} /\ IsFiniteSet(DOMAIN g.values) /\ DOMAIN g.values \subseteq Int
         /\ Cardinality(DOMAIN g.values) \in Nat \ {0}
         /\ \A m \in DOMAIN g.values : /\ g.values[m] \in Int /\ g.ranks[m] \in Int /\ g.tb[m] \in Int
                                       /\ -VALUE_MATE <= g.values[m] /\ g.values[m] <= VALUE_MATE
         /\ g.multiPv \in Nat \ {0} /\ g.depth \in Nat /\ g.siblings \in Nat
<1>1. SearchAssumption(g)
  BY DeepeningAssumption DEF DeepeningAssumption
<1>2. DOMAIN g.values # {} /\ IsFiniteSet(DOMAIN g.values) /\ DOMAIN g.values \subseteq Int
  BY <1>1 DEF SearchAssumption
<1>3. Cardinality(DOMAIN g.values) \in Nat \ {0}
  BY <1>2, FS_CardinalityType, FS_EmptySet
<1>4. \A m \in DOMAIN g.values : /\ g.values[m] \in Int /\ g.ranks[m] \in Int /\ g.tb[m] \in Int
                                 /\ -VALUE_MATE <= g.values[m] /\ g.values[m] <= VALUE_MATE
  BY <1>1, Constants DEF SearchAssumption, Abs
<1>5. g.multiPv \in Nat \ {0} /\ g.depth \in Nat /\ g.siblings \in Nat
  BY <1>1 DEF SearchAssumption
<1> QED BY <1>2, <1>3, <1>4, <1>5

\* The list as it is built: every move once, by rank.
LEMMA ListedMoves ==
  ASSUME go \in Searches
  PROVE  /\ \A i \in 1..N : Listed(i) \in Moves
         /\ \A i, j \in 1..N : Listed(i) = Listed(j) => i = j
         /\ \A m \in Moves : \E i \in 1..N : Listed(i) = m
         /\ \A i, j \in 1..N : i <= j => go.ranks[Listed(i)] >= go.ranks[Listed(j)]
<1> DEFINE R == {r \in Moves \X Moves : Before(r[1], r[2])}
           count(m) == Cardinality(Earlier(Moves, R, m))
<1>0. /\ IsFiniteSet(Moves) /\ Moves \subseteq Int /\ N \in Nat \ {0}
      /\ \A m \in Moves : go.ranks[m] \in Int
  BY SearchFacts DEF Moves, N
<1>1. \A k, m \in Moves : <<k, m>> \in R <=> Before(k, m)
  OBVIOUS
<1>2. Orders(Moves, R)
  <2>1. \A x \in Moves : ~Before(x, x)
    BY <1>0 DEF Before
  <2>2. \A x, y \in Moves : x # y => Before(x, y) \/ Before(y, x)
    BY <1>0 DEF Before
  <2>3. \A x, y, z \in Moves : Before(x, y) /\ Before(y, z) => Before(x, z)
    BY <1>0 DEF Before
  <2> QED BY <1>1, <2>1, <2>2, <2>3 DEF Orders
<1>3. \A m \in Moves : Earlier(Moves, R, m) = {k \in Moves : Before(k, m)}
  BY <1>1 DEF Earlier
<1> HIDE DEF R
<1>4. /\ \A x \in Moves : count(x) \in 0..(N - 1)
      /\ \A x, y \in Moves : count(x) = count(y) => x = y
      /\ \A k \in 0..(N - 1) : \E x \in Moves : count(x) = k
  <2>1. /\ \A x \in Moves : count(x) \in 0..(Cardinality(Moves) - 1)
        /\ \A x, y \in Moves : count(x) = count(y) => x = y
        /\ \A k \in 0..(Cardinality(Moves) - 1) : \E x \in Moves : count(x) = k
    <3>1. IsFiniteSet(Moves) /\ Orders(Moves, R)
      BY <1>0, <1>2
    <3> QED BY ONLY <3>1, CountingNumbers
  <2> QED BY <2>1, Zenon DEF N
<1>5. ASSUME NEW i \in 1..N PROVE Listed(i) \in Moves /\ count(Listed(i)) = i - 1
  <2>1. i \in Int /\ i - 1 \in 0..(N - 1)
    BY <1>0
  <2>2. \E m \in Moves : count(m) = i - 1
    BY <2>1, <1>4, Zenon
  <2>3. \E m \in Moves : Cardinality({k \in Moves : Before(k, m)}) = i - 1
    BY <2>2, <1>3, Zenon
  <2>4. Listed(i) \in Moves /\ Cardinality({k \in Moves : Before(k, Listed(i))}) = i - 1
    BY <2>3, Zenon DEF Listed
  <2> QED BY <2>4, <1>3, Zenon
<1> HIDE DEF count
<1>6. ASSUME NEW i \in 1..N, NEW j \in 1..N, Listed(i) = Listed(j) PROVE i = j
  <2>1. i - 1 = j - 1
    BY <1>5, <1>6
  <2> QED BY <2>1
<1>7. ASSUME NEW m \in Moves PROVE \E i \in 1..N : Listed(i) = m
  <2>1. count(m) + 1 \in 1..N /\ (count(m) + 1) - 1 = count(m)
    BY <1>0, <1>4
  <2>2. Listed(count(m) + 1) = m
    BY <2>1, <1>4, <1>5
  <2> QED BY <2>1, <2>2
<1>8. ASSUME NEW i \in 1..N, NEW j \in 1..N, i <= j PROVE go.ranks[Listed(i)] >= go.ranks[Listed(j)]
  <2>1. Listed(i) \in Moves /\ Listed(j) \in Moves /\ count(Listed(i)) = i - 1 /\ count(Listed(j)) = j - 1
    BY <1>5
  <2>2. ~Before(Listed(j), Listed(i))
    <3> SUFFICES ASSUME Before(Listed(j), Listed(i)) PROVE FALSE
      OBVIOUS
    <3>1. <<Listed(j), Listed(i)>> \in R
      BY <1>1, <2>1
    <3>2. count(Listed(j)) < count(Listed(i))
      BY <3>1, <2>1, <1>0, <1>2, LaterHasMore DEF count
    <3> QED BY <3>2, <2>1, <1>8
  <2>3. go.ranks[Listed(i)] \in Int /\ go.ranks[Listed(j)] \in Int
    BY <2>1, <1>0
  <2>4. ~(go.ranks[Listed(j)] > go.ranks[Listed(i)])
    BY <2>2 DEF Before
  <2> QED BY <2>3, <2>4
<1> QED BY <1>5, <1>6, <1>7, <1>8

\* move_to_front rearranges the positions up to that of the move.
FrontedBy(list, n, at, p) ==
  p[1] = at /\ MoveToFront(list, list[at].line[1]) = [k \in 1..n |-> list[p[k]]]
LEMMA FrontRearranges ==
  ASSUME NEW n \in Nat, NEW list, DOMAIN list = 1..n, NEW at \in 1..n,
         \A i, j \in 1..n : list[i].line[1] = list[j].line[1] => i = j
  PROVE  \E p \in Rearrangements(n, 1, at) : FrontedBy(list, n, at, p)
<1> DEFINE p == [k \in 1..n |-> IF k = 1 THEN at ELSE IF k <= at THEN k - 1 ELSE k]
           m == list[at].line[1]
<1>1. p \in [1..n -> 1..n]
  OBVIOUS
<1>2. \A i, j \in 1..n : p[i] = p[j] => i = j
  OBVIOUS
<1>3. ASSUME NEW j \in 1..n PROVE \E i \in 1..n : p[i] = j
  <2>1. CASE j = at
    <3>1. 1 \in 1..n /\ p[1] = at
      OBVIOUS
    <3> QED BY <2>1, <3>1
  <2>2. CASE j < at
    <3>1. j + 1 \in 1..n /\ p[j + 1] = j
      BY <2>2
    <3> QED BY <3>1
  <2>3. CASE j > at
    <3>1. p[j] = j
      BY <2>3
    <3> QED BY <3>1
  <2> QED BY <2>1, <2>2, <2>3
<1>4. p \in Rearrangements(n, 1, at)
  <2>1. \A i \in 1..n : i < 1 \/ at < i => p[i] = i
    OBVIOUS
  <2>2. \A i \in 1..n : 1 <= i /\ i <= at => 1 <= p[i] /\ p[i] <= at
    OBVIOUS
  <2> HIDE DEF p
  <2> QED BY <1>1, <1>2, <1>3, <2>1, <2>2 DEF Rearrangements
<1>5. (CHOOSE i \in DOMAIN list : list[i].line[1] = m /\ \A j \in 1..(i - 1) : list[j].line[1] # m) = at
  <2>1. \A i \in DOMAIN list : (list[i].line[1] = m /\ \A j \in 1..(i - 1) : list[j].line[1] # m) => i = at
    BY Zenon
  <2>2. \A j \in 1..(at - 1) : list[j].line[1] # m
    <3> TAKE j \in 1..(at - 1)
    <3>1. j \in 1..n /\ j # at
      OBVIOUS
    <3> QED BY <3>1
  <2> QED BY <2>1, <2>2, Zenon
<1>6. Holds(list, m)
  BY DEF Holds
<1>7. MoveToFront(list, m) = [k \in 1..n |-> IF k = 1 THEN list[at] ELSE IF k <= at THEN list[k - 1] ELSE list[k]]
  <2> DEFINE found == CHOOSE i \in DOMAIN list : list[i].line[1] = m /\ \A j \in 1..(i - 1) : list[j].line[1] # m
             Fronted(a) == [k \in DOMAIN list |-> IF k = 1 THEN list[a] ELSE IF k <= a THEN list[k - 1] ELSE list[k]]
  <2>1. MoveToFront(list, m) = Fronted(found)
    BY ONLY <1>6, Zenon DEF MoveToFront
  <2>2. found = at
    BY <1>5
  <2> HIDE DEF found, m
  <2>3. MoveToFront(list, m) = Fronted(at)
    BY <2>1, <2>2
  <2> QED BY <2>3
<1>8. MoveToFront(list, m) = [k \in 1..n |-> list[p[k]]]
  BY <1>7
<1>9. p[1] = at
  OBVIOUS
<1> QED BY <1>4, <1>8, <1>9 DEF FrontedBy

-----------------------------------------------------------------------------
\* The root list: what rearranges it and what rewrites its entries.
LEMMA ListSize == go \in Searches => N \in Nat \ {0} /\ \A m \in Moves : go.ranks[m] \in Int
BY SearchFacts DEF Moves, N

LEMMA RecordTypes ==
  ASSUME NEW rm \in Record
  PROVE  /\ rm.move \in Moves /\ rm.score \in Scores /\ rm.uci \in Bounds /\ rm.prev \in Scores
         /\ rm.lower \in BOOLEAN /\ rm.upper \in BOOLEAN /\ rm.prevExact \in BOOLEAN
         /\ rm.line \in Seq(Int) /\ rm.prevLine \in Seq(Int)
BY DEF Record

LEMMA ScoreTypes ==
  /\ NoScore \in Int /\ NoScore = -VALUE_INFINITE
  /\ \A v \in Scores : /\ v \in Int /\ NoScore <= v /\ v < VALUE_INFINITE
                       /\ v # NoScore => NoScore < v /\ -VALUE_MATE <= v /\ v <= VALUE_MATE
  /\ \A v \in Scores : v \in Bounds
  /\ NoScore \in Scores /\ NoScore \in Bounds /\ VALUE_INFINITE \in Bounds
BY Constants DEF Scores, Bounds, NoScore

LEMMA RearrangedLists ==
  ASSUME go \in Searches, NEW list, Lists(list), NEW lo, NEW hi, NEW p \in Rearrangements(N, lo, hi)
  PROVE  Lists([k \in 1..N |-> list[p[k]]])
<1> DEFINE new == [k \in 1..N |-> list[p[k]]]
<1>1. /\ p \in [1..N -> 1..N]
      /\ \A i, j \in 1..N : p[i] = p[j] => i = j
      /\ \A j \in 1..N : \E i \in 1..N : p[i] = j
  BY DEF Rearrangements
<1>2. /\ list \in [1..N -> Record]
      /\ \A i \in 1..N : SoundMove(list[i])
      /\ \A i, j \in 1..N : list[i].move = list[j].move => i = j
      /\ \A m \in Moves : \E i \in 1..N : list[i].move = m
  BY DEF Lists
<1>3. new \in [1..N -> Record] /\ \A i \in 1..N : p[i] \in 1..N /\ new[i] = list[p[i]]
  BY <1>1, <1>2
<1> HIDE DEF new
<1>4. \A i \in 1..N : SoundMove(new[i])
  BY <1>2, <1>3
<1>5. \A i, j \in 1..N : new[i].move = new[j].move => i = j
  <2> TAKE i, j \in 1..N
  <2> HAVE new[i].move = new[j].move
  <2>1. list[p[i]].move = list[p[j]].move
    BY <1>3
  <2>2. p[i] = p[j]
    BY <2>1, <1>2, <1>3
  <2> QED BY <2>2, <1>1
<1>6. \A m \in Moves : \E i \in 1..N : new[i].move = m
  <2> TAKE m \in Moves
  <2>1. PICK j \in 1..N : list[j].move = m
    BY <1>2
  <2>2. PICK i \in 1..N : p[i] = j
    BY <1>1
  <2> QED BY <2>1, <2>2, <1>3
<1> QED BY <1>3, <1>4, <1>5, <1>6 DEF Lists, new

\* Among moves of one rank the ranks by position stay.
LEMMA RearrangedRanks ==
  ASSUME go \in Searches, NEW list, NEW lo \in Int, NEW hi \in Int, NEW p \in Rearrangements(N, lo, hi),
         \A i, j \in 1..N : lo <= i /\ i <= hi /\ lo <= j /\ j <= hi => RankAt(list, i) = RankAt(list, j)
  PROVE  \A i \in 1..N : RankAt([k \in 1..N |-> list[p[k]]], i) = RankAt(list, i)
<1> TAKE i \in 1..N
<1>0. N \in Nat
  BY ListSize
<1>1. p \in [1..N -> 1..N] /\ (i < lo \/ hi < i => p[i] = i) /\ (lo <= i /\ i <= hi => lo <= p[i] /\ p[i] <= hi)
  BY DEF Rearrangements
<1>2. RankAt([k \in 1..N |-> list[p[k]]], i) = RankAt(list, p[i])
  BY DEF RankAt
<1>3. CASE i < lo \/ hi < i
  BY <1>1, <1>2, <1>3
<1>4. CASE lo <= i /\ i <= hi
  <2>1. p[i] \in 1..N
    BY <1>1
  <2> QED BY <1>1, <1>2, <1>4, <2>1
<1> QED BY <1>0, <1>3, <1>4

LEMMA SameRanks ==
  ASSUME go \in Searches, NEW list, NEW new, Ranked(list), \A i \in 1..N : RankAt(new, i) = RankAt(list, i)
  PROVE  Ranked(new)
BY DEF Ranked

LEMMA ListScores ==
  ASSUME go \in Searches, NEW list, Lists(list)
  PROVE  /\ DOMAIN list = 1..N
         /\ \A i \in 1..N : list[i] \in Record /\ list[i].score \in Scores /\ list[i].prev \in Scores
         /\ \A i \in 1..N : list[i].score \in Int /\ list[i].prev \in Int
BY ScoreTypes, RecordTypes DEF Lists

LEMMA SortedLists ==
  ASSUME go \in Searches, NEW list, Lists(list), NEW lo \in 1..N, NEW hi \in lo..N
  PROVE  /\ Lists(StableSort(list, lo, hi))
         /\ \E p \in Rearrangements(N, lo, hi) : SortedBy(list, N, lo, hi, p)
<1>1. N \in Nat
  BY ListSize
<1>2. PICK p \in Rearrangements(N, lo, hi) : SortedBy(list, N, lo, hi, p)
  <2>1. DOMAIN list = 1..N /\ \A i \in 1..N : list[i].score \in Int /\ list[i].prev \in Int
    BY ListScores
  <2> HIDE DEF N
  <2> QED BY ONLY <1>1, <2>1, lo \in 1..N, hi \in lo..N, SortRearranges, Zenon
<1>3. StableSort(list, lo, hi) = [k \in 1..N |-> list[p[k]]]
  BY <1>2 DEF SortedBy
<1>4. Lists([k \in 1..N |-> list[p[k]]])
  BY RearrangedLists
<1> QED BY <1>2, <1>3, <1>4

\* The first of a sorted stretch has its best score, and was somewhere in it.
LEMMA SortedFirst ==
  ASSUME go \in Searches, NEW list, Lists(list), NEW lo \in 1..N, NEW hi \in lo..N
  PROVE  /\ \A i \in 1..N : lo <= i /\ i <= hi => StableSort(list, lo, hi)[lo].score >= list[i].score
         /\ \E i \in 1..N : lo <= i /\ i <= hi /\ StableSort(list, lo, hi)[lo] = list[i]
<1>0. N \in Nat
  BY ListSize
<1>a. PICK p \in Rearrangements(N, lo, hi) : SortedBy(list, N, lo, hi, p)
  BY SortedLists
<1>1. /\ StableSort(list, lo, hi) = [k \in 1..N |-> list[p[k]]]
      /\ \A i, j \in lo..hi : i < j => list[p[i]].score >= list[p[j]].score
  BY <1>a DEF SortedBy
<1>2. /\ p \in [1..N -> 1..N] /\ \A j \in 1..N : \E i \in 1..N : p[i] = j
      /\ \A i \in 1..N : i < lo \/ hi < i => p[i] = i
      /\ \A i \in 1..N : lo <= i /\ i <= hi => lo <= p[i] /\ p[i] <= hi
  BY DEF Rearrangements
<1>3. StableSort(list, lo, hi)[lo] = list[p[lo]] /\ p[lo] \in 1..N /\ lo <= p[lo] /\ p[lo] <= hi
  BY <1>0, <1>1, <1>2
<1>4. ASSUME NEW i \in 1..N, lo <= i, i <= hi PROVE list[p[lo]].score >= list[i].score
  <2>1. PICK j \in 1..N : p[j] = i
    BY <1>2
  <2>2. lo <= j /\ j <= hi
    <3>1. CASE j < lo \/ hi < j
      BY <3>1, <2>1, <1>2, <1>4, <1>0
    <3> QED BY <3>1, <1>0
  <2>3. CASE j = lo
    <3>1. list[p[lo]].score \in Int
      BY <1>3, ListScores
    <3> QED BY <3>1, <2>1, <2>3
  <2>4. CASE lo < j
    <3>1. lo \in lo..hi /\ j \in lo..hi
      BY <2>2, <1>0
    <3> QED BY <3>1, <2>1, <2>4, <1>1
  <2> QED BY <2>2, <2>3, <2>4, <1>0
<1> QED BY <1>3, <1>4

\* Entries rewritten one by one, each keeping its move.
LEMMA RewrittenLists ==
  ASSUME go \in Searches, NEW list, Lists(list), NEW new \in [1..N -> Record],
         \A i \in 1..N : SoundMove(new[i]) /\ new[i].move = list[i].move
  PROVE  Lists(new) /\ (\A i \in 1..N : RankAt(new, i) = RankAt(list, i))
<1>1. \A i, j \in 1..N : new[i].move = new[j].move => i = j
  BY DEF Lists
<1>2. \A m \in Moves : \E i \in 1..N : new[i].move = m
  BY DEF Lists
<1> QED BY <1>1, <1>2 DEF Lists, RankAt

-----------------------------------------------------------------------------
\* One entry: what root_update and the repairs make of it, and how it is shown.
LEMMA ShortLines == \A m \in Int, v \in Int : /\ <<m>> \in Seq(Int) /\ Len(<<m>>) = 1 /\ <<m>>[1] = m
                                              /\ <<m, v>> \in Seq(Int) /\ Len(<<m, v>>) = 2
                                              /\ <<m, v>>[1] = m /\ <<m, v>>[2] = v
OBVIOUS

LEMMA MovesAreInts == go \in Searches => Moves \subseteq Int
BY SearchFacts DEF Moves

LEMMA UpdateKeeps ==
  ASSUME go \in Searches, NEW rm \in Record, SoundMove(rm), NEW v \in Scores, v # NoScore, NEW first \in BOOLEAN,
         window.beta \in Bounds, NoScore < window.beta, node.alpha \in Bounds, first => node.alpha < window.beta
  PROVE  /\ Update(rm, v, first) \in Record /\ SoundMove(Update(rm, v, first)) /\ Update(rm, v, first).move = rm.move
         /\ Update(rm, v, first).score = IF first \/ v > node.alpha THEN v ELSE NoScore
         /\ v > node.alpha /\ v < window.beta => ~Inexact(Update(rm, v, first))
<1> DEFINE new == Update(rm, v, first)
           line == <<rm.move, v>>
           uci == IF v >= window.beta THEN window.beta ELSE IF v <= node.alpha THEN node.alpha ELSE v
           high == v >= window.beta
           low == v <= node.alpha
<1>0. /\ v \in Int /\ NoScore < v /\ v \in Bounds /\ window.beta \in Int /\ node.alpha \in Int /\ NoScore \in Int
      /\ rm.move \in Moves /\ rm.move \in Int /\ NoScore \in Scores
  BY ScoreTypes, RecordTypes, MovesAreInts DEF Bounds
<1>1. line \in Seq(Int) /\ Len(line) = 2 /\ line[1] = rm.move /\ line[2] = v
  BY <1>0, ShortLines
<1>2. uci \in Bounds /\ uci # NoScore /\ (~high /\ ~low => uci = v) /\ ~((first \/ v > node.alpha) /\ high /\ low)
  BY <1>0
<1>3. high \in BOOLEAN /\ low \in BOOLEAN
  OBVIOUS
<1>4. CASE first \/ v > node.alpha
  <2>1. new = [rm EXCEPT !.score = v, !.line = line, !.lower = high, !.upper = low, !.uci = uci]
    BY <1>4 DEF Update
  <2> HIDE DEF line, uci, high, low, new
  <2>2. new \in Record /\ new.move = rm.move
    BY <2>1, <1>1, <1>2, <1>3 DEF Record
  <2>3. new.score = v /\ new.line = line /\ new.lower = high /\ new.upper = low /\ new.uci = uci
        /\ new.prev = rm.prev /\ new.prevLine = rm.prevLine
    BY <2>1 DEF Record
  <2>4. Inexact(new) <=> (high \/ low)
    BY <2>3 DEF Inexact
  <2>5. SoundMove(new)
    BY <2>2, <2>3, <2>4, <1>1, <1>2, <1>4 DEF SoundMove, EndsIn
  <2>6. v > node.alpha /\ v < window.beta => ~Inexact(new)
    BY <2>4, <1>0 DEF high, low
  <2> QED BY <2>2, <2>3, <2>5, <2>6, <1>4 DEF new
<1>5. CASE ~(first \/ v > node.alpha)
  <2>1. new = [rm EXCEPT !.score = NoScore]
    BY <1>5 DEF Update
  <2> HIDE DEF new
  <2>2. new \in Record /\ new.move = rm.move /\ new.score = NoScore
    BY <2>1, <1>0 DEF Record
  <2>3. new.line = rm.line /\ new.lower = rm.lower /\ new.upper = rm.upper /\ new.prev = rm.prev /\ new.prevLine = rm.prevLine
    BY <2>1 DEF Record
  <2>4. SoundMove(new)
    BY <2>2, <2>3 DEF SoundMove, EndsIn
  <2> QED BY <2>2, <2>4, <1>5, <1>0 DEF new
<1> QED BY <1>4, <1>5

LEMMA RepairKeeps ==
  ASSUME go \in Searches, NEW cur \in Record, SoundMove(cur), NEW above \in Record
  PROVE  /\ Repaired(cur, above) \in Record /\ SoundMove(Repaired(cur, above))
         /\ Repaired(cur, above).move = cur.move
<1> DEFINE new == Repaired(cur, above)
<1>0. /\ above.score \in Scores /\ above.score \in Bounds /\ cur.prev \in Scores /\ cur.prev \in Bounds
      /\ NoScore \in Scores /\ cur.prevLine \in Seq(Int) /\ cur.move \in Int /\ cur.line[1] = cur.move
      /\ TRUE \in BOOLEAN /\ FALSE \in BOOLEAN
  BY ScoreTypes, RecordTypes, MovesAreInts DEF SoundMove
<1>a. <<cur.move>> \in Seq(Int) /\ Len(<<cur.move>>) = 1 /\ <<cur.move>>[1] = cur.move
  BY <1>0, ShortLines
<1>1. CASE cur.prev # NoScore /\ cur.prevExact /\ cur.prev <= above.score
  <2>1. new = [cur EXCEPT !.score = cur.prev, !.uci = cur.prev, !.prev = NoScore, !.line = cur.prevLine,
                          !.lower = FALSE, !.upper = FALSE]
    BY <1>1 DEF Repaired
  <2> HIDE DEF new
  <2>2. new \in Record /\ new.move = cur.move
    BY <2>1, <1>0 DEF Record
  <2>3. /\ new.score = cur.prev /\ new.uci = cur.prev /\ new.prev = NoScore /\ new.line = cur.prevLine
        /\ new.prevLine = cur.prevLine /\ ~new.lower /\ ~new.upper
    BY <2>1 DEF Record
  <2>4. SoundMove(new)
    BY <2>2, <2>3, <1>1 DEF SoundMove, EndsIn
  <2> QED BY <2>2, <2>4 DEF new
<1>2. CASE ~(cur.prev # NoScore /\ cur.prevExact /\ cur.prev <= above.score) /\ IsLoss(above.score)
  <2>1. new = [cur EXCEPT !.score = above.score, !.uci = above.score, !.prev = NoScore, !.line = <<cur.move>>,
                          !.upper = TRUE, !.lower = FALSE]
    BY <1>2, <1>0 DEF Repaired
  <2> HIDE DEF new
  <2>2. new \in Record /\ new.move = cur.move
    BY <2>1, <1>0, <1>a DEF Record
  <2>3. /\ new.score = above.score /\ new.uci = above.score /\ new.prev = NoScore /\ new.line = <<cur.move>>
        /\ new.prevLine = cur.prevLine /\ ~new.lower /\ new.upper
    BY <2>1 DEF Record
  <2>4. SoundMove(new)
    BY <2>2, <2>3, <1>a DEF SoundMove, EndsIn
  <2> QED BY <2>2, <2>4 DEF new
<1>3. CASE ~(cur.prev # NoScore /\ cur.prevExact /\ cur.prev <= above.score) /\ ~IsLoss(above.score)
  <2>1. new = [cur EXCEPT !.upper = FALSE, !.lower = TRUE]
    BY <1>3 DEF Repaired
  <2> HIDE DEF new
  <2>2. new \in Record /\ new.move = cur.move
    BY <2>1, <1>0 DEF Record
  <2>3. /\ new.score = cur.score /\ new.uci = cur.uci /\ new.prev = cur.prev /\ new.line = cur.line
        /\ new.prevLine = cur.prevLine /\ new.lower /\ ~new.upper
    BY <2>1 DEF Record
  <2>4. SoundMove(new)
    BY <2>2, <2>3 DEF SoundMove, EndsIn, Inexact
  <2> QED BY <2>2, <2>4 DEF new
<1> QED BY <1>1, <1>2, <1>3

\* Marking an exact loss a lower bound.
LEMMA MarkKeeps ==
  ASSUME NEW rm \in Record, SoundMove(rm), ExactLoss(rm)
  PROVE  /\ [rm EXCEPT !.lower = TRUE] \in Record /\ SoundMove([rm EXCEPT !.lower = TRUE])
         /\ [rm EXCEPT !.lower = TRUE].move = rm.move
         /\ [rm EXCEPT !.lower = TRUE].score = rm.score /\ [rm EXCEPT !.lower = TRUE].lower
         /\ [rm EXCEPT !.lower = TRUE].line = rm.line /\ [rm EXCEPT !.lower = TRUE].uci = rm.uci
<1> DEFINE new == [rm EXCEPT !.lower = TRUE]
<1>1. new \in Record /\ new.move = rm.move
  BY DEF Record
<1>2. /\ new.score = rm.score /\ new.uci = rm.uci /\ new.prev = rm.prev /\ new.line = rm.line
      /\ new.prevLine = rm.prevLine /\ new.lower /\ new.upper = rm.upper
  BY DEF Record
<1>3. ~rm.upper
  BY DEF ExactLoss, Inexact
<1> HIDE DEF new
<1>4. SoundMove(new)
  BY <1>1, <1>2, <1>3 DEF SoundMove, EndsIn, Inexact
<1> QED BY <1>1, <1>2, <1>4 DEF new

\* The repairs after an abort leave the finished lines alone, and do nothing without one.
LEMMA AbortKeeps ==
  ASSUME go \in Searches, NEW list, Lists(list), pvIdx \in Nat, pvIdx < N
  PROVE  /\ Lists(AfterAbort(list))
         /\ \A i \in 1..N : RankAt(AfterAbort(list), i) = RankAt(list, i)
         /\ \A i \in 1..N : i <= pvIdx => AfterAbort(list)[i] = list[i]
         /\ ~stop \/ pvIdx = 0 => AfterAbort(list) = list
<1>0. N \in Nat /\ DOMAIN list = 1..N /\ list \in [1..N -> Record] /\ \A i \in 1..N : list[i] \in Record /\ SoundMove(list[i])
  BY ListSize DEF Lists
<1>1. CASE ~stop \/ pvIdx = 0
  BY <1>1 DEF AfterAbort
<1>2. CASE ~(~stop \/ pvIdx = 0)
  <2> DEFINE entry(i) == IF i = pvIdx + 1 THEN IF Distrusted(list[i], list[i - 1]) THEN Repaired(list[i], list[i - 1]) ELSE list[i]
                         ELSE IF i \in (pvIdx + 2)..Lines /\ ExactLoss(list[i]) THEN [list[i] EXCEPT !.lower = TRUE]
                         ELSE list[i]
  <2>1. AfterAbort(list) = [i \in 1..N |-> entry(i)]
    BY <1>0, <1>2 DEF AfterAbort
  <2>2. ASSUME NEW i \in 1..N PROVE entry(i) \in Record /\ SoundMove(entry(i)) /\ entry(i).move = list[i].move
    <3>1. CASE i = pvIdx + 1
      <4>1. i - 1 \in 1..N
        BY <1>0, <1>2, <3>1
      <4>2. list[i - 1] \in Record
        BY <4>1, <1>0
      <4> QED BY <4>2, <3>1, <1>0, RepairKeeps
    <3>2. CASE i # pvIdx + 1
      BY <3>2, <1>0, MarkKeeps
    <3> QED BY <3>1, <3>2
  <2>3. \A i \in 1..N : i <= pvIdx => entry(i) = list[i]
    BY <1>0
  <2> HIDE DEF entry
  <2>4. AfterAbort(list) \in [1..N -> Record]
    BY <2>1, <2>2
  <2>5. \A i \in 1..N : AfterAbort(list)[i] = entry(i)
    BY <2>1
  <2>6. \A i \in 1..N : SoundMove(AfterAbort(list)[i]) /\ AfterAbort(list)[i].move = list[i].move
    BY <2>2, <2>5
  <2> QED BY <2>3, <2>4, <2>5, <2>6, <1>2, RewrittenLists
<1> QED BY <1>1, <1>2

-----------------------------------------------------------------------------
\* The reports.
\* What of an entry a report relies on; a reply to ponder on may have been appended.
MayEnd(line, v) ==
  ~go.inTb /\ Len(line) > 1 => line[2] \in {v, VALUE_INFINITE} \/ (line[2] = 0 /\ FromTables(v))
Showable(rm) ==
  /\ rm \in Record
  /\ rm.line[1] = rm.move /\ rm.prevLine[1] = rm.move
  /\ rm.score # NoScore => MayEnd(rm.line, rm.score) /\ rm.uci # NoScore /\ (~Inexact(rm) => rm.uci = rm.score)
  /\ rm.prev # NoScore => MayEnd(rm.prevLine, rm.prev)
\* A line is extended only where the tables claim the score.
MayWalk(rm, walk) == walk \in Walks /\ (walk # "kept" => Extends(rm))

LEMMA ReportedFields ==
  ASSUME NEW rm, NEW walk
  PROVE  /\ Reported(rm, walk).line = IF rm.score = NoScore THEN rm.prevLine ELSE Walked(rm)[walk]
         /\ Reported(rm, walk).score = IF walk = "drawn" THEN 0 ELSE Displayed(rm)
         /\ Reported(rm, walk).bound = IF rm.score = NoScore \/ Tabled(Kept(rm)) THEN ""
                                       ELSE IF rm.lower THEN "lower" ELSE IF rm.upper THEN "upper" ELSE ""
<1> DEFINE line == IF rm.score = NoScore THEN rm.prevLine ELSE Walked(rm)[walk]
           score == IF walk = "drawn" THEN 0 ELSE Displayed(rm)
           bound == IF rm.score = NoScore \/ Tabled(Kept(rm)) THEN ""
                    ELSE IF rm.lower THEN "lower" ELSE IF rm.upper THEN "upper" ELSE ""
<1>1. Reported(rm, walk) = [line |-> line, score |-> score, bound |-> bound]
  BY DEF Reported
<1> HIDE DEF line, score, bound
<1>2. Reported(rm, walk).line = line /\ Reported(rm, walk).score = score /\ Reported(rm, walk).bound = bound
  BY <1>1
<1> QED BY <1>2 DEF line, score, bound

LEMMA WalkedLines ==
  ASSUME NEW rm
  PROVE  /\ Walked(rm)["kept"] = rm.line /\ Walked(rm)["cut"] = <<rm.move>>
         /\ Walked(rm)["walked"] = <<rm.move, Displayed(rm)>> /\ Walked(rm)["drawn"] = <<rm.move, 0>>
<1> DEFINE shown == Displayed(rm)
<1>1. Walked(rm) = [kept |-> rm.line, cut |-> <<rm.move>>, walked |-> <<rm.move, shown>>, drawn |-> <<rm.move, 0>>]
  BY DEF Walked
<1> HIDE DEF shown
<1>2. /\ Walked(rm).kept = rm.line /\ Walked(rm).cut = <<rm.move>>
      /\ Walked(rm).walked = <<rm.move, shown>> /\ Walked(rm).drawn = <<rm.move, 0>>
  BY <1>1
<1> QED BY <1>2 DEF shown

\* What an entry is shown with: a score of a whole number, the table's if there is one.
LEMMA DisplayedFacts ==
  ASSUME go \in Searches, NEW rm \in Record
  PROVE  /\ Kept(rm) \in Int /\ Displayed(rm) \in Int
         /\ rm.score # NoScore /\ rm.uci # NoScore => Kept(rm) = rm.uci
         /\ rm.score = NoScore /\ Kept(rm) # 0 => rm.prev # NoScore /\ Kept(rm) = rm.prev
         /\ ~go.inTb => Displayed(rm) = Kept(rm) /\ ~Tabled(Kept(rm))
         /\ go.inTb => IsMate(Displayed(rm)) \/ IsMated(Displayed(rm)) \/ Displayed(rm) = go.tb[rm.move]
<1>1. rm.prev \in Int /\ rm.uci \in Int
  BY RecordTypes, ScoreTypes DEF Bounds
<1>2. /\ Kept(rm) \in Int
      /\ rm.score # NoScore /\ rm.uci # NoScore => Kept(rm) = rm.uci
      /\ rm.score = NoScore /\ Kept(rm) # 0 => rm.prev # NoScore /\ Kept(rm) = rm.prev
  BY <1>1 DEF Kept
<1>3. go.tb[rm.move] \in Int
  BY RecordTypes, SearchFacts DEF Moves
<1>4. Displayed(rm) \in Int
  BY <1>2, <1>3 DEF Displayed
<1>5. ~go.inTb => Displayed(rm) = Kept(rm) /\ ~Tabled(Kept(rm))
  BY DEF Displayed, Tabled
<1>6. go.inTb => IsMate(Displayed(rm)) \/ IsMated(Displayed(rm)) \/ Displayed(rm) = go.tb[rm.move]
  BY DEF Displayed, Tabled
<1> QED BY <1>2, <1>4, <1>5, <1>6

\* The line the tables leave, which is what an unmarked report shows.
LEMMA WalkIsShown ==
  ASSUME go \in Searches, NEW rm, Showable(rm), rm.score # NoScore, NEW walk, MayWalk(rm, walk)
  PROVE  /\ Walked(rm)[walk] \in Seq(Int) /\ Walked(rm)[walk][1] = rm.move
         /\ walk # "kept" /\ ~go.inTb /\ Len(Walked(rm)[walk]) > 1 =>
              \/ Walked(rm)[walk][2] = rm.score
              \/ Walked(rm)[walk][2] = 0 /\ FromTables(rm.score)
         /\ Len(rm.line) > 0 => Len(Walked(rm)[walk]) > 0
<1>1. rm \in Record /\ rm.line \in Seq(Int) /\ rm.move \in Int /\ rm.line[1] = rm.move /\ Displayed(rm) \in Int
  BY DisplayedFacts, RecordTypes, MovesAreInts DEF Showable
<1>2. \A v \in Int : /\ <<rm.move, v>> \in Seq(Int) /\ <<rm.move, v>>[1] = rm.move /\ <<rm.move, v>>[2] = v
                     /\ Len(<<rm.move, v>>) = 2
  BY <1>1, ShortLines
<1>3. <<rm.move>> \in Seq(Int) /\ <<rm.move>>[1] = rm.move /\ Len(<<rm.move>>) = 1
  BY <1>1, ShortLines
<1>4. walk # "kept" /\ ~go.inTb => Displayed(rm) = rm.score /\ FromTables(rm.score)
  <2> SUFFICES ASSUME walk # "kept", ~go.inTb PROVE Displayed(rm) = rm.score /\ FromTables(rm.score)
    OBVIOUS
  <2>1. FromTables(Displayed(rm)) /\ (Tabled(Kept(rm)) \/ ~Inexact(rm))
    BY DEF MayWalk, Extends
  <2>2. Displayed(rm) = rm.uci /\ ~Tabled(Kept(rm))
    BY <1>1, DisplayedFacts DEF Showable
  <2>3. rm.uci = rm.score
    BY <2>1, <2>2 DEF Showable
  <2> QED BY <2>1, <2>2, <2>3
<1>5. CASE walk = "kept"
  BY <1>1, <1>5, WalkedLines
<1>6. CASE walk = "cut"
  <2>1. Walked(rm)[walk] = <<rm.move>>
    BY <1>6, WalkedLines
  <2> QED BY <2>1, <1>3
<1>7. CASE walk = "walked"
  <2>1. Walked(rm)[walk] = <<rm.move, Displayed(rm)>>
    BY <1>7, WalkedLines
  <2> HIDE DEF Displayed
  <2> QED BY <2>1, <1>1, <1>2, <1>4, <1>7
<1>8. CASE walk = "drawn"
  <2>1. Walked(rm)[walk] = <<rm.move, 0>>
    BY <1>8, WalkedLines
  <2> QED BY <2>1, <1>2, <1>4, <1>8
<1> QED BY <1>5, <1>6, <1>7, <1>8 DEF MayWalk, Walks

LEMMA ReportedIsShown ==
  ASSUME go \in Searches, NEW rm, Showable(rm), NEW walk, MayWalk(rm, walk)
  PROVE  Shown(Reported(rm, walk))
<1> DEFINE w == Reported(rm, walk)
<1> HIDE DEF w
<1> SUFFICES ASSUME w.bound = "", w.score # 0 PROVE Unmarked(w)
  BY DEF Shown, w
<1>1. /\ w.line = (IF rm.score = NoScore THEN rm.prevLine ELSE Walked(rm)[walk])
      /\ w.score = (IF walk = "drawn" THEN 0 ELSE Displayed(rm))
      /\ w.bound = (IF rm.score = NoScore \/ Tabled(Kept(rm)) THEN ""
                    ELSE IF rm.lower THEN "lower" ELSE IF rm.upper THEN "upper" ELSE "")
  BY ReportedFields DEF w
<1>2. w.score = Displayed(rm) /\ walk # "drawn"
  BY <1>1
<1>3. rm \in Record /\ rm.prevLine[1] = rm.move /\ w.line[1] = rm.move
  BY <1>1, WalkIsShown DEF Showable
<1>4. CASE go.inTb
  BY <1>2, <1>3, <1>4, DisplayedFacts DEF Unmarked
<1>5. CASE ~go.inTb
  <2>1. Displayed(rm) = Kept(rm) /\ ~Tabled(Kept(rm))
    BY <1>3, <1>5, DisplayedFacts
  <2>2. CASE rm.score = NoScore
    <3>1. w.line = rm.prevLine /\ rm.prev # NoScore /\ w.score = rm.prev
      BY <2>1, <2>2, <1>1, <1>2, <1>3, DisplayedFacts
    <3>2. MayEnd(rm.prevLine, rm.prev)
      BY <3>1 DEF Showable
    <3> QED BY <3>1, <3>2, <1>5 DEF MayEnd, Unmarked
  <2>3. CASE rm.score # NoScore
    <3>1. ~Inexact(rm)
      BY <2>1, <2>3, <1>1 DEF Inexact
    <3>2. rm.uci = rm.score /\ w.score = rm.score /\ MayEnd(rm.line, rm.score) /\ w.line = Walked(rm)[walk]
      BY <3>1, <2>1, <2>3, <1>1, <1>2, <1>3, DisplayedFacts DEF Showable
    <3>3. CASE walk = "kept"
      <4>1. w.line = rm.line
        BY <3>2, <3>3, WalkedLines
      <4> QED BY <4>1, <3>2, <1>5 DEF MayEnd, Unmarked
    <3>4. CASE walk # "kept"
      <4> DEFINE line == Walked(rm)[walk]
      <4>1. Len(line) > 1 => line[2] = rm.score \/ (line[2] = 0 /\ FromTables(rm.score))
        BY <3>4, <2>3, <1>5, WalkIsShown
      <4> HIDE DEF line
      <4>2. w.line = line /\ w.score = rm.score
        BY <3>2 DEF line
      <4> QED BY <4>1, <4>2, <1>5 DEF Unmarked
    <3> QED BY <3>3, <3>4
  <2> QED BY <2>2, <2>3
<1> QED BY <1>4, <1>5

\* Each report is of its own entry, and the first entry's is among them.
LEMMA EmissionIs ==
  ASSUME go \in Searches, NEW list, NEW w \in Emissions(list)
  PROVE  /\ \A i \in DOMAIN w : i \in DOMAIN list /\ \E walk : MayWalk(list[i], walk) /\ w[i] = Reported(list[i], walk)
         /\ 1 \in DOMAIN list => 1 \in DOMAIN w
<1> DEFINE lines == {i \in DOMAIN list : i <= go.multiPv /\ ~(depth = 1 /\ list[i].score = NoScore /\ i > 1)}
           extended == {i \in lines : Extends(list[i])}
<1>1. PICK walk \in [extended -> Walks] :
        w = [i \in lines |-> Reported(list[i], IF i \in extended THEN walk[i] ELSE "kept")]
  BY DEF Emissions
<1>2. \A i \in lines : i \in DOMAIN list
  OBVIOUS
<1>3. 1 \in DOMAIN list => 1 \in lines
  BY SearchFacts
<1>4. \A i \in extended : Extends(list[i])
  OBVIOUS
<1> HIDE DEF lines, extended
<1>5. ASSUME NEW i \in lines PROVE \E k : MayWalk(list[i], k) /\ w[i] = Reported(list[i], k)
  <2> DEFINE k == IF i \in extended THEN walk[i] ELSE "kept"
  <2>1. w[i] = Reported(list[i], k)
    BY <1>1
  <2>2. "kept" \in Walks
    BY DEF Walks
  <2>3. MayWalk(list[i], k)
    BY <1>1, <1>4, <2>2 DEF MayWalk
  <2> QED BY <2>1, <2>3
<1>6. DOMAIN w = lines
  BY <1>1
<1> QED BY <1>2, <1>3, <1>5, <1>6

\* What the tables left of a line is put back into an entry that is otherwise as it was.
SameBut(new, rm) ==
  /\ new.move = rm.move /\ new.score = rm.score /\ new.uci = rm.uci /\ new.lower = rm.lower /\ new.upper = rm.upper
  /\ new.prev = rm.prev /\ new.prevExact = rm.prevExact /\ new.prevLine = rm.prevLine
LEMMA RelinedIs ==
  ASSUME NEW rm \in Record, NEW line \in Seq(Int)
  PROVE  /\ [rm EXCEPT !.line = line] \in Record /\ [rm EXCEPT !.line = line].line = line
         /\ SameBut([rm EXCEPT !.line = line], rm)
BY DEF Record, SameBut

LEMMA SameButShows ==
  ASSUME NEW rm, NEW new, SameBut(new, rm)
  PROVE  /\ Kept(new) = Kept(rm) /\ Displayed(new) = Displayed(rm) /\ (Inexact(new) <=> Inexact(rm))
         /\ (ExactLoss(new) <=> ExactLoss(rm)) /\ (ExactDecisive(new) <=> ExactDecisive(rm))
<1>1. Kept(new) = Kept(rm)
  BY DEF SameBut, Kept
<1>2. Displayed(new) = Displayed(rm)
  BY <1>1 DEF SameBut, Displayed
<1>3. Inexact(new) <=> Inexact(rm)
  BY DEF SameBut, Inexact
<1> QED BY <1>1, <1>2, <1>3 DEF SameBut, ExactLoss, ExactDecisive

\* What a report leaves in the list, and what it says of the first entry.
LEMMA EmissionPlays ==
  ASSUME go \in Searches, NEW list, \A i \in DOMAIN list : Showable(list[i]), NEW w \in Emissions(list)
  PROVE  /\ \A i \in DOMAIN w : Shown(w[i])
         /\ DOMAIN Written(list, w) = DOMAIN list
         /\ \A i \in DOMAIN list : SameBut(Written(list, w)[i], list[i]) /\ Written(list, w)[i] \in Record
         /\ 1 \in DOMAIN list => 1 \in DOMAIN w
         /\ 1 \in DOMAIN list /\ list[1].score # NoScore =>
              /\ ShownAs(w[1], Written(list, w)[1])
              /\ w[1].bound # "" => Inexact(list[1])
              /\ w[1].bound = "" /\ Inexact(list[1]) => Tabled(Kept(list[1]))
<1> DEFINE new == Written(list, w)
<1>1. /\ \A i \in DOMAIN w : i \in DOMAIN list /\ \E walk : MayWalk(list[i], walk) /\ w[i] = Reported(list[i], walk)
      /\ 1 \in DOMAIN list => 1 \in DOMAIN w
  BY EmissionIs
<1>2. \A i \in DOMAIN w : Shown(w[i])
  BY <1>1, ReportedIsShown
<1>3. /\ DOMAIN new = DOMAIN list
      /\ \A i \in DOMAIN list :
           new[i] = IF i \in DOMAIN w /\ list[i].score # NoScore THEN [list[i] EXCEPT !.line = w[i].line] ELSE list[i]
  BY DEF Written
<1> HIDE DEF new
<1>4. ASSUME NEW i \in DOMAIN list, i \in DOMAIN w, list[i].score # NoScore
      PROVE  w[i].line \in Seq(Int)
  <2>1. PICK walk : MayWalk(list[i], walk) /\ w[i] = Reported(list[i], walk)
    BY <1>1, <1>4
  <2>2. w[i].line = Walked(list[i])[walk]
    <3>1. Reported(list[i], walk).line = IF list[i].score = NoScore THEN list[i].prevLine ELSE Walked(list[i])[walk]
      BY ONLY ReportedFields
    <3> QED BY <3>1, <2>1, <1>4
  <2> QED BY <2>1, <2>2, <1>4, WalkIsShown
<1>5. ASSUME NEW i \in DOMAIN list PROVE SameBut(new[i], list[i]) /\ new[i] \in Record
  <2>1. list[i] \in Record
    BY DEF Showable
  <2>2. CASE i \in DOMAIN w /\ list[i].score # NoScore
    BY <2>1, <2>2, <1>3, <1>4, RelinedIs
  <2>3. CASE ~(i \in DOMAIN w /\ list[i].score # NoScore)
    BY <2>1, <2>3, <1>3 DEF SameBut
  <2> QED BY <2>2, <2>3
<1>6. ASSUME 1 \in DOMAIN list, list[1].score # NoScore
      PROVE  /\ ShownAs(w[1], new[1]) /\ (w[1].bound # "" => Inexact(list[1]))
             /\ w[1].bound = "" /\ Inexact(list[1]) => Tabled(Kept(list[1]))
  <2>1. PICK walk : MayWalk(list[1], walk) /\ w[1] = Reported(list[1], walk)
    BY <1>1, <1>6
  <2>2. /\ w[1].score = (IF walk = "drawn" THEN 0 ELSE Displayed(list[1]))
        /\ w[1].bound = (IF Tabled(Kept(list[1])) THEN ""
                         ELSE IF list[1].lower THEN "lower" ELSE IF list[1].upper THEN "upper" ELSE "")
    <3> DEFINE first == list[1]
    <3>1. w[1] = Reported(first, walk) /\ first.score # NoScore
      BY <2>1, <1>6
    <3> HIDE DEF first
    <3>2. /\ w[1].score = (IF walk = "drawn" THEN 0 ELSE Displayed(first))
          /\ w[1].bound = (IF Tabled(Kept(first)) THEN ""
                           ELSE IF first.lower THEN "lower" ELSE IF first.upper THEN "upper" ELSE "")
      <4>1. /\ Reported(first, walk).score = IF walk = "drawn" THEN 0 ELSE Displayed(first)
            /\ Reported(first, walk).bound = IF first.score = NoScore \/ Tabled(Kept(first)) THEN ""
                                       ELSE IF first.lower THEN "lower" ELSE IF first.upper THEN "upper" ELSE ""
        BY ONLY ReportedFields
      <4> QED BY <4>1, <3>1
    <3> QED BY <3>2 DEF first
  <2>3. list[1] \in Record /\ w[1].line \in Seq(Int)
    BY <1>1, <1>4, <1>6 DEF Showable
  <2>4. new[1].line = w[1].line
    <3>1. new[1] = [list[1] EXCEPT !.line = w[1].line]
      BY <1>1, <1>3, <1>6
    <3>2. [list[1] EXCEPT !.line = w[1].line].line = w[1].line
      BY <2>3, RelinedIs
    <3> QED BY <3>1, <3>2
  <2>5. Displayed(new[1]) = Displayed(list[1])
    BY <1>5, <1>6, SameButShows
  <2>6. walk = "drawn" => FromTables(Displayed(list[1]))
    BY <2>1 DEF MayWalk, Extends
  <2>7. ShownAs(w[1], new[1])
    BY <2>2, <2>4, <2>5, <2>6 DEF ShownAs
  <2>8. /\ w[1].bound # "" => Inexact(list[1])
        /\ w[1].bound = "" /\ Inexact(list[1]) => Tabled(Kept(list[1]))
    BY <2>2 DEF Inexact
  <2> QED BY <2>7, <2>8
<1> QED BY <1>1, <1>2, <1>3, <1>5, <1>6 DEF new

\* An entry of the list may be shown, a reply to ponder on appended or not.
LEMMA SoundIsShowable ==
  ASSUME NEW rm \in Record, SoundMove(rm)
  PROVE  Showable(rm) /\ Showable([rm EXCEPT !.line = Append(@, VALUE_INFINITE)])
<1>1. Showable(rm)
  BY RecordTypes DEF SoundMove, Showable, EndsIn, MayEnd
<1> DEFINE line == Append(rm.line, VALUE_INFINITE)
           new == [rm EXCEPT !.line = line]
<1>2. rm.line \in Seq(Int) /\ Len(rm.line) > 0 /\ rm.line[1] = rm.move /\ VALUE_INFINITE \in Int
  BY RecordTypes, Constants DEF SoundMove
<1>3. line \in Seq(Int) /\ line[1] = rm.move
  BY <1>2
<1>4. line[2] = IF Len(rm.line) > 1 THEN rm.line[2] ELSE VALUE_INFINITE
  <2>1. Len(rm.line) \in Nat
    BY <1>2
  <2>2. CASE Len(rm.line) > 1
    BY <1>2, <2>1, <2>2
  <2>3. CASE ~(Len(rm.line) > 1)
    <3>1. Len(rm.line) + 1 = 2
      BY <1>2, <2>1, <2>3
    <3>2. line[Len(rm.line) + 1] = VALUE_INFINITE
      BY <1>2
    <3> QED BY <3>1, <3>2, <2>3
  <2> QED BY <2>2, <2>3
<1> HIDE DEF line
<1>5. new \in Record /\ new.line = line /\ SameBut(new, rm)
  BY <1>3, RelinedIs
<1> HIDE DEF new
<1>6. rm.score # NoScore => MayEnd(line, rm.score)
  BY <1>4 DEF SoundMove, EndsIn, MayEnd
<1>7. Showable(new)
  BY <1>1, <1>3, <1>5, <1>6, SameButShows DEF Showable, SameBut
<1> QED BY <1>1, <1>7 DEF new, line

\* The list stays a list of the root moves, each line beginning with its own.
LEMMA ListsEmit ==
  ASSUME go \in Searches, NEW list, Lists(list), NEW w \in Emissions(list)
  PROVE  /\ Lists(Written(list, w))
         /\ \A i \in 1..N : RankAt(Written(list, w), i) = RankAt(list, i)
         /\ \A i \in 1..N : SameBut(Written(list, w)[i], list[i])
         /\ \A i \in DOMAIN w : Shown(w[i])
         /\ 1 \in DOMAIN w
         /\ list[1].score # NoScore =>
              /\ ShownAs(w[1], Written(list, w)[1])
              /\ w[1].bound # "" => Inexact(list[1])
              /\ w[1].bound = "" /\ Inexact(list[1]) => Tabled(Kept(list[1]))
<1> DEFINE new == Written(list, w)
<1>1. DOMAIN list = 1..N /\ \A i \in 1..N : list[i] \in Record /\ SoundMove(list[i]) /\ Showable(list[i])
  BY SoundIsShowable DEF Lists
<1>2. 1 \in DOMAIN list
  BY <1>1, ListSize
<1>3. /\ DOMAIN new = 1..N
      /\ \A i \in 1..N : SameBut(new[i], list[i]) /\ new[i] \in Record
      /\ \A i \in DOMAIN w : Shown(w[i])
      /\ 1 \in DOMAIN w
      /\ list[1].score # NoScore =>
              /\ ShownAs(w[1], new[1])
              /\ w[1].bound # "" => Inexact(list[1])
              /\ w[1].bound = "" /\ Inexact(list[1]) => Tabled(Kept(list[1]))
  BY <1>1, <1>2, EmissionPlays
<1>4. ASSUME NEW i \in 1..N PROVE SoundMove(new[i])
  <2>1. CASE i \in DOMAIN w /\ list[i].score # NoScore
    <3>1. PICK walk : MayWalk(list[i], walk) /\ w[i] = Reported(list[i], walk)
      BY <2>1, EmissionIs
    <3>2. w[i].line = Walked(list[i])[walk]
      <4>1. Reported(list[i], walk).line = IF list[i].score = NoScore THEN list[i].prevLine ELSE Walked(list[i])[walk]
        BY ONLY ReportedFields
      <4> QED BY <4>1, <3>1, <2>1
    <3>3. /\ w[i].line \in Seq(Int) /\ Len(w[i].line) > 0 /\ w[i].line[1] = list[i].move
          /\ EndsIn(w[i].line, list[i].score)
      <4>1. SoundMove(list[i]) /\ Showable(list[i])
        BY <1>1
      <4>2. CASE walk = "kept"
        BY <4>1, <4>2, <3>2, <1>1, WalkedLines, RecordTypes DEF SoundMove
      <4>3. CASE walk # "kept"
        BY <4>1, <4>3, <3>1, <3>2, <2>1, WalkIsShown DEF SoundMove, EndsIn
      <4> QED BY <4>2, <4>3
    <3>4. new[i] = [list[i] EXCEPT !.line = w[i].line]
      BY <2>1, <1>1 DEF Written
    <3>5. new[i].line = w[i].line
      BY <3>3, <3>4, <1>1, RelinedIs
    <3>6. SoundMove(list[i]) /\ SameBut(new[i], list[i]) /\ (Inexact(new[i]) <=> Inexact(list[i]))
      BY <1>1, <1>3, SameButShows
    <3> HIDE DEF new
    <3> QED BY <3>3, <3>5, <3>6 DEF SoundMove, SameBut
  <2>2. CASE ~(i \in DOMAIN w /\ list[i].score # NoScore)
    <3>1. new[i] = list[i]
      BY <2>2, <1>1 DEF Written
    <3> QED BY <3>1, <1>1
  <2> QED BY <2>1, <2>2
<1>5. new \in [1..N -> Record]
  <2>1. new = [i \in 1..N |-> new[i]]
    BY <1>1 DEF Written
  <2> HIDE DEF new
  <2> QED BY <2>1, <1>3
<1> HIDE DEF new
<1>6. \A i \in 1..N : new[i].move = list[i].move
  BY <1>3 DEF SameBut
<1>7. Lists(new) /\ (\A i \in 1..N : RankAt(new, i) = RankAt(list, i))
  BY <1>4, <1>5, <1>6, RewrittenLists
<1> QED BY <1>3, <1>7 DEF new

-----------------------------------------------------------------------------
\* Initially there is nothing to trust or to show.
LEMMA LinesBounds == ASSUME go \in Searches, Lists(root) PROVE Lines \in 1..N
<1>1. N \in Nat \ {0} /\ root \in [1..N -> Record]
  BY ListSize DEF Lists
<1>2. Len(root) = N
  BY <1>1
<1>3. go.multiPv \in Nat \ {0}
  BY SearchFacts
<1> QED BY <1>1, <1>2, <1>3 DEF Lines

LEMMA NewRootIsSound ==
  ASSUME go \in Searches, NEW m \in Moves
  PROVE  /\ NewRoot(m) \in Record /\ SoundMove(NewRoot(m)) /\ NewRoot(m).move = m /\ NewRoot(m).score = NoScore
         /\ ~NewRoot(m).lower /\ ~NewRoot(m).upper
<1>1. m \in Int /\ <<m>> \in Seq(Int) /\ Len(<<m>>) = 1 /\ <<m>>[1] = m
  BY MovesAreInts, ShortLines
<1> QED BY <1>1, ScoreTypes DEF NewRoot, Record, SoundMove, EndsIn

LEMMA InitialList == Init => Lists(root) /\ Ranked(root) /\ \A i \in 1..N : root[i].score = NoScore
<1> SUFFICES ASSUME Init PROVE Lists(root) /\ Ranked(root) /\ \A i \in 1..N : root[i].score = NoScore
  OBVIOUS
<1>0. go \in Searches /\ N \in Nat \ {0} /\ root = [i \in 1..N |-> NewRoot(Listed(i))]
  BY ListSize DEF Init, N
<1>1. \A i \in 1..N : Listed(i) \in Moves
  BY <1>0, ListedMoves
<1>2. ASSUME NEW m \in Moves PROVE NewRoot(m) \in Record /\ SoundMove(NewRoot(m)) /\ NewRoot(m).move = m /\ NewRoot(m).score = NoScore
  BY <1>0, NewRootIsSound
<1>3. root \in [1..N -> Record] /\ \A i \in 1..N : SoundMove(root[i]) /\ root[i].move = Listed(i) /\ root[i].score = NoScore
  BY <1>0, <1>1, <1>2
<1>4. Lists(root)
  BY <1>0, <1>3, ListedMoves DEF Lists
<1>5. Ranked(root)
  BY <1>0, <1>3, ListedMoves DEF Ranked, RankAt
<1> QED BY <1>3, <1>4, <1>5

LEMMA IInvInit == Init => IInv
<1> SUFFICES ASSUME Init PROVE IInv
  OBVIOUS
<1>1. /\ go \in Searches /\ depth = 0 /\ pvIdx = 0 /\ pvFirst = 0 /\ pvLast = 0
      /\ last = [line |-> <<>>, score |-> NoScore]
      /\ sent = FALSE /\ wire = <<>> /\ stop = FALSE /\ pc = "loop"
  BY DEF Init
<1>2. Types /\ Segment /\ Window /\ Node /\ Completed /\ Sent
  BY <1>1 DEF Types, Segment, Window, Node, Completed, Sent, Running, InLine
<1>3. Wire
  BY <1>1 DEF Wire
<1>4. Remembered
  BY <1>1, ScoreTypes DEF Remembered
<1>5. 1 \in 1..N
  BY <1>1, ListSize
<1>6. Settled
  BY <1>1, <1>5, InitialList DEF Settled, FoundMate, ExactLoss
<1> QED BY <1>1, <1>2, <1>3, <1>4, <1>6, InitialList DEF IInv, Live

-----------------------------------------------------------------------------
\* While the search asked for stays, so does what is said of it.
LEMMA SameSearch ==
  ASSUME go' = go
  PROVE  /\ N' = N /\ Moves' = Moves
         /\ Lists(root)' <=> Lists(root')
         /\ Ranked(root)' <=> Ranked(root')
         /\ Trusted(root[1].score)' <=> Trusted(root'[1].score)
         /\ Proven(root[1].score)' <=> Proven(root'[1].score)
         /\ Trusted(last.score)' <=> Trusted(last'.score)
<1>1. N' = N /\ Moves' = Moves /\ Record' = Record
  BY DEF N, Moves, Record
<1>2. Lists(root)' <=> Lists(root')
  BY <1>1 DEF Lists, SoundMove, Inexact, EndsIn
<1>3. Ranked(root)' <=> Ranked(root')
  BY <1>1 DEF Ranked, RankAt
<1>4. /\ Trusted(root[1].score)' <=> Trusted(root'[1].score)
      /\ Proven(root[1].score)' <=> Proven(root'[1].score)
      /\ Trusted(last.score)' <=> Trusted(last'.score)
  BY <1>1 DEF Trusted, Proven, IsTop
<1> QED BY <1>1, <1>2, <1>3, <1>4

LEMMA SameLines ==
  ASSUME go \in Searches, go' = go, Lists(root), Lists(root')
  PROVE  Lines' = Lines
<1>1. N \in Nat \ {0} /\ root \in [1..N -> Record] /\ root' \in [1..N -> Record]
  BY ListSize DEF Lists
<1>2. Len(root) = N /\ Len(root') = N
  BY <1>1
<1> QED BY <1>2 DEF Lines

\* The stop flag may rise at any moment: nothing is claimed of a stopped search that
\* was not claimed of a running one.
LEMMA RaiseStopKeeps == IInv /\ RaiseStop => IInv'
<1> SUFFICES ASSUME IInv, RaiseStop PROVE IInv'
  OBVIOUS
<1>1. /\ stop' = TRUE /\ go' = go /\ root' = root /\ depth' = depth /\ pvIdx' = pvIdx /\ pvFirst' = pvFirst
      /\ pvLast' = pvLast /\ window' = window /\ node' = node /\ last' = last /\ sent' = sent /\ wire' = wire
      /\ pc' = pc /\ pc # "answered"
  BY DEF RaiseStop
<1>2. Types /\ Wire /\ Live
  BY <1>1 DEF IInv
<1>3. Types' /\ Wire'
  BY <1>1, <1>2 DEF Types, Wire, Shown, Unmarked
<1>4. Lists(root)' /\ Ranked(root)'
  BY <1>1, <1>2, SameSearch DEF Live
<1>5. Segment' /\ Window' /\ Node'
  <2>1. Lines' = Lines /\ N' = N /\ go' = go
    BY <1>1 DEF Lines, N, Moves
  <2> QED BY <1>1, <1>2, <2>1 DEF Live, Segment, InLine, RankAt, Window, Node, Searched, Inexact
<1>6. Completed' /\ Remembered'
  <2>1. IsTop(last.line[1])' <=> IsTop(last.line[1])
    BY <1>1 DEF IsTop, Moves
  <2>2. Moves' = Moves
    BY <1>1 DEF Moves
  <2> QED BY <1>1, <1>2, <2>1, <2>2, SameSearch DEF Live, Completed, Remembered, Running, InLine, EndsIn
<1>7. Sent' /\ Settled'
  <2>1. (ShownAs(wire[1], root[1]))' <=> ShownAs(wire[1], root[1])
    BY <1>1 DEF ShownAs, Displayed, Tabled, Kept
  <2>2. Inexact(root[1])' <=> Inexact(root[1])
    BY <1>1 DEF Inexact
  <2>3. Sent'
    BY <1>1, <1>2, <2>1, <2>2, SameSearch DEF Live, Sent, Lines
  <2>4. Settled'
    <3>1. (ExactDecisive(root[1]))' <=> ExactDecisive(root[1])
      BY <1>1, <2>2 DEF ExactDecisive
    <3>2. (ExactLoss(root[1]))' <=> ExactLoss(root[1])
      BY <1>1, <2>2 DEF ExactLoss
    <3>3. FoundMate' <=> FoundMate
      BY <1>1 DEF FoundMate
    <3> QED BY <1>1, <1>2, <3>1, <3>2, <3>3, SameSearch DEF Live, Settled
  <2> QED BY <2>3, <2>4
<1> QED BY <1>1, <1>3, <1>4, <1>5, <1>6, <1>7 DEF IInv, Live

\* A finite set of numbers has a least.
LEMMA LeastOfFinite ==
  ASSUME NEW S, IsFiniteSet(S), S \subseteq Int, S # {}
  PROVE  \E k \in S : \A j \in S : k <= j
<1> DEFINE R == {r \in S \X S : r[1] < r[2]}
<1>1. \A x, y \in S : <<x, y>> \in R <=> x < y
  OBVIOUS
<1>2. \A x \in S : x \in Int
  OBVIOUS
<1> HIDE DEF R
<1>3. Orders(S, R)
  BY <1>1, <1>2 DEF Orders
<1>4. Cardinality(S) \in Nat \ {0}
  BY FS_CardinalityType, FS_EmptySet
<1>5. \A k \in 0..(Cardinality(S) - 1) : \E x \in S : Cardinality(Earlier(S, R, x)) = k
  <2>1. IsFiniteSet(S) /\ Orders(S, R)
    BY <1>3
  <2> QED BY ONLY <2>1, CountingNumbers
<1>6. 0 \in 0..(Cardinality(S) - 1)
  BY <1>4
<1>7. PICK k \in S : Cardinality(Earlier(S, R, k)) = 0
  BY <1>5, <1>6
<1>8. Earlier(S, R, k) \in SUBSET S
  BY DEF Earlier
<1>9. Earlier(S, R, k) = {}
  BY <1>7, <1>8, FS_Subset, FS_EmptySet
<1>10. \A j \in S : ~(j < k)
  BY <1>1, <1>9 DEF Earlier
<1> QED BY <1>2, <1>10

\* pv_last: the end of the stretch of one rank that begins at p, counted from 0.
LEMMA SameRankEnds ==
  ASSUME go \in Searches, Lists(root), NEW p \in Nat, p < N
  PROVE  /\ SameRank(p) \in Nat /\ p < SameRank(p) /\ SameRank(p) <= N
         /\ \A i \in 1..N : p < i /\ i <= SameRank(p) => RankAt(root, i) = RankAt(root, p + 1)
         /\ SameRank(p) < N => RankAt(root, SameRank(p) + 1) # RankAt(root, p + 1)
<1>0. N \in Nat \ {0} /\ Len(root) = N
  <2>1. N \in Nat \ {0} /\ root \in [1..N -> Record]
    BY ListSize DEF Lists
  <2> QED BY <2>1
<1> DEFINE Ends(k) == k = N \/ RankAt(root, k + 1) # RankAt(root, p + 1)
           S == {k \in (p + 1)..N : Ends(k)}
           Right(k) == /\ \A j \in p..(k - 1) : go.ranks[At(j).move] = go.ranks[At(p).move]
                       /\ k = Len(root) \/ go.ranks[At(k).move] # go.ranks[At(p).move]
<1>1. N \in S
  BY <1>0
<1>2. IsFiniteSet(S) /\ S \subseteq Int
  <2>1. IsFiniteSet((p + 1)..N) /\ S \in SUBSET ((p + 1)..N)
    BY <1>0, FS_Interval
  <2>2. (p + 1)..N \subseteq Int
    BY <1>0
  <2> QED BY <2>1, <2>2, FS_Subset
<1>3. PICK k \in S : \A j \in S : k <= j
  BY <1>1, <1>2, LeastOfFinite
<1>4. \A j \in p..(k - 1) : RankAt(root, j + 1) = RankAt(root, p + 1)
  <2> TAKE j \in p..(k - 1)
  <2>0. k \in (p + 1)..N
    OBVIOUS
  <2>1. CASE j = p
    BY <2>1
  <2>2. CASE j # p
    <3>1. j \in (p + 1)..N /\ j < k
      BY <2>0, <2>2, <1>0
    <3>2. j \notin S
      BY <3>1, <2>0, <1>3
    <3> QED BY <3>1, <3>2
  <2> QED BY <2>1, <2>2
<1>5. k \in (p + 1)..Len(root) /\ Right(k)
  <2>1. k \in (p + 1)..N /\ Ends(k)
    OBVIOUS
  <2> QED BY <2>1, <1>0, <1>4 DEF RankAt, At
<1> DEFINE e == SameRank(p)
<1>6. e \in (p + 1)..Len(root) /\ Right(e)
  <2>1. e = CHOOSE x \in (p + 1)..Len(root) : Right(x)
    BY DEF SameRank
  <2> HIDE DEF Right, e
  <2> QED BY <2>1, <1>5
<1> HIDE DEF e
<1>7. e \in Nat /\ p < e /\ e <= N
  BY <1>0, <1>6
<1>8. ASSUME NEW i \in 1..N, p < i, i <= e PROVE RankAt(root, i) = RankAt(root, p + 1)
  <2>1. i - 1 \in p..(e - 1) /\ (i - 1) + 1 = i
    BY <1>0, <1>7, <1>8
  <2>2. go.ranks[At(i - 1).move] = go.ranks[At(p).move]
    BY <2>1, <1>6
  <2> QED BY <2>1, <2>2 DEF At, RankAt
<1>9. e < N => RankAt(root, e + 1) # RankAt(root, p + 1)
  BY <1>0, <1>6 DEF At, RankAt
<1> QED BY <1>7, <1>8, <1>9 DEF e

\* What the start of an iteration does to an entry.
Begun(rm, exact) == [rm EXCEPT !.prev = rm.score, !.prevLine = rm.line, !.prevExact = exact]
LEMMA BegunKeeps ==
  ASSUME NEW rm \in Record, SoundMove(rm), NEW exact \in BOOLEAN
  PROVE  Begun(rm, exact) \in Record /\ SoundMove(Begun(rm, exact)) /\ Begun(rm, exact).move = rm.move
         /\ Begun(rm, exact).score = rm.score
<1> DEFINE new == Begun(rm, exact)
<1>1. new \in Record /\ new.move = rm.move /\ new.score = rm.score
  BY DEF Record, Begun
<1>2. /\ new.uci = rm.uci /\ new.lower = rm.lower /\ new.upper = rm.upper
      /\ new.line = rm.line /\ new.prev = rm.score /\ new.prevLine = rm.line
  BY DEF Record, Begun
<1> HIDE DEF new
<1>3. SoundMove(new)
  BY <1>1, <1>2 DEF SoundMove, EndsIn, Inexact
<1> QED BY <1>1, <1>3 DEF new

\* The iteration begins: the scores are put aside, and no line is done.
LEMMA StartIterationKeeps == IInv /\ StartIteration => IInv'
<1> SUFFICES ASSUME IInv, StartIteration PROVE IInv'
  OBVIOUS
<1>1. /\ pc = "loop" /\ pc' = "line" /\ sent' = FALSE /\ depth' = depth + 1
      /\ pvIdx' = 0 /\ pvFirst' = 0 /\ pvLast' = 0 /\ go' = go /\ last' = last /\ wire' = wire /\ stop' = stop
  BY DEF StartIteration
<1>a. root' = [i \in DOMAIN root |-> [root[i] EXCEPT !.prev = root[i].score, !.prevLine = root[i].line,
                                                     !.prevExact = i <= Lines]]
  BY DEF StartIteration
<1>2. Types /\ Wire /\ Live
  BY <1>1 DEF IInv
<1>3. go \in Searches /\ Lists(root) /\ Ranked(root) /\ N \in Nat \ {0}
  BY <1>2, ListSize DEF Types, Live
<1>4. /\ root \in [1..N -> Record] /\ \A i \in 1..N : root[i] \in Record /\ SoundMove(root[i])
  BY <1>3 DEF Lists
<1>5. root' = [i \in 1..N |-> Begun(root[i], i <= Lines)]
  BY <1>a, <1>4 DEF Begun
<1>6. ASSUME NEW i \in 1..N
      PROVE  root'[i] \in Record /\ SoundMove(root'[i]) /\ root'[i].move = root[i].move /\ root'[i].score = root[i].score
  <2>1. PICK exact \in BOOLEAN : exact <=> i <= Lines
    OBVIOUS
  <2>2. Begun(root[i], exact) = Begun(root[i], i <= Lines)
    BY <2>1
  <2>3. root'[i] = Begun(root[i], exact)
    BY <1>5, <2>2
  <2>4. root[i] \in Record /\ SoundMove(root[i])
    BY <1>4
  <2> QED BY <2>3, <2>4, BegunKeeps
<1>7. root' \in [1..N -> Record]
  BY <1>5, <1>6
<1>8. Lists(root') /\ Ranked(root')
  BY <1>3, <1>6, <1>7, RewrittenLists, SameRanks
<1>9. Lines' \in 1..N
  BY <1>1, <1>3, <1>8, SameLines, LinesBounds
<1>10. Types' /\ Wire'
  <2>1. Types'
    <3>1. depth' \in Nat /\ pvIdx' \in Nat /\ pvFirst' \in Nat /\ pvLast' \in Nat
      BY <1>1, <1>2 DEF Types
    <3> QED BY <1>1, <1>2, <3>1 DEF Types
  <2>2. Wire'
    BY <1>1, <1>2 DEF Wire, Shown, Unmarked
  <2> QED BY <2>1, <2>2
<1>11. Lists(root)' /\ Ranked(root)' /\ N' = N /\ Moves' = Moves
  BY <1>1, <1>8, SameSearch
<1>12. Segment' /\ Window' /\ Node' /\ Completed' /\ Sent' /\ Settled'
  BY <1>1, <1>3, <1>9, <1>11 DEF Segment, Window, Node, Completed, Sent, Settled, Running, InLine
<1>13. Remembered'
  <2>1. IsTop(last.line[1])' <=> IsTop(last.line[1])
    BY <1>1 DEF IsTop, Moves
  <2>2. root'[1].score = root[1].score
    BY <1>3, <1>6
  <2> QED BY <1>1, <1>2, <1>11, <2>1, <2>2, SameSearch DEF Live, Remembered, EndsIn
<1> QED BY <1>1, <1>10, <1>11, <1>12, <1>13 DEF IInv, Live

\* A window is never empty, however it is placed.
LEMMA FirstWindow ==
  ASSUME NEW average \in Averages
  PROVE  /\ Low(average - Delta) \in Bounds /\ High(average + Delta) \in Bounds
         /\ Low(average - Delta) < High(average + Delta)
<1>1. average \in Int /\ -VALUE_INFINITE <= average /\ average <= VALUE_INFINITE /\ VALUE_INFINITE \in Nat
      /\ VALUE_INFINITE > 0 /\ Delta \in Nat /\ Delta >= 3
  BY Constants
<1> QED BY <1>1 DEF Low, High, NoScore, Bounds

\* A node just opened has searched nothing.
LEMMA FreshNode ==
  ASSUME N' \in Nat, pvIdx' \in Nat, pvLast' \in Nat, pvLast' <= N',
         Window', pc' = "search",
         node' = [alpha |-> window'.alpha, best |-> NoScore,
                  left |-> {root'[i + 1].move : i \in pvIdx'..(pvLast' - 1)}, count |-> 0]
  PROVE  Node'
<1>0. N' \in Nat /\ pvIdx' \in Nat /\ pvLast' \in Nat /\ pvLast' <= N'
  OBVIOUS
<1>1. /\ node'.alpha = window'.alpha /\ node'.best = NoScore /\ node'.count = 0
      /\ node'.left = {root'[i + 1].move : i \in pvIdx'..(pvLast' - 1)}
  OBVIOUS
<1>2. /\ window'.alpha \in Bounds /\ window'.beta \in Bounds /\ window'.alpha < window'.beta
  BY DEF Window
<1>3. /\ window'.alpha \in Int /\ window'.beta \in Int /\ NoScore \in Int /\ NoScore <= window'.alpha /\ NoScore < window'.beta
      /\ NoScore \in Bounds
  BY <1>2, ScoreTypes DEF Bounds
<1>4. \A i \in 1..N' : ~Searched(i)'
  <2> SUFFICES ASSUME NEW i \in 1..N', Searched(i)' PROVE FALSE
    OBVIOUS
  <2>1. pvIdx' < i /\ i <= pvLast' /\ root'[i].move \notin node'.left
    BY DEF Searched
  <2>0. i \in Nat
    BY <1>0
  <2>2. i - 1 \in pvIdx'..(pvLast' - 1) /\ (i - 1) + 1 = i
    BY ONLY <2>0, <2>1, <1>0
  <2>3. root'[(i - 1) + 1].move \in node'.left
    BY <2>2, <1>1
  <2> QED BY <2>1, <2>2, <2>3
<1>5. \A m \in node'.left : \E i \in 1..N' : pvIdx' < i /\ i <= pvLast' /\ root'[i].move = m
  <2> TAKE m \in node'.left
  <2>1. PICK i \in pvIdx'..(pvLast' - 1) : root'[i + 1].move = m
    BY <1>1
  <2>2. i + 1 \in 1..N' /\ pvIdx' < i + 1 /\ i + 1 <= pvLast'
    <3>1. ASSUME NEW n \in Nat, NEW a \in Nat, NEW b \in Nat, b <= n, NEW k \in a..(b - 1)
          PROVE  k + 1 \in 1..n /\ a < k + 1 /\ k + 1 <= b
      BY <3>1
    <3>2. i \in pvIdx'..(pvLast' - 1)
      OBVIOUS
    <3> QED BY ONLY <3>1, <3>2, <1>0
  <2> QED BY <2>1, <2>2
<1>6. node'.alpha = IF node'.best > window'.alpha THEN node'.best ELSE window'.alpha
  BY <1>1, <1>3
<1>7. ~(node'.best > window'.alpha) /\ node'.best < window'.beta /\ 0 \in Nat
  BY <1>1, <1>3
<1> QED BY <1>1, <1>3, <1>4, <1>5, <1>6, <1>7 DEF Node

\* The next line begins, with the next stretch of one rank when the last is through.
LEMMA StartLineKeeps == IInv /\ StartLine => IInv'
<1> SUFFICES ASSUME IInv, StartLine PROVE IInv'
  OBVIOUS
<1>1. /\ pc = "line" /\ pc' = "search" /\ pvIdx < Lines /\ pvIdx' = pvIdx /\ go' = go /\ root' = root
      /\ depth' = depth /\ last' = last /\ sent' = sent /\ wire' = wire /\ stop' = stop
  BY DEF StartLine
<1>2. Types /\ Wire /\ Live
  BY <1>1 DEF IInv
<1>3. go \in Searches /\ Lists(root) /\ Ranked(root) /\ N \in Nat \ {0} /\ Lines \in 1..N
  BY <1>2, ListSize, LinesBounds DEF Types, Live
<1>4. Lists(root)' /\ Ranked(root)' /\ N' = N /\ Moves' = Moves /\ Lines' = Lines
  BY <1>1, <1>3, SameSearch, SameLines
<1>5. /\ pvFirst' \in Nat /\ pvLast' \in Nat
      /\ pvFirst' <= pvIdx /\ pvIdx < pvLast' /\ pvLast' <= N
      /\ \A i, j \in 1..N : pvFirst' < i /\ i <= pvLast' /\ pvFirst' < j /\ j <= pvLast' =>
           RankAt(root, i) = RankAt(root, j)
      /\ pvFirst' < pvLast' /\ pvLast' < N => RankAt(root, pvLast' + 1) # RankAt(root, pvLast')
  <2>0. pvIdx \in Nat /\ pvFirst \in Nat /\ pvLast \in Nat /\ Lines \in Nat /\ Lines <= N
    BY <1>2, <1>3 DEF Types
  <2>1. Segment
    BY <1>2 DEF Live
  <2>2. CASE pvIdx = pvLast
    <3>a. pvFirst' = pvLast /\ pvLast' = SameRank(pvLast)
      BY <2>2 DEF StartLine
    <3>b. pvLast < N
      BY <2>2, <2>0, <1>1, <1>3
    <3>1. pvFirst' = pvLast /\ pvLast' = SameRank(pvLast) /\ pvLast < N
      BY <3>a, <3>b
    <3>2. /\ pvLast' \in Nat /\ pvLast < pvLast' /\ pvLast' <= N
          /\ \A i \in 1..N : pvLast < i /\ i <= pvLast' => RankAt(root, i) = RankAt(root, pvLast + 1)
          /\ pvLast' < N => RankAt(root, pvLast' + 1) # RankAt(root, pvLast + 1)
      BY <3>1, <2>0, <1>3, SameRankEnds
    <3>3. RankAt(root, pvLast') = RankAt(root, pvLast + 1)
      BY <3>2, <2>0
    <3>4. \A i, j \in 1..N : pvFirst' < i /\ i <= pvLast' /\ pvFirst' < j /\ j <= pvLast' =>
            RankAt(root, i) = RankAt(root, j)
      BY <3>1, <3>2
    <3> QED BY <3>1, <3>2, <3>3, <3>4, <2>0, <2>2
  <2>3. CASE pvIdx # pvLast
    <3>1. pvFirst' = pvFirst /\ pvLast' = pvLast
      BY <2>3 DEF StartLine
    <3>2. pvIdx < pvLast
      BY <2>0, <2>1, <2>3, <1>1 DEF Segment, InLine
    <3> QED BY <3>1, <3>2, <2>0, <2>1, <1>1 DEF Segment, InLine
  <2> QED BY <2>2, <2>3
<1>6. PICK average \in Averages :
        /\ window' = [alpha |-> Low(average - Delta), beta |-> High(average + Delta), delta |-> Delta]
        /\ node' = Opened(Low(average - Delta))
  BY DEF StartLine
<1>7. Window'
  BY <1>6, FirstWindow, Constants DEF Window
<1>8. Node'
  <2>1. node' = [alpha |-> window'.alpha, best |-> NoScore,
                 left |-> {root'[i + 1].move : i \in pvIdx'..(pvLast' - 1)}, count |-> 0]
    BY <1>6, <1>1 DEF Opened, At
  <2>2. N' \in Nat /\ pvIdx' \in Nat
    BY <1>1, <1>2, <1>3, <1>4 DEF Types
  <2> QED BY <2>1, <2>2, <1>1, <1>4, <1>5, <1>7, FreshNode
<1>9. Types' /\ Wire'
  <2>1. Types'
    BY <1>1, <1>2, <1>5 DEF Types
  <2>2. Wire'
    BY <1>1, <1>2 DEF Wire, Shown, Unmarked
  <2> QED BY <2>1, <2>2
<1>10. Segment'
  <2>1. \A i \in 1..N : RankAt(root, i)' = RankAt(root, i)
    BY <1>1 DEF RankAt
  <2>2. pvIdx <= pvLast' /\ pvFirst' <= pvIdx /\ pvIdx < pvLast' /\ pvLast' <= N /\ pvIdx < Lines
    BY <1>1, <1>5, <1>2 DEF Types
  <2>3. \A i, j \in 1..N : pvFirst' < i /\ i <= pvLast' /\ pvFirst' < j /\ j <= pvLast' =>
          RankAt(root, i)' = RankAt(root, j)'
    BY <1>5, <2>1
  <2>4. (pvFirst < pvLast /\ pvLast < N => RankAt(root, pvLast + 1) # RankAt(root, pvLast))'
    BY <1>1, <1>4, <1>5 DEF RankAt
  <2> QED BY <2>2, <2>3, <2>4, <1>1, <1>4 DEF Segment, InLine
<1>11. Completed' /\ Sent' /\ Settled'
  <2>1. Inexact(root[1])' <=> Inexact(root[1])
    BY <1>1 DEF Inexact
  <2> QED BY <1>1, <1>2, <1>4, SameSearch DEF Live, Completed, Sent, Settled, Running, InLine, Inexact
<1>12. Remembered'
  <2>1. IsTop(last.line[1])' <=> IsTop(last.line[1])
    BY <1>1 DEF IsTop, Moves
  <2> QED BY <1>1, <1>2, <1>4, <2>1, SameSearch DEF Live, Remembered, EndsIn
<1> QED BY <1>1, <1>4, <1>7, <1>8, <1>9, <1>10, <1>11, <1>12 DEF IInv, Live

-----------------------------------------------------------------------------
\* The stretch under way stays while the ranks by position do.
LEMMA SegmentStays ==
  ASSUME go \in Searches, go' = go, pvFirst' = pvFirst, pvIdx' = pvIdx, pvLast' = pvLast,
         pvIdx \in Nat, pvFirst \in Nat, pvLast \in Nat,
         Lists(root), Lists(root'), \A i \in 1..N : RankAt(root', i) = RankAt(root, i),
         InLine, Segment
  PROVE  Segment'
<1>1. N' = N /\ Lines' = Lines /\ N \in Nat
  BY SameSearch, SameLines, ListSize
<1>2. \A i \in 1..N : RankAt(root, i)' = RankAt(root, i)
  BY DEF RankAt
<1>3. /\ pvFirst <= pvIdx /\ pvIdx <= pvLast /\ pvLast <= N /\ pvIdx < Lines /\ pvIdx < pvLast
      /\ \A i, j \in 1..N : pvFirst < i /\ i <= pvLast /\ pvFirst < j /\ j <= pvLast =>
           RankAt(root, i) = RankAt(root, j)
      /\ pvFirst < pvLast /\ pvLast < N => RankAt(root, pvLast + 1) # RankAt(root, pvLast)
  BY DEF Segment, InLine
<1>4. \A i, j \in 1..N : pvFirst < i /\ i <= pvLast /\ pvFirst < j /\ j <= pvLast =>
        RankAt(root, i)' = RankAt(root, j)'
  BY <1>2, <1>3
<1>5. (pvFirst < pvLast /\ pvLast < N => RankAt(root, pvLast + 1) # RankAt(root, pvLast))'
  <2> SUFFICES ASSUME pvFirst < pvLast, pvLast < N PROVE (RankAt(root, pvLast + 1) # RankAt(root, pvLast))'
    BY <1>1
  <2>1. pvLast + 1 \in 1..N /\ pvLast \in 1..N
    BY <1>1
  <2>2. RankAt(root', pvLast + 1) = RankAt(root, pvLast + 1) /\ RankAt(root', pvLast) = RankAt(root, pvLast)
    BY <2>1
  <2>3. RankAt(root', pvLast + 1) # RankAt(root', pvLast)
    BY <2>2, <1>3
  <2> QED BY <2>3 DEF RankAt
<1> QED BY <1>1, <1>3, <1>4, <1>5 DEF Segment, InLine

\* The move whose turn it is stands at one position of the stretch, at first the line's own.
LEMMA NextMoveAt ==
  ASSUME Types, Live, pc = "search", node.left # {}
  PROVE  \E i \in 1..N :
           /\ pvIdx < i /\ i <= pvLast /\ root[i].move = NextMove /\ NextMove \in node.left
           /\ i = CHOOSE k \in DOMAIN root : root[k].line[1] = NextMove
           /\ node.count = 0 => i = pvIdx + 1
<1>1. go \in Searches /\ Lists(root) /\ Node /\ Segment /\ pvIdx \in Nat /\ pvLast \in Nat /\ N \in Nat
  BY ListSize DEF Types, Live
<1>2. \A m \in node.left : \E i \in 1..N : pvIdx < i /\ i <= pvLast /\ root[i].move = m
  BY <1>1 DEF Node
<1>3. NextMove \in node.left
  <2>1. node.left \in SUBSET Moves
    <3>1. \A i \in 1..N : root[i].move \in Moves
      BY <1>1 DEF Lists, Record
    <3> QED BY <1>2, <3>1
  <2>2. IsFiniteSet(node.left) /\ node.left \subseteq Int
    BY <1>1, <2>1, SearchFacts, FS_Subset DEF Moves
  <2>3. \E m \in node.left : \A k \in node.left : m <= k
    BY <2>2, LeastOfFinite
  <2>4. CASE At(pvIdx).move \in node.left
    BY <2>4 DEF NextMove
  <2>5. CASE At(pvIdx).move \notin node.left
    BY <2>3, <2>5 DEF NextMove
  <2> QED BY <2>4, <2>5
<1>4. PICK i \in 1..N : pvIdx < i /\ i <= pvLast /\ root[i].move = NextMove
  BY <1>2, <1>3
<1>5. i = CHOOSE k \in DOMAIN root : root[k].line[1] = NextMove
  <2>1. DOMAIN root = 1..N /\ \A k \in 1..N : root[k].line[1] = root[k].move
    BY <1>1 DEF Lists, SoundMove
  <2>2. \A k \in 1..N : root[k].move = NextMove => k = i
    BY <1>1, <1>4 DEF Lists
  <2> HIDE DEF NextMove
  <2>3. \A k \in DOMAIN root : root[k].line[1] = NextMove <=> k = i
    BY <2>1, <2>2, <1>4
  <2> QED BY <2>1, <2>3
<1>6. ASSUME node.count = 0 PROVE i = pvIdx + 1
  <2>1. pvIdx + 1 \in 1..N /\ pvIdx < pvIdx + 1 /\ pvIdx + 1 <= pvLast
    BY <1>1 DEF Segment, InLine
  <2>2. ~Searched(pvIdx + 1)
    BY <1>1, <1>6, <2>1 DEF Node
  <2>3. root[pvIdx + 1].move \in node.left
    BY <2>1, <2>2 DEF Searched
  <2>4. NextMove = root[pvIdx + 1].move
    BY <2>3 DEF NextMove, At
  <2> QED BY <2>1, <2>4, <1>1, <1>4 DEF Lists
<1> QED BY <1>3, <1>4, <1>5, <1>6

\* A value is a score, and a loss it is below beta for is true of the move.
LEMMA FoundFacts ==
  ASSUME go \in Searches, NEW m \in Moves, NEW alpha, NEW beta, NEW v \in Found(m, alpha, beta)
  PROVE  /\ v \in Scores /\ v # NoScore
         /\ v < beta /\ IsLoss(v) => go.values[m] # 0 /\ go.values[m] <= v
<1>1. v \in Guesses \/ \E k \in Moves : v = go.values[k]
  BY DEF Found
<1>2. v \in Int /\ -VALUE_MATE <= v /\ v <= VALUE_MATE
  BY <1>1, GuessesAreScores, SearchFacts DEF Moves
<1>3. v \in Scores /\ v # NoScore
  BY <1>2, Constants DEF Scores, NoScore
<1> QED BY <1>3 DEF Found

\* A move of the root node is searched: its value joins the best of the node, and
\* whatever is best inside the window belongs to exact entries only.
LEMMA SearchMoveKeeps == IInv /\ SearchMove => IInv'
<1> SUFFICES ASSUME IInv, SearchMove PROVE IInv'
  OBVIOUS
<1>1. /\ pc = "search" /\ pc' = pc /\ ~stop /\ node.left # {} /\ go' = go /\ depth' = depth /\ pvIdx' = pvIdx
      /\ pvFirst' = pvFirst /\ pvLast' = pvLast /\ window' = window /\ last' = last /\ sent' = sent
      /\ wire' = wire /\ stop' = stop
  BY DEF SearchMove
<1>2. Types /\ Wire /\ Live
  BY <1>1 DEF IInv
<1>3. /\ go \in Searches /\ Lists(root) /\ Ranked(root) /\ Segment /\ Node /\ Window /\ Completed /\ Remembered
      /\ pvIdx \in Nat /\ pvFirst \in Nat /\ pvLast \in Nat /\ N \in Nat \ {0}
  BY <1>2, ListSize DEF Types, Live
<1>4. PICK i \in 1..N :
        /\ pvIdx < i /\ i <= pvLast /\ root[i].move = NextMove /\ NextMove \in node.left
        /\ i = CHOOSE k \in DOMAIN root : root[k].line[1] = NextMove
        /\ node.count = 0 => i = pvIdx + 1
  BY <1>1, <1>2, NextMoveAt
<1>5. PICK v \in Found(NextMove, node.alpha, window.beta) :
        /\ root' = [root EXCEPT ![i] = Update(@, v, node.count = 0)]
        /\ node' = [alpha |-> IF v > node.alpha THEN v ELSE node.alpha,
                    best  |-> IF v > node.best THEN v ELSE node.best,
                    left  |-> IF v >= window.beta THEN {} ELSE node.left \ {NextMove},
                    count |-> node.count + 1]
  BY <1>4 DEF SearchMove
<1> DEFINE m == NextMove
           alpha == node.alpha
           beta == window.beta
           best == node.best
<1>6. /\ root \in [1..N -> Record] /\ \A k \in 1..N : root[k] \in Record /\ SoundMove(root[k]) /\ root[k].score \in Scores
      /\ \A k \in 1..N : root[k].move = m => k = i
      /\ m \in Moves
  <2>1. root[i].move \in Moves
    BY <1>3 DEF Lists, Record
  <2> HIDE DEF m
  <2>2. root[i].move = m
    BY <1>4 DEF m
  <2> QED BY <1>3, <2>1, <2>2, ListScores DEF Lists
<1>7. v \in Scores /\ v # NoScore /\ (v < beta /\ IsLoss(v) => go.values[m] # 0 /\ go.values[m] <= v)
  BY <1>3, <1>6, FoundFacts
<1>8. /\ window.alpha \in Bounds /\ beta \in Bounds /\ best \in Bounds /\ node.count \in Nat
      /\ alpha = IF best > window.alpha THEN best ELSE window.alpha
      /\ window.alpha < beta /\ best < beta
  BY <1>1, <1>3 DEF Window, Node
<1>9. /\ v \in Int /\ NoScore < v /\ alpha \in Int /\ beta \in Int /\ best \in Int /\ window.alpha \in Int /\ NoScore \in Int
      /\ NoScore <= best /\ NoScore <= window.alpha /\ alpha \in Bounds /\ alpha < beta /\ NoScore < beta
      /\ VALUE_INFINITE \in Int /\ v < VALUE_INFINITE
  BY <1>7, <1>8, ScoreTypes, Constants DEF Bounds
\* The entry.
<1>10. PICK first \in BOOLEAN : first <=> node.count = 0
  OBVIOUS
<1>11. root' = [root EXCEPT ![i] = Update(root[i], v, first)]
  <2>1. Update(root[i], v, first) = Update(root[i], v, node.count = 0)
    BY <1>10
  <2>2. root' = [root EXCEPT ![i] = Update(root[i], v, node.count = 0)]
    BY <1>5, <1>6
  <2> QED BY <2>1, <2>2
<1>12. /\ Update(root[i], v, first) \in Record /\ SoundMove(Update(root[i], v, first))
       /\ Update(root[i], v, first).move = root[i].move
       /\ Update(root[i], v, first).score = IF first \/ v > node.alpha THEN v ELSE NoScore
       /\ v > node.alpha /\ v < window.beta => ~Inexact(Update(root[i], v, first))
  <2>1. root[i] \in Record /\ SoundMove(root[i])
    BY <1>6
  <2> QED BY <2>1, <1>3, <1>7, <1>8, <1>9, UpdateKeeps
<1>13. /\ root' \in [1..N -> Record] /\ \A k \in 1..N : SoundMove(root'[k]) /\ root'[k].move = root[k].move
       /\ \A k \in 1..N : k # i => root'[k] = root[k]
       /\ root'[i].score = (IF first \/ v > alpha THEN v ELSE NoScore)
       /\ v > alpha /\ v < beta => ~Inexact(root'[i])
  BY <1>6, <1>11, <1>12
<1>p. pvIdx < i /\ i <= pvLast /\ root[i].move = m /\ m \in node.left /\ (node.count = 0 => i = pvIdx + 1)
  BY <1>4, Zenon DEF m
<1> HIDE DEF m
<1>14. Lists(root') /\ (\A k \in 1..N : RankAt(root', k) = RankAt(root, k)) /\ Ranked(root')
  BY <1>3, <1>13, RewrittenLists, SameRanks
<1>15. Lists(root)' /\ Ranked(root)' /\ N' = N /\ Moves' = Moves
  BY <1>1, <1>14, SameSearch
\* The node.
<1>16. /\ node'.alpha = (IF v > alpha THEN v ELSE alpha) /\ node'.best = (IF v > best THEN v ELSE best)
       /\ node'.left = (IF v >= beta THEN {} ELSE node.left \ {m}) /\ node'.count = node.count + 1
  BY <1>5 DEF m
<1>17. /\ node'.best \in Bounds /\ node'.best \in Int /\ node'.count \in Nat /\ node'.count # 0 /\ node'.best # NoScore
       /\ node'.alpha = IF node'.best > window.alpha THEN node'.best ELSE window.alpha
       /\ best <= node'.best /\ v <= node'.best
       /\ node'.left # {} => node'.best < beta
       /\ node'.best < beta => v < beta
  <2>1. node'.best \in Int /\ node'.best \in Bounds
    BY <1>8, <1>9, <1>16, <1>7, ScoreTypes
  <2>2. node'.count \in Nat /\ node'.count # 0
    BY <1>8, <1>16
  <2> QED BY <2>1, <2>2, <1>8, <1>9, <1>16
<1>18. \A k \in 1..N : pvIdx < k /\ k <= pvLast /\ k # i /\ v < beta => (Searched(k)' <=> Searched(k))
  <2> TAKE k \in 1..N
  <2> HAVE pvIdx < k /\ k <= pvLast /\ k # i /\ v < beta
  <2>1. node'.left = node.left \ {m}
    BY <1>9, <1>16
  <2>2. root'[k] = root[k] /\ root[k].move # m
    BY <1>6, <1>13
  <2>3. root'[k].move \notin node'.left <=> root[k].move \notin node.left
    BY <2>1, <2>2
  <2> QED BY <2>3, <1>1, <1>15 DEF Searched
<1>19. ~Searched(i) /\ Searched(i)'
  <2>1. root[i].move = m /\ m \in node.left
    BY <1>p
  <2>2. m \notin node'.left
    BY <1>16
  <2>3. root'[i].move = m
    BY <1>13, <2>1
  <2> QED BY <2>1, <2>2, <2>3, <1>1, <1>p, <1>15 DEF Searched
<1>20. Searched(pvIdx + 1)'
  <2>1. CASE node.count = 0
    <3>1. i = pvIdx + 1
      BY <2>1, <1>p
    <3>2. (pvIdx + 1)' = i
      BY <3>1, <1>1
    <3> QED BY <3>2, <1>19 DEF Searched
  <2>2. CASE node.count # 0
    <3>1. Searched(pvIdx + 1)
      BY <2>2, <1>1, <1>3 DEF Node
    <3>2. node'.left \subseteq node.left
      BY <1>16
    <3> QED BY <3>1, <3>2, <1>1, <1>13, <1>15 DEF Searched
  <2> QED BY <2>1, <2>2
<1>21. \A n \in node'.left : \E k \in 1..N : pvIdx < k /\ k <= pvLast /\ root'[k].move = n
  <2> TAKE n \in node'.left
  <2>1. n \in node.left
    BY <1>16
  <2>2. PICK k \in 1..N : pvIdx < k /\ k <= pvLast /\ root[k].move = n
    BY <2>1, <1>1, <1>3 DEF Node
  <2> QED BY <2>2, <1>13
<1>22. ASSUME node'.best < beta, NEW k \in 1..N, Searched(k)'
       PROVE  /\ root'[k].score <= node'.best
              /\ node'.best > window.alpha /\ root'[k].score = node'.best => ~Inexact(root'[k])
              /\ IsLoss(node'.best) => go.values[root'[k].move] # 0 /\ go.values[root'[k].move] <= node'.best
  <2>0. v < beta /\ pvIdx < k /\ k <= pvLast
    BY <1>1, <1>17, <1>22 DEF Searched
  <2>1. CASE k = i
    <3>1. root'[k].score <= node'.best
      BY <2>1, <1>9, <1>13, <1>17
    <3>2. node'.best > window.alpha /\ root'[k].score = node'.best => v > alpha
      <4>1. SUFFICES ASSUME node'.best > window.alpha, root'[i].score = node'.best, ~(v > alpha) PROVE FALSE
        BY <2>1
      <4>2. first /\ root'[i].score = v
        BY <4>1, <1>13, <1>17, <1>9
      <4>3. best = NoScore
        BY <4>2, <1>10, <1>1, <1>3 DEF Node
      <4> QED BY <4>1, <4>2, <4>3, <1>8, <1>9
    <3>3. IsLoss(node'.best) => IsLoss(v)
      BY <1>9, <1>17, Constants DEF IsLoss, TB_WIN_IN_MAX_PLY
    <3>4. root'[i].move = m
      BY <1>p, <1>13
    <3>5. go.values[m] \in Int
      BY <1>3, <1>6, SearchFacts DEF Moves
    <3>6. IsLoss(node'.best) => go.values[m] # 0 /\ go.values[m] <= node'.best
      BY <3>3, <3>5, <2>0, <1>7, <1>9, <1>17
    <3> QED BY <3>1, <3>2, <3>4, <3>6, <2>0, <2>1, <1>13
  <2>2. CASE k # i
    <3>1. Searched(k) /\ root'[k] = root[k]
      BY <2>0, <2>2, <1>13, <1>18, <1>22
    <3>2. /\ root[k].score <= best
          /\ best > window.alpha /\ root[k].score = best => ~Inexact(root[k])
          /\ IsLoss(best) => go.values[root[k].move] # 0 /\ go.values[root[k].move] <= best
      BY <3>1, <1>1, <1>3, <1>8 DEF Node
    <3>3. root[k].score \in Int /\ go.values[root[k].move] \in Int
      <4>1. root[k].move \in Moves
        BY <1>6, RecordTypes
      <4> QED BY <4>1, <1>3, ListScores, SearchFacts DEF Moves
    <3>4. IsLoss(node'.best) => IsLoss(best)
      BY <1>9, <1>17, Constants DEF IsLoss, TB_WIN_IN_MAX_PLY
    <3>5. node'.best > window.alpha /\ root[k].score = node'.best => best > window.alpha /\ root[k].score = best
      BY <3>2, <3>3, <1>9, <1>17
    <3>6. IsLoss(node'.best) => go.values[root[k].move] # 0 /\ go.values[root[k].move] <= node'.best
      BY <3>2, <3>3, <3>4, <1>9, <1>17
    <3> QED BY <3>1, <3>2, <3>3, <3>5, <3>6, <1>9, <1>17
  <2> QED BY <2>1, <2>2
<1>23. ASSUME node'.best < beta, node'.best > window.alpha PROVE \E k \in 1..N : Searched(k)' /\ root'[k].score = node'.best
  <2>1. CASE v > best
    <3>1. v > alpha /\ node'.best = v
      BY <2>1, <1>8, <1>9, <1>16, <1>23
    <3> QED BY <3>1, <1>13, <1>19
  <2>2. CASE ~(v > best)
    <3>1. node'.best = best
      BY <2>2, <1>16
    <3>2. PICK k \in 1..N : Searched(k) /\ root[k].score = best
      BY <3>1, <1>1, <1>3, <1>23 DEF Node
    <3>3. k # i /\ pvIdx < k /\ k <= pvLast /\ v < beta
      BY <3>2, <1>17, <1>19, <1>23 DEF Searched
    <3> QED BY <3>1, <3>2, <3>3, <1>13, <1>18
  <2> QED BY <2>1, <2>2
<1>24. Node'
  <2>1. (node.best < window.beta)' => (\A k \in 1..N : Searched(k) => root[k].score <= node.best)'
    BY <1>1, <1>15, <1>22
  <2>2. (node.best < window.beta /\ node.best > window.alpha)' =>
           (\A k \in 1..N : Searched(k) /\ root[k].score = node.best => ~Inexact(root[k]))'
    BY <1>1, <1>15, <1>22 DEF Inexact
  <2>3. (node.best < window.beta /\ IsLoss(node.best))' =>
           (\A k \in 1..N : Searched(k) => go.values[root[k].move] # 0 /\ go.values[root[k].move] <= node.best)'
    BY <1>1, <1>15, <1>22
  <2>4. (node.best < window.beta /\ node.best > window.alpha)' =>
           (\E k \in 1..N : Searched(k) /\ root[k].score = node.best)'
    BY <1>1, <1>15, <1>23
  <2>5. (\A n \in node.left : \E k \in 1..N : pvIdx < k /\ k <= pvLast /\ root[k].move = n)'
    BY <1>1, <1>15, <1>21
  <2> QED BY <2>1, <2>2, <2>3, <2>4, <2>5, <1>1, <1>17, <1>20 DEF Node
\* The rest.
<1>25. Types' /\ Wire' /\ Window'
  BY <1>1, <1>2, <1>3 DEF Types, Wire, Shown, Unmarked, Window
<1>26. Segment'
  BY <1>1, <1>3, <1>14, SegmentStays DEF InLine
<1>27. 1 \in 1..N /\ (pvIdx > 0 => root'[1] = root[1]) /\ (root[1].score # NoScore => root'[1].score # NoScore)
  <2>1. 1 \in 1..N /\ (pvIdx > 0 => 1 # i)
    BY <1>3, <1>p
  <2>2. CASE i # 1
    BY <2>1, <2>2, <1>13
  <2>3. CASE i = 1
    <3>1. pvIdx = 0
      BY <2>3, <1>3, <1>p
    <3>2. first
      <4>1. SUFFICES ASSUME node.count # 0 PROVE FALSE
        BY <1>10
      <4>2. Searched(1)
        BY <3>1, <4>1, <1>1, <1>3 DEF Node
      <4> QED BY <4>2, <2>3, <1>19
    <3> QED BY <3>1, <3>2, <2>1, <2>3, <1>7, <1>13
  <2> QED BY <2>2, <2>3
<1>28. Completed'
  <2>1. \A k \in 1..N : k <= pvIdx => root'[k].score # NoScore /\ ~Inexact(root'[k])
    <3> TAKE k \in 1..N
    <3> HAVE k <= pvIdx
    <3>1. k # i /\ root'[k] = root[k]
      BY <1>3, <1>p, <1>13
    <3>2. root[k].score # NoScore /\ ~Inexact(root[k])
      BY <1>1, <1>3 DEF Completed, Running, InLine
    <3> QED BY <3>1, <3>2
  <2>2. pvIdx > 0 => root'[1].score # NoScore /\ Trusted(root'[1].score)
    BY <1>1, <1>3, <1>27 DEF Completed, Running, InLine
  <2>3. (\A k \in 1..N : k <= pvIdx => root[k].score # NoScore /\ ~Inexact(root[k]))'
    BY <2>1, <1>1, <1>15 DEF Inexact
  <2> QED BY <2>2, <2>3, <1>1, SameSearch DEF Completed
<1>29. Remembered'
  <2>1. IsTop(last.line[1])' <=> IsTop(last.line[1])
    BY <1>1 DEF IsTop, Moves
  <2> QED BY <1>1, <1>3, <1>15, <1>27, <2>1, SameSearch DEF Remembered, EndsIn
<1>30. Sent' /\ Settled'
  BY <1>1, <1>2 DEF Live, Sent, Settled
<1> QED BY <1>1, <1>15, <1>24, <1>25, <1>26, <1>28, <1>29, <1>30 DEF IInv, Live

\* ProbCut returns a bound at or above beta: the node is over, and nothing was searched.
LEMMA CutNodeKeeps == IInv /\ CutNode => IInv'
<1> SUFFICES ASSUME IInv, CutNode PROVE IInv'
  OBVIOUS
<1>1. /\ pc = "search" /\ pc' = pc /\ ~stop /\ node.count = 0 /\ go' = go /\ root' = root /\ depth' = depth
      /\ pvIdx' = pvIdx /\ pvFirst' = pvFirst /\ pvLast' = pvLast /\ window' = window /\ last' = last
      /\ sent' = sent /\ wire' = wire /\ stop' = stop
  BY DEF CutNode
<1>2. Types /\ Wire /\ Live
  BY <1>1 DEF IInv
<1>3. go \in Searches /\ Lists(root) /\ Segment /\ Window /\ N' = N /\ Moves' = Moves
      /\ pvIdx \in Nat /\ pvFirst \in Nat /\ pvLast \in Nat
  BY <1>1, <1>2, SameSearch DEF Types, Live
<1>4. PICK v \in Guesses : v >= window.beta /\ node' = [alpha |-> v, best |-> v, left |-> {}, count |-> 0]
  BY DEF CutNode
<1>5. /\ v \in Int /\ v \in Bounds /\ window.alpha \in Int /\ window.beta \in Int /\ window.alpha < window.beta
      /\ v > window.alpha /\ ~(v < window.beta)
  <2>1. v \in Int /\ v \in Bounds
    BY GuessesAreScores, Constants DEF Bounds, NoScore
  <2>2. window.alpha \in Int /\ window.beta \in Int /\ window.alpha < window.beta
    BY <1>1, <1>3 DEF Window, Bounds
  <2> QED BY <2>1, <2>2, <1>4
<1>6. Node'
  <2>1. node'.alpha = v /\ node'.best = v /\ node'.left = {} /\ node'.count = 0
    BY <1>4
  <2> QED BY <2>1, <1>1, <1>5 DEF Node
<1>7. Types' /\ Wire' /\ Window'
  BY <1>1, <1>2, <1>3 DEF Types, Wire, Shown, Unmarked, Window
<1>8. Lists(root)' /\ Ranked(root)'
  BY <1>1, <1>2, SameSearch DEF Live
<1>9. Segment'
  BY <1>1, <1>3, SegmentStays DEF InLine
<1>10. Completed' /\ Sent' /\ Settled'
  <2>1. \A i \in 1..N : Inexact(root[i])' <=> Inexact(root[i])
    BY <1>1 DEF Inexact
  <2> QED BY <1>1, <1>2, <1>3, <2>1, SameSearch DEF Live, Completed, Sent, Settled, Running, InLine
<1>11. Remembered'
  <2>1. IsTop(last.line[1])' <=> IsTop(last.line[1])
    BY <1>1 DEF IsTop, Moves
  <2> QED BY <1>1, <1>2, <1>3, <2>1, SameSearch DEF Live, Remembered, EndsIn
<1> QED BY <1>1, <1>6, <1>7, <1>8, <1>9, <1>10, <1>11 DEF IInv, Live

-----------------------------------------------------------------------------
\* A wider window is a window: below what failed low, above what failed high.
LEMMA WiderWindow ==
  ASSUME window.alpha \in Bounds, window.beta \in Bounds, window.delta \in Int, window.alpha < window.beta,
         window.delta > 0, node.best \in Bounds, node.best # NoScore
  PROVE  /\ Grown(window.delta) \in Int /\ Grown(window.delta) > 0
         /\ node.best <= window.alpha =>
              FailsLow.alpha \in Bounds /\ FailsLow.beta \in Bounds /\ FailsLow.alpha < FailsLow.beta
         /\ node.best >= window.beta =>
              FailsHigh.alpha \in Bounds /\ FailsHigh.beta \in Bounds /\ FailsHigh.alpha < FailsHigh.beta
<1> DEFINE a == window.alpha
           b == window.beta
           d == window.delta
           x == node.best
           low == Low(x - d)
           top == High(x + d)
           mid == IF b - d > a THEN b - d ELSE a
<1>0. /\ VALUE_INFINITE \in Nat /\ VALUE_INFINITE > 0 /\ NoScore = -VALUE_INFINITE
      /\ a \in Int /\ NoScore <= a /\ a <= VALUE_INFINITE /\ b \in Int /\ NoScore <= b /\ b <= VALUE_INFINITE
      /\ a < b /\ d \in Int /\ d > 0 /\ x \in Int /\ NoScore < x /\ x <= VALUE_INFINITE
  BY Constants DEF Bounds, NoScore
<1>1. Grown(d) \in Int /\ Grown(d) > 0
  <2> HIDE DEF d
  <2>1. (47 * d) \div 128 \in Int /\ (47 * d) \div 128 >= 0
    BY <1>0
  <2> HIDE DEF NoScore
  <2> QED BY <1>0, <2>1 DEF Grown
<1>2. /\ FailsLow.alpha = low /\ FailsLow.beta = a
      /\ FailsHigh.alpha = mid /\ FailsHigh.beta = top
  BY DEF FailsLow, FailsHigh
<1> HIDE DEF a, b, d, x
<1>3. x <= a => low \in Bounds /\ a \in Bounds /\ low < a
  BY <1>0 DEF Low, Bounds
<1>4. x >= b => mid \in Bounds /\ top \in Bounds /\ mid < top
  BY <1>0 DEF High, Bounds
<1> QED BY <1>1, <1>2, <1>3, <1>4 DEF a, b, d, x

\* The first stretch holds every move of the best rank.
LEMMA TopStretch ==
  ASSUME go \in Searches, Lists(root), Ranked(root), pvFirst = 0, pvLast \in Nat, 0 < pvLast, pvLast <= N,
         \A i, j \in 1..N : pvFirst < i /\ i <= pvLast /\ pvFirst < j /\ j <= pvLast => RankAt(root, i) = RankAt(root, j),
         pvFirst < pvLast /\ pvLast < N => RankAt(root, pvLast + 1) # RankAt(root, pvLast),
         NEW m \in Moves, IsTop(m)
  PROVE  \E j \in 1..N : j <= pvLast /\ root[j].move = m
<1>1. PICK j \in 1..N : root[j].move = m
  BY DEF Lists
<1>2. N \in Nat \ {0} /\ \A i \in 1..N : RankAt(root, i) \in Int /\ root[i].move \in Moves
  BY ListSize, RecordTypes DEF Lists, RankAt
<1> SUFFICES ASSUME pvLast < j PROVE FALSE
  BY <1>1, <1>2
<1>3. pvLast \in 1..N /\ pvLast + 1 \in 1..N /\ 1 \in 1..N /\ pvLast <= pvLast + 1 /\ pvLast + 1 <= j /\ pvLast < N
  BY <1>2
<1>4. RankAt(root, pvLast) = RankAt(root, 1) /\ RankAt(root, pvLast + 1) # RankAt(root, pvLast)
  BY <1>3
<1>5. RankAt(root, pvLast) >= RankAt(root, pvLast + 1) /\ RankAt(root, pvLast + 1) >= RankAt(root, j)
  BY <1>3 DEF Ranked
<1>6. RankAt(root, 1) <= RankAt(root, j)
  BY <1>1, <1>2, <1>3 DEF IsTop, RankAt
<1> QED BY <1>2, <1>3, <1>4, <1>5, <1>6

\* A sort within one rank: the list stays what it is, and its first entry scores no less.
LEMMA StretchSorted ==
  ASSUME go \in Searches, NEW list, Lists(list), Ranked(list), NEW lo \in 1..N, NEW hi \in lo..N,
         \A i, j \in 1..N : lo <= i /\ i <= hi /\ lo <= j /\ j <= hi => RankAt(list, i) = RankAt(list, j)
  PROVE  /\ Lists(StableSort(list, lo, hi)) /\ Ranked(StableSort(list, lo, hi))
         /\ \A i \in 1..N : RankAt(StableSort(list, lo, hi), i) = RankAt(list, i)
         /\ \A i \in 1..N : i < lo \/ hi < i => StableSort(list, lo, hi)[i] = list[i]
         /\ \A i \in 1..N : \E j \in 1..N : StableSort(list, lo, hi)[i] = list[j] /\ (i <= hi => j <= hi)
         /\ StableSort(list, lo, hi)[1].score >= list[1].score
<1> DEFINE new == StableSort(list, lo, hi)
<1>0. N \in Nat \ {0} /\ lo \in Int /\ hi \in Int /\ 1 <= lo /\ lo <= hi /\ hi <= N
  BY ListSize
<1>1. PICK p \in Rearrangements(N, lo, hi) : SortedBy(list, N, lo, hi, p)
  BY SortedLists
<1>2. new = [k \in 1..N |-> list[p[k]]]
  BY <1>1 DEF SortedBy
<1>3. \A i \in 1..N : RankAt([k \in 1..N |-> list[p[k]]], i) = RankAt(list, i)
  BY <1>0, RearrangedRanks
<1>4. Lists(new)
  BY SortedLists
<1>5. \A i \in 1..N : i < lo \/ hi < i => new[i] = list[i]
  <2> TAKE i \in 1..N
  <2>1. i < lo \/ hi < i => p[i] = i
    BY DEF Rearrangements
  <2>2. new[i] = list[p[i]]
    BY <1>2
  <2> QED BY <2>1, <2>2, Zenon
<1>6. new[1].score >= list[1].score
  <2>1. 1 \in 1..N /\ (lo = 1 \/ 1 < lo) /\ list[1].score \in Int
    BY <1>0, ListScores
  <2>2. CASE 1 < lo
    BY <2>1, <2>2, <1>5
  <2>3. CASE lo = 1
    <3>1. \A i \in 1..N : lo <= i /\ i <= hi => StableSort(list, lo, hi)[lo].score >= list[i].score
      BY SortedFirst
    <3> QED BY <3>1, <2>1, <2>3, <1>0
  <2> QED BY <2>1, <2>2, <2>3
<1>9. ASSUME NEW i \in 1..N PROVE \E j \in 1..N : new[i] = list[j] /\ (i <= hi => j <= hi)
  <2>1. p[i] \in 1..N /\ (i < lo \/ hi < i => p[i] = i) /\ (lo <= i /\ i <= hi => p[i] <= hi)
    BY DEF Rearrangements
  <2>2. new[i] = list[p[i]]
    BY <1>2
  <2>3. i <= hi => p[i] <= hi
    BY <2>1, <1>0
  <2> QED BY <2>1, <2>2, <2>3
<1> HIDE DEF new
<1>7. \A i \in 1..N : RankAt(new, i) = RankAt(list, i)
  BY <1>2, <1>3
<1>8. Ranked(new)
  BY <1>7, SameRanks
<1> QED BY <1>4, <1>5, <1>6, <1>7, <1>8, <1>9 DEF new

\* The node returns: inside the window its best is the exact score of the line's first
\* move; outside it the line is searched again.
LEMMA ReturnNodeKeeps == IInv /\ ReturnNode => IInv'
<1> SUFFICES ASSUME IInv, ReturnNode PROVE IInv'
  OBVIOUS
<1> DEFINE lo == pvIdx + 1
           sorted == StableSort(root, lo, pvLast)
           low == node.best <= window.alpha
           high == node.best >= window.beta
           again == ~stop /\ (low \/ high)
<1>1. /\ pc = "search" /\ (stop \/ node.left = {}) /\ go' = go /\ depth' = depth /\ pvIdx' = pvIdx
      /\ pvFirst' = pvFirst /\ pvLast' = pvLast /\ last' = last /\ sent' = sent /\ stop' = stop
      /\ (root' = sorted /\ wire' = wire) \/ \E w \in Emissions(sorted) : wire' = w /\ root' = Written(sorted, w)
  BY DEF ReturnNode
<1>a. again => /\ pc' = pc
               /\ window' = [alpha |-> (IF low THEN FailsLow ELSE FailsHigh).alpha,
                             beta |-> (IF low THEN FailsLow ELSE FailsHigh).beta, delta |-> Grown(window.delta)]
               /\ node' = [alpha |-> (IF low THEN FailsLow ELSE FailsHigh).alpha, best |-> NoScore,
                           left |-> {sorted[i + 1].move : i \in pvIdx..(pvLast - 1)}, count |-> 0]
  BY DEF ReturnNode
<1>b. ~again => pc' = "lined" /\ window' = window /\ node' = node
  BY DEF ReturnNode
<1>2. Types /\ Wire /\ Live
  BY <1>1 DEF IInv
<1>3. /\ go \in Searches /\ Lists(root) /\ Ranked(root) /\ Segment /\ Node /\ Window /\ Completed /\ Remembered
      /\ pvIdx \in Nat /\ pvFirst \in Nat /\ pvLast \in Nat /\ N \in Nat \ {0}
  BY <1>2, ListSize DEF Types, Live
<1>4. /\ pvFirst <= pvIdx /\ pvIdx < pvLast /\ pvLast <= N
      /\ \A i, j \in 1..N : pvFirst < i /\ i <= pvLast /\ pvFirst < j /\ j <= pvLast => RankAt(root, i) = RankAt(root, j)
      /\ pvFirst < pvLast /\ pvLast < N => RankAt(root, pvLast + 1) # RankAt(root, pvLast)
  BY <1>1, <1>3 DEF Segment, InLine
<1>5. lo \in 1..N /\ pvLast \in lo..N /\ (\A i \in 1..N : lo <= i <=> pvIdx < i)
  BY <1>3, <1>4
<1>6. \A i, j \in 1..N : lo <= i /\ i <= pvLast /\ lo <= j /\ j <= pvLast => RankAt(root, i) = RankAt(root, j)
  BY <1>3, <1>4
<1> HIDE DEF lo
<1>7. /\ Lists(sorted) /\ Ranked(sorted) /\ \A i \in 1..N : RankAt(sorted, i) = RankAt(root, i)
      /\ \A i \in 1..N : i < lo \/ pvLast < i => sorted[i] = root[i]
      /\ sorted[1].score >= root[1].score
  <2>1. go \in Searches /\ Lists(root) /\ Ranked(root) /\ lo \in 1..N /\ pvLast \in lo..N
    BY <1>3, <1>5
  <2> QED BY ONLY <2>1, <1>6, StretchSorted
<1>8. /\ \A i \in 1..N : lo <= i /\ i <= pvLast => sorted[lo].score >= root[i].score
      /\ \E i \in 1..N : lo <= i /\ i <= pvLast /\ sorted[lo] = root[i]
  <2>1. go \in Searches /\ Lists(root) /\ lo \in 1..N /\ pvLast \in lo..N
    BY <1>3, <1>5, Zenon
  <2> HIDE DEF sorted
  <2> QED BY ONLY <2>1, SortedFirst, Zenon DEF sorted
<1> HIDE DEF sorted
\* A report changes no more than lines.
<1>c. /\ Lists(root') /\ \A i \in 1..N : RankAt(root', i) = RankAt(sorted, i) /\ SameBut(root'[i], sorted[i])
      /\ \A i \in DOMAIN wire' : Shown(wire'[i])
  <2>0. \A i \in DOMAIN wire : Shown(wire[i])
    BY <1>2 DEF Wire
  <2>1. CASE root' = sorted /\ wire' = wire
    <3>1. \A i \in 1..N : RankAt(root', i) = RankAt(sorted, i) /\ SameBut(root'[i], sorted[i])
      BY <2>1 DEF SameBut
    <3> QED BY <2>0, <2>1, <3>1, <1>7
  <2>2. CASE \E w \in Emissions(sorted) : wire' = w /\ root' = Written(sorted, w)
    <3>1. go \in Searches /\ Lists(sorted)
      BY <1>3, <1>7
    <3> QED BY ONLY <2>2, <3>1, ListsEmit, Zenon
  <2> QED BY <2>1, <2>2, <1>1
<1>d. Ranked(root') /\ \A i \in 1..N : RankAt(root', i) = RankAt(root, i)
  <2>1. \A i \in 1..N : RankAt(root', i) = RankAt(sorted, i)
    BY <1>c
  <2> QED BY <2>1, <1>3, <1>7, SameRanks
<1>e. \A i \in 1..N : /\ root'[i].move = sorted[i].move /\ root'[i].score = sorted[i].score
                      /\ Inexact(root'[i]) <=> Inexact(sorted[i])
  BY <1>c, SameButShows DEF SameBut
<1>9. Lists(root)' /\ Ranked(root)' /\ N' = N /\ Moves' = Moves
  BY <1>1, <1>c, <1>d, SameSearch
\* A node that is through has a value and no move of the stretch left.
<1>10. ASSUME ~stop
       PROVE  node.left = {} /\ node.best # NoScore /\ node.best \in Bounds
              /\ \A i \in 1..N : lo <= i /\ i <= pvLast => Searched(i)
  <2>1. node.left = {}
    BY <1>1, <1>10
  <2>2. \A i \in 1..N : lo <= i /\ i <= pvLast => Searched(i)
    BY <2>1, <1>5 DEF Searched
  <2>3. Searched(lo)
    BY <2>2, <1>5
  <2>4. node.best # NoScore
    <3>1. CASE node.best < window.beta
      <4>1. node.count # 0
        BY <3>1, <2>3, <1>1, <1>3, <1>5 DEF Node
      <4> QED BY <4>1, <1>1, <1>3 DEF Node
    <3>2. CASE ~(node.best < window.beta)
      BY <3>2, <1>1, <1>3, ScoreTypes DEF Window, Bounds
    <3> QED BY <3>1, <3>2
  <2> QED BY <2>1, <2>2, <2>4, <1>1, <1>3 DEF Node
\* Again in a wider window, or on with the list.
<1>11. Window' /\ Node' /\ pc' \in {"search", "lined"}
  <2>1. CASE again
    <3>1. /\ window.alpha \in Bounds /\ window.beta \in Bounds /\ window.delta \in Int /\ window.alpha < window.beta
          /\ window.delta > 0 /\ node.best \in Bounds /\ node.best # NoScore
      BY <2>1, <1>1, <1>3, <1>10 DEF Window
    <3>2. pc' = "search" /\ window'.delta = Grown(window.delta)
      BY <2>1, <1>a, <1>1
    <3>3. window'.alpha \in Bounds /\ window'.beta \in Bounds /\ window'.alpha < window'.beta
      <4>1. CASE low
        BY <4>1, <3>1, <2>1, <1>a, WiderWindow
      <4>2. CASE ~low
        BY <4>2, <3>1, <2>1, <1>a, WiderWindow
      <4> QED BY <4>1, <4>2
    <3>4. Window'
      BY <3>1, <3>2, <3>3, WiderWindow DEF Window
    <3>5. node' = [alpha |-> window'.alpha, best |-> NoScore,
                   left |-> {root'[i + 1].move : i \in pvIdx'..(pvLast' - 1)}, count |-> 0]
      <4>1. \A i \in pvIdx..(pvLast - 1) : i + 1 \in 1..N
        BY <1>3, <1>4
      <4>2. {sorted[i + 1].move : i \in pvIdx..(pvLast - 1)} = {root'[i + 1].move : i \in pvIdx..(pvLast - 1)}
        BY <4>1, <1>e
      <4> QED BY <4>2, <2>1, <1>a, <1>1
    <3> QED BY <3>2, <3>4, <3>5, <1>1, <1>3, <1>4, <1>9, FreshNode
  <2>2. CASE ~again
    BY <2>2, <1>b DEF Window, Node
  <2> QED BY <2>1, <2>2
<1>12. Types' /\ Wire'
  <2>1. Types'
    BY <1>1, <1>2, <1>11 DEF Types
  <2>2. Wire'
    <3>1. \A i \in DOMAIN wire' : Shown(wire'[i])
      BY <1>c
    <3> QED BY <3>1, <1>1 DEF Wire, Shown, Unmarked
  <2> QED BY <2>1, <2>2
<1>13. Segment'
  BY <1>1, <1>3, <1>c, <1>d, SegmentStays DEF InLine
\* Inside the window.
<1>14. ASSUME ~stop, pc' = "lined"
       PROVE  /\ sorted[lo].score # NoScore /\ ~Inexact(sorted[lo])
              /\ pvIdx = 0 => Trusted(sorted[1].score)
  <2>1. ~low /\ ~high
    BY <1>14, <1>1, <1>a
  <2>2. /\ window.alpha \in Int /\ window.beta \in Int /\ node.best \in Int /\ NoScore \in Int /\ NoScore <= window.alpha
        /\ window.alpha < node.best /\ node.best < window.beta
    <3>1. window.alpha \in Bounds /\ window.beta \in Bounds /\ node.best \in Bounds
      BY <1>1, <1>3, <1>10, <1>14 DEF Window
    <3> QED BY <3>1, <2>1, ScoreTypes DEF Bounds
  <2>3. /\ \A i \in 1..N : Searched(i) => root[i].score <= node.best
        /\ \E i \in 1..N : Searched(i) /\ root[i].score = node.best
        /\ \A i \in 1..N : Searched(i) /\ root[i].score = node.best => ~Inexact(root[i])
        /\ IsLoss(node.best) => \A i \in 1..N : Searched(i) =>
             go.values[root[i].move] # 0 /\ go.values[root[i].move] <= node.best
    BY <2>2, <1>1, <1>3 DEF Node
  <2>4. PICK i \in 1..N : lo <= i /\ i <= pvLast /\ sorted[lo] = root[i]
    BY <1>8
  <2>5. PICK j \in 1..N : lo <= j /\ j <= pvLast /\ root[j].score = node.best
    BY <2>3, <1>5 DEF Searched
  <2>6. root[i].score \in Int /\ Searched(i)
    BY <2>4, <1>3, <1>10, <1>14, ListScores
  <2>7. sorted[lo].score = node.best
    <3>1. root[i].score <= node.best
      BY <2>3, <2>6
    <3>2. root[i].score >= node.best
      BY <2>4, <2>5, <1>8
    <3> QED BY <3>1, <3>2, <2>2, <2>4, <2>6
  <2>8. sorted[lo].score # NoScore /\ ~Inexact(sorted[lo])
    BY <2>2, <2>3, <2>4, <2>6, <2>7
  <2>9. ASSUME pvIdx = 0, IsLoss(node.best), NEW m \in Moves, IsTop(m)
        PROVE  go.values[m] # 0 /\ go.values[m] <= node.best
    <3>1. pvFirst = 0 /\ 0 < pvLast
      BY <2>9, <1>3, <1>4
    <3>2. PICK k \in 1..N : k <= pvLast /\ root[k].move = m
      BY <3>1, <2>9, <1>3, <1>4, TopStretch
    <3>3. Searched(k)
      BY <3>2, <2>9, <1>3, <1>5, <1>10, <1>14
    <3> QED BY <3>2, <3>3, <2>3, <2>9
  <2>10. pvIdx = 0 => Trusted(sorted[1].score)
    <3> SUFFICES ASSUME pvIdx = 0 PROVE Trusted(sorted[1].score)
      OBVIOUS
    <3>1. lo = 1
      BY DEF lo
    <3> QED BY <3>1, <2>7, <2>9 DEF Trusted, Proven
  <2> QED BY <2>8, <2>10
<1>15. \A i \in 1..N : i <= pvIdx => root'[i].score = root[i].score /\ (Inexact(root'[i]) <=> Inexact(root[i]))
  BY <1>3, <1>7, <1>e DEF lo
<1>16. 1 \in 1..N /\ (pvIdx > 0 => root'[1].score = root[1].score) /\ (root[1].score # NoScore => root'[1].score # NoScore)
  <2>1. 1 \in 1..N /\ (pvIdx > 0 => 1 <= pvIdx)
    BY <1>3
  <2>2. root[1].score \in Int /\ sorted[1].score \in Int /\ NoScore \in Int
        /\ (root[1].score # NoScore => NoScore < root[1].score)
    BY <2>1, <1>3, <1>7, ListScores, ScoreTypes
  <2>3. root[1].score # NoScore => sorted[1].score # NoScore
    BY <2>2, <1>7
  <2> QED BY <2>1, <2>3, <1>15, <1>e
<1>17. Completed'
  <2>1. (~stop)' => (\A k \in 1..N : k <= pvIdx => root[k].score # NoScore /\ ~Inexact(root[k]))'
    BY <1>1, <1>3, <1>9, <1>15 DEF Completed, Running, InLine, Inexact
  <2>2. pvIdx > 0 => root'[1].score # NoScore /\ Trusted(root'[1].score)
    BY <1>1, <1>3, <1>16 DEF Completed, Running, InLine
  <2>3. (~stop /\ pc = "lined")' => (root[pvIdx + 1].score # NoScore /\ ~Inexact(root[pvIdx + 1]))'
    <3>1. lo \in 1..N /\ lo = pvIdx + 1
      BY <1>5 DEF lo
    <3>2. ~stop /\ pc' = "lined" => root'[lo].score # NoScore /\ ~Inexact(root'[lo])
      BY <3>1, <1>14, <1>e
    <3> QED BY <3>1, <3>2, <1>1 DEF Inexact
  <2>4. (~stop /\ pc = "lined" /\ pvIdx = 0)' => Trusted(root'[1].score)
    BY <1>1, <1>14, <1>16, <1>e
  <2>5. pc' \notin {"iterated", "sorted", "shown"}
    BY <1>11
  <2> QED BY <2>1, <2>2, <2>3, <2>4, <2>5, <1>1, SameSearch DEF Completed
<1>18. Remembered'
  <2>1. IsTop(last.line[1])' <=> IsTop(last.line[1])
    BY <1>1 DEF IsTop, Moves
  <2> QED BY <1>1, <1>3, <1>9, <1>16, <2>1, SameSearch DEF Remembered, EndsIn
<1>19. Sent' /\ Settled'
  BY <1>1, <1>2, <1>11 DEF Live, Sent, Settled
<1>20. pc' # "answered"
  BY <1>11
<1> QED BY <1>9, <1>11, <1>12, <1>13, <1>17, <1>18, <1>19, <1>20 DEF IInv, Live

-----------------------------------------------------------------------------
\* What is proven of a score is proven of a better one.
LEMMA TrustRises ==
  ASSUME go \in Searches, NEW v \in Int, NEW w \in Int, v <= w, Trusted(v)
  PROVE  Trusted(w)
<1> SUFFICES ASSUME IsLoss(w), NEW m \in Moves, IsTop(m) PROVE go.values[m] # 0 /\ go.values[m] <= w
  BY DEF Trusted, Proven
<1>1. IsLoss(v)
  BY Constants DEF IsLoss, TB_WIN_IN_MAX_PLY
<1>2. go.values[m] # 0 /\ go.values[m] <= v
  BY <1>1 DEF Trusted, Proven
<1>3. go.values[m] \in Int
  BY SearchFacts DEF Moves
<1> QED BY <1>2, <1>3

\* The line ends: its move goes where its score puts it among those of its rank, and
\* the first of the list scores no less than before.
LEMMA EndLineKeeps == IInv /\ EndLine => IInv'
<1> SUFFICES ASSUME IInv, EndLine PROVE IInv'
  OBVIOUS
<1> DEFINE lo == pvFirst + 1
           hi == pvIdx + 1
           mid == AfterAbort(root)
           sorted == StableSort(mid, lo, hi)
<1>1. /\ pc = "lined" /\ root' = sorted /\ go' = go /\ depth' = depth /\ pvFirst' = pvFirst /\ pvLast' = pvLast
      /\ pvIdx' = pvIdx /\ last' = last /\ sent' = sent /\ wire' = wire /\ stop' = stop /\ pc' = "sorted"
  BY DEF EndLine
<1>2. Types /\ Wire /\ Live
  BY <1>1 DEF IInv
<1>3. /\ go \in Searches /\ Lists(root) /\ Ranked(root) /\ Segment /\ Completed /\ Remembered /\ Sent
      /\ pvIdx \in Nat /\ pvFirst \in Nat /\ pvLast \in Nat /\ N \in Nat \ {0} /\ Lines \in 1..N
  BY <1>2, ListSize, LinesBounds DEF Types, Live
<1>4. /\ pvFirst <= pvIdx /\ pvIdx < pvLast /\ pvLast <= N /\ pvIdx < Lines
      /\ \A i, j \in 1..N : pvFirst < i /\ i <= pvLast /\ pvFirst < j /\ j <= pvLast => RankAt(root, i) = RankAt(root, j)
      /\ pvFirst < pvLast /\ pvLast < N => RankAt(root, pvLast + 1) # RankAt(root, pvLast)
  BY <1>1, <1>3 DEF Segment, InLine
<1>5. pvIdx < N /\ lo \in 1..N /\ hi \in lo..N /\ hi <= Lines /\ hi \in Nat /\ hi > 0
  BY <1>3, <1>4
<1>6. /\ Lists(mid) /\ (\A i \in 1..N : RankAt(mid, i) = RankAt(root, i))
      /\ (\A i \in 1..N : i <= pvIdx => mid[i] = root[i])
      /\ (~stop \/ pvIdx = 0 => mid = root)
  BY <1>3, <1>5, AbortKeeps
<1> HIDE DEF mid
<1>7. Ranked(mid)
  BY <1>3, <1>6, SameRanks
<1>8. \A i, j \in 1..N : lo <= i /\ i <= hi /\ lo <= j /\ j <= hi => RankAt(mid, i) = RankAt(mid, j)
  <2> TAKE i, j \in 1..N
  <2> HAVE lo <= i /\ i <= hi /\ lo <= j /\ j <= hi
  <2>1. pvFirst < i /\ i <= pvLast /\ pvFirst < j /\ j <= pvLast
    BY <1>3, <1>4
  <2> QED BY <2>1, <1>4, <1>6
<1>9. /\ Lists(sorted) /\ Ranked(sorted) /\ (\A i \in 1..N : RankAt(sorted, i) = RankAt(mid, i))
      /\ (\A i \in 1..N : \E j \in 1..N : sorted[i] = mid[j] /\ (i <= hi => j <= hi))
      /\ sorted[1].score >= mid[1].score
  <2> HIDE DEF lo, hi
  <2> QED BY <1>3, <1>5, <1>6, <1>7, <1>8, StretchSorted, SMTT(30)
<1> HIDE DEF sorted
<1>10. Lists(root)' /\ Ranked(root)' /\ N' = N /\ Moves' = Moves /\ Lines' = Lines
  BY <1>1, <1>3, <1>9, SameSearch, SameLines
<1>11. 1 \in 1..N /\ root'[1].score >= root[1].score /\ root[1].score \in Int /\ root'[1].score \in Int
       /\ (root[1].score # NoScore => root'[1].score # NoScore)
  <2>1. 1 \in 1..N /\ (pvIdx = 0 \/ 1 <= pvIdx)
    BY <1>3
  <2>2. mid[1] = root[1]
    BY <2>1, <1>6
  <2>3. root[1].score \in Scores /\ sorted[1].score \in Scores
    BY <2>1, <1>3, <1>9, ListScores
  <2>4. root[1].score \in Int /\ sorted[1].score \in Int /\ NoScore \in Int
        /\ (root[1].score # NoScore => NoScore < root[1].score)
    BY <2>3, ScoreTypes
  <2> QED BY <2>1, <2>2, <2>4, <1>1, <1>9
<1>12. Types' /\ Wire'
  BY <1>1, <1>2 DEF Types, Wire, Shown, Unmarked
<1>13. Segment'
  <2>1. \A i \in 1..N : RankAt(root', i) = RankAt(root, i)
    BY <1>1, <1>6, <1>9
  <2>2. Lists(root')
    BY <1>1, <1>9
  <2> QED BY <2>1, <2>2, <1>1, <1>3, SegmentStays DEF InLine
<1>14. Window' /\ Node' /\ Sent' /\ Settled'
  BY <1>1, <1>3 DEF Window, Node, Sent, Settled
\* The line's own move was the last without an exact score.
<1>16. ASSUME ~stop, NEW i \in 1..N, i <= hi PROVE root'[i].score # NoScore /\ ~Inexact(root'[i])
  <2>1. PICK j \in 1..N : sorted[i] = mid[j] /\ j <= hi
    BY <1>9, <1>16
  <2>2. mid[j] = root[j]
    BY <1>6, <1>16
  <2>3. j <= pvIdx \/ j = pvIdx + 1
    BY <2>1, <1>3
  <2>4. root[j].score # NoScore /\ ~Inexact(root[j])
    BY <2>3, <1>1, <1>3, <1>16 DEF Completed, Running, InLine
  <2> QED BY <2>1, <2>2, <2>4, <1>1
<1>17. pvIdx > 0 \/ ~stop => root[1].score # NoScore /\ Trusted(root[1].score)
  <2>1. CASE pvIdx > 0
    BY <2>1, <1>1, <1>3 DEF Completed, Running, InLine
  <2>2. CASE pvIdx = 0
    <3>1. pvIdx + 1 = 1
      BY <2>2
    <3> QED BY <2>2, <3>1, <1>1, <1>3 DEF Completed
  <2> QED BY <2>1, <2>2, <1>3
<1>18. Completed'
  <2>1. (~stop)' => (\A k \in 1..N : k <= pvIdx + 1 => root[k].score # NoScore /\ ~Inexact(root[k]))'
    BY <1>1, <1>10, <1>16 DEF Inexact
  <2>2. pvIdx > 0 \/ ~stop => root'[1].score # NoScore /\ Trusted(root'[1].score)
    BY <1>3, <1>11, <1>17, TrustRises
  <2>3. \A k \in 1..N : k <= pvIdx => k <= pvIdx + 1
    BY <1>3
  <2> QED BY <2>1, <2>2, <2>3, <1>1, <1>10, SameSearch DEF Completed
<1>19. Remembered'
  <2>1. IsTop(last.line[1])' <=> IsTop(last.line[1])
    BY <1>1 DEF IsTop, Moves
  <2> QED BY <1>1, <1>3, <1>10, <1>11, <2>1, SameSearch DEF Remembered, EndsIn
<1> QED BY <1>1, <1>10, <1>12, <1>13, <1>14, <1>18, <1>19 DEF IInv, Live

\* The list is reported unless the stop is seen first: its last report is of exact entries.
LEMMA ShowLineKeeps == IInv /\ ShowLine => IInv'
<1> SUFFICES ASSUME IInv, ShowLine PROVE IInv'
  OBVIOUS
<1>1. /\ pc = "sorted" /\ pc' = "shown" /\ go' = go /\ depth' = depth /\ pvIdx' = pvIdx /\ pvFirst' = pvFirst
      /\ pvLast' = pvLast /\ last' = last /\ stop' = stop
      /\ \/ root' = root /\ wire' = wire /\ sent' = sent
         \/ /\ ~stop /\ sent' = (pvIdx + 1 = Lines)
            /\ \E w \in Emissions(root) : wire' = w /\ root' = Written(root, w)
  BY DEF ShowLine
<1>2. Types /\ Wire /\ Live
  BY <1>1 DEF IInv
<1>3. /\ go \in Searches /\ Lists(root) /\ Ranked(root) /\ Segment /\ Completed /\ Remembered /\ ~sent
      /\ pvIdx \in Nat /\ pvFirst \in Nat /\ pvLast \in Nat /\ N \in Nat \ {0} /\ 1 \in 1..N
  BY <1>1, <1>2, ListSize DEF Types, Live, Sent
<1>4. /\ Lists(root') /\ \A i \in 1..N : RankAt(root', i) = RankAt(root, i) /\ SameBut(root'[i], root[i])
      /\ \A i \in DOMAIN wire' : Shown(wire'[i])
      /\ sent' => /\ ~stop /\ pvIdx + 1 = Lines /\ 1 \in DOMAIN wire'
                  /\ root[1].score # NoScore =>
                       ShownAs(wire'[1], root'[1]) /\ (wire'[1].bound # "" => Inexact(root[1]))
  <2>0. \A i \in DOMAIN wire : Shown(wire[i])
    BY <1>2 DEF Wire
  <2>1. CASE root' = root /\ wire' = wire /\ sent' = sent
    <3>1. \A i \in 1..N : RankAt(root', i) = RankAt(root, i) /\ SameBut(root'[i], root[i])
      BY <2>1 DEF SameBut
    <3> QED BY <2>0, <2>1, <3>1, <1>3
  <2>2. CASE /\ ~stop /\ sent' = (pvIdx + 1 = Lines)
             /\ \E w \in Emissions(root) : wire' = w /\ root' = Written(root, w)
    <3>1. PICK w \in Emissions(root) : wire' = w /\ root' = Written(root, w)
      BY <2>2
    <3>2. /\ Lists(root') /\ \A i \in 1..N : RankAt(root', i) = RankAt(root, i) /\ SameBut(root'[i], root[i])
          /\ (\A i \in DOMAIN wire' : Shown(wire'[i])) /\ 1 \in DOMAIN wire'
          /\ root[1].score # NoScore =>
               ShownAs(wire'[1], root'[1]) /\ (wire'[1].bound # "" => Inexact(root[1]))
      <4>1. go \in Searches /\ Lists(root)
        BY <1>3
      <4> QED BY ONLY <3>1, <4>1, ListsEmit, Zenon
    <3> QED BY <2>2, <3>2
  <2> QED BY <2>1, <2>2, <1>1
<1>5. /\ Ranked(root')
      /\ \A i \in 1..N : root'[i].score = root[i].score /\ (Inexact(root'[i]) <=> Inexact(root[i]))
  <2>1. Ranked(root')
    BY <1>3, <1>4, SameRanks
  <2> QED BY <2>1, <1>4, SameButShows DEF SameBut
<1>6. Lists(root)' /\ Ranked(root)' /\ N' = N /\ Moves' = Moves /\ Lines' = Lines
  BY <1>1, <1>3, <1>4, <1>5, SameSearch, SameLines
<1>7. Types' /\ Wire'
  <2>1. sent' \in BOOLEAN
    BY <1>1, <1>2 DEF Types
  <2> QED BY <2>1, <1>1, <1>2, <1>4 DEF Types, Wire, Shown, Unmarked
<1>8. Segment'
  BY <1>1, <1>3, <1>4, SegmentStays DEF InLine
<1>9. Window' /\ Node' /\ Settled'
  BY <1>1 DEF Window, Node, Settled
<1>10. Completed'
  <2>1. (\A i \in 1..N : Inexact(root[i])' <=> Inexact(root'[i])) /\ (~stop)' = ~stop
    BY <1>1 DEF Inexact
  <2>2. Trusted(root'[1].score) <=> Trusted(root[1].score)
    BY <1>3, <1>5
  <2> QED BY <2>1, <2>2, <1>1, <1>3, <1>5, <1>6, SameSearch DEF Completed, Running, InLine
<1>11. Remembered'
  <2>1. IsTop(last.line[1])' <=> IsTop(last.line[1])
    BY <1>1 DEF IsTop, Moves
  <2> QED BY <1>1, <1>3, <1>5, <1>6, <2>1, SameSearch DEF Remembered, EndsIn
<1>12. Sent'
  <2> SUFFICES ASSUME sent' PROVE Sent'
    BY DEF Sent
  <2>a. ~stop
    BY <1>4, Zenon
  <2>1. 1 <= pvIdx + 1 /\ ~stop
    BY <2>a, <1>3
  <2>2. root[1].score # NoScore /\ ~Inexact(root[1]) /\ Trusted(root[1].score)
    BY <2>1, <1>1, <1>3 DEF Completed
  <2>3. 1 \in DOMAIN wire' /\ wire'[1].bound = "" /\ ShownAs(wire'[1], root'[1]) /\ pvIdx + 1 = Lines
    BY <2>2, <1>4
  <2>4. (ShownAs(wire[1], root[1]))' <=> ShownAs(wire'[1], root'[1])
    BY <1>1 DEF ShownAs, Displayed, Tabled, Kept
  <2>5. Inexact(root[1])' <=> Inexact(root'[1])
    BY DEF Inexact
  <2> QED BY <2>2, <2>3, <2>4, <2>5, <1>1, <1>3, <1>5, <1>6, SameSearch DEF Sent
<1> QED BY <1>1, <1>6, <1>7, <1>8, <1>9, <1>10, <1>11, <1>12 DEF IInv, Live

\* The next line, or the end of the iteration.
LEMMA LeaveLineKeeps == IInv /\ LeaveLine => IInv'
<1> SUFFICES ASSUME IInv, LeaveLine PROVE IInv'
  OBVIOUS
<1> DEFINE hi == pvIdx + 1
<1>1. /\ pc = "shown" /\ go' = go /\ root' = root /\ depth' = depth /\ pvFirst' = pvFirst /\ pvLast' = pvLast
      /\ last' = last /\ sent' = sent /\ wire' = wire /\ stop' = stop
      /\ pc' = (IF stop \/ hi = Lines THEN "iterated" ELSE "line") /\ pvIdx' = (IF stop THEN pvIdx ELSE hi)
  BY DEF LeaveLine
<1>2. Types /\ Wire /\ Live
  BY <1>1 DEF IInv
<1>3. /\ go \in Searches /\ Lists(root) /\ Segment /\ Completed /\ Remembered /\ Sent
      /\ pvIdx \in Nat /\ pvFirst \in Nat /\ pvLast \in Nat /\ N \in Nat \ {0} /\ Lines \in 1..N /\ 1 \in 1..N
  BY <1>1, <1>2, ListSize, LinesBounds DEF Types, Live
<1>4. /\ pvFirst <= pvIdx /\ pvIdx < pvLast /\ pvLast <= N /\ pvIdx < Lines
      /\ \A i, j \in 1..N : pvFirst < i /\ i <= pvLast /\ pvFirst < j /\ j <= pvLast => RankAt(root, i) = RankAt(root, j)
      /\ pvFirst < pvLast /\ pvLast < N => RankAt(root, pvLast + 1) # RankAt(root, pvLast)
  BY <1>1, <1>3 DEF Segment, InLine
<1>5. Lists(root)' /\ Ranked(root)' /\ N' = N /\ Moves' = Moves /\ Lines' = Lines
  BY <1>1, <1>2, <1>3, SameSearch, SameLines DEF Live
<1>6. pvIdx' \in Nat /\ pc' \in {"line", "iterated"} /\ (pc' = "line" => ~stop /\ pvIdx' = hi /\ hi < Lines)
      /\ (~stop => pvIdx' = hi /\ pvIdx' > 0)
  <2>1. pc' = "line" => ~stop /\ hi # Lines
    BY <1>1
  <2>2. Lines \in Int
    BY <1>3
  <2> QED BY <2>1, <2>2, <1>1, <1>3, <1>4
<1>7. Types' /\ Wire'
  BY <1>1, <1>2, <1>6 DEF Types, Wire, Shown, Unmarked
<1>8. Segment'
  <2> SUFFICES ASSUME pc' = "line" PROVE Segment'
    BY <1>6 DEF Segment, InLine
  <2>1. pvFirst <= hi /\ hi <= pvLast /\ hi < Lines /\ pvIdx' = hi
    BY <1>3, <1>4, <1>6
  <2>2. \A i \in 1..N : RankAt(root, i)' = RankAt(root, i)
    BY <1>1 DEF RankAt
  <2>3. (pvFirst < pvLast /\ pvLast < N => RankAt(root, pvLast + 1) # RankAt(root, pvLast))'
    BY <1>1, <1>4, <1>5 DEF RankAt
  <2>4. \A i, j \in 1..N : pvFirst < i /\ i <= pvLast /\ pvFirst < j /\ j <= pvLast =>
          RankAt(root, i)' = RankAt(root, j)'
    BY <2>2, <1>4
  <2> QED BY <2>1, <2>3, <2>4, <1>1, <1>4, <1>5 DEF Segment, InLine
<1>9. Window' /\ Node' /\ Settled' /\ pc' # "answered"
  BY <1>6 DEF Window, Node, Settled
<1>10. Completed'
  <2>1. \A i \in 1..N : Inexact(root[i])' <=> Inexact(root[i])
    BY <1>1 DEF Inexact
  <2>2. ~stop => \A i \in 1..N : i <= pvIdx' => root[i].score # NoScore /\ ~Inexact(root[i])
    BY <1>1, <1>3, <1>6 DEF Completed
  <2>3. pvIdx' > 0 => root[1].score # NoScore /\ Trusted(root[1].score)
    <3>1. CASE stop
      BY <3>1, <1>1, <1>3 DEF Completed, Running, InLine
    <3>2. CASE ~stop
      <4>1. 1 <= pvIdx + 1
        BY <1>3
      <4> QED BY <3>2, <4>1, <1>1, <1>3 DEF Completed
    <3> QED BY <3>1, <3>2
  <2> QED BY <2>1, <2>2, <2>3, <1>1, <1>5, <1>6, SameSearch DEF Completed
<1>11. Remembered'
  <2>1. IsTop(last.line[1])' <=> IsTop(last.line[1])
    BY <1>1 DEF IsTop, Moves
  <2> QED BY <1>1, <1>3, <1>5, <2>1, SameSearch DEF Remembered, EndsIn
<1>12. Sent'
  <2>1. (ShownAs(wire[1], root[1]))' <=> ShownAs(wire[1], root[1])
    BY <1>1 DEF ShownAs, Displayed, Tabled, Kept
  <2>2. Inexact(root[1])' <=> Inexact(root[1])
    BY <1>1 DEF Inexact
  <2>3. sent => hi = Lines /\ pc' = "iterated"
    BY <1>1, <1>3 DEF Sent
  <2> QED BY <2>1, <2>2, <2>3, <1>1, <1>3, SameSearch DEF Sent
<1> QED BY <1>5, <1>7, <1>8, <1>9, <1>10, <1>11, <1>12 DEF IInv, Live

-----------------------------------------------------------------------------
\* The moves of the best rank head the list.
LEMMA TopHeads ==
  ASSUME go \in Searches, Lists(root), Ranked(root)
  PROVE  /\ IsTop(root[1].move)
         /\ \A at \in 1..N : IsTop(root[at].move) => \A i \in 1..N : i <= at => RankAt(root, i) = RankAt(root, 1)
<1>1. N \in Nat \ {0} /\ \A i \in 1..N : RankAt(root, i) \in Int /\ root[i].move \in Moves
  BY ListSize, RecordTypes DEF Lists, RankAt
<1>2. 1 \in 1..N /\ \A i \in 1..N : 1 <= i
  BY <1>1
<1>3. IsTop(root[1].move)
  <2> SUFFICES ASSUME NEW k \in Moves PROVE go.ranks[k] <= go.ranks[root[1].move]
    BY DEF IsTop
  <2>1. PICK j \in 1..N : root[j].move = k
    BY DEF Lists
  <2>2. RankAt(root, 1) >= RankAt(root, j)
    BY <1>2 DEF Ranked
  <2> QED BY <2>1, <2>2, <1>1, <1>2 DEF RankAt
<1>4. ASSUME NEW at \in 1..N, IsTop(root[at].move), NEW i \in 1..N, i <= at PROVE RankAt(root, i) = RankAt(root, 1)
  <2>1. RankAt(root, 1) >= RankAt(root, i) /\ RankAt(root, i) >= RankAt(root, at)
    BY <1>2, <1>4 DEF Ranked
  <2>2. RankAt(root, 1) <= RankAt(root, at)
    BY <1>1, <1>2, <1>4 DEF IsTop, RankAt
  <2> QED BY <2>1, <2>2, <1>1, <1>2
<1> QED BY <1>3, <1>4

\* A move of the best rank brought to the front with a line and a score of its own.
Restored(rm, line, score) ==
  [rm EXCEPT !.score = score, !.uci = score, !.line = line, !.lower = FALSE, !.upper = FALSE]
LEMMA RollbackKeeps ==
  ASSUME go \in Searches, Lists(root), Ranked(root), NEW line \in Seq(Int), line # <<>>, line[1] \in Moves, IsTop(line[1]),
         NEW score \in Scores, score # NoScore, EndsIn(line, score),
         NEW new, new = [MoveToFront(root, line[1]) EXCEPT ![1] = Restored(@, line, score)]
  PROVE  Lists(new) /\ Ranked(new) /\ new[1].score = score /\ ~Inexact(new[1])
<1> DEFINE list == MoveToFront(root, line[1])
<1>0. /\ N \in Nat \ {0} /\ 1 \in 1..N /\ DOMAIN root = 1..N
      /\ \A i \in 1..N : root[i].line[1] = root[i].move
      /\ \A i, j \in 1..N : root[i].move = root[j].move => i = j
  BY ListSize DEF Lists, SoundMove
<1>1. PICK at \in 1..N : root[at].move = line[1]
  BY DEF Lists
<1>2. PICK p \in Rearrangements(N, 1, at) : p[1] = at /\ list = [k \in 1..N |-> root[p[k]]]
  <2>1. N \in Nat /\ DOMAIN root = 1..N /\ at \in 1..N /\ \A i, j \in 1..N : root[i].line[1] = root[j].line[1] => i = j
    BY <1>0
  <2>2. PICK p \in Rearrangements(N, 1, at) : FrontedBy(root, N, at, p)
    <3> HIDE DEF N
    <3> QED BY ONLY <2>1, FrontRearranges
  <2>3. root[at].line[1] = line[1]
    BY <1>0, <1>1
  <2> QED BY <2>2, <2>3 DEF FrontedBy
<1>3. \A i, j \in 1..N : 1 <= i /\ i <= at /\ 1 <= j /\ j <= at => RankAt(root, i) = RankAt(root, j)
  BY <1>1, TopHeads
<1>4. \A i \in 1..N : RankAt(list, i) = RankAt(root, i)
  <2>1. go \in Searches /\ 1 \in Int /\ at \in Int
    BY <1>0
  <2>2. \A i \in 1..N : RankAt([k \in 1..N |-> root[p[k]]], i) = RankAt(root, i)
    BY <2>1, <1>3, RearrangedRanks
  <2> QED BY <1>2, <2>2
<1>5. Lists(list)
  BY <1>2, RearrangedLists
<1>6. list[1].move = line[1]
  BY <1>0, <1>1, <1>2
<1>7. new = [list EXCEPT ![1] = Restored(list[1], line, score)]
  BY <1>0
<1> HIDE DEF list
<1>8. list \in [1..N -> Record] /\ \A i \in 1..N : list[i] \in Record /\ SoundMove(list[i])
  BY <1>5 DEF Lists
<1>9. /\ Restored(list[1], line, score) \in Record /\ SoundMove(Restored(list[1], line, score))
      /\ Restored(list[1], line, score).move = list[1].move /\ Restored(list[1], line, score).score = score
      /\ ~Inexact(Restored(list[1], line, score))
  <2> DEFINE x == Restored(list[1], line, score)
  <2>0. list[1] \in Record /\ SoundMove(list[1]) /\ score \in Bounds /\ Len(line) > 0
    BY <1>0, <1>8, ScoreTypes
  <2>1. x \in Record /\ x.move = list[1].move
    BY <2>0 DEF Restored, Record
  <2>2. /\ x.score = score /\ x.uci = score /\ x.line = line /\ ~x.lower /\ ~x.upper
        /\ x.prev = list[1].prev /\ x.prevLine = list[1].prevLine
    BY <2>0 DEF Restored, Record
  <2> HIDE DEF x
  <2>3. SoundMove(x)
    BY <2>0, <2>1, <2>2, <1>6 DEF SoundMove, EndsIn
  <2> QED BY <2>1, <2>2, <2>3 DEF x, Inexact
<1>10. /\ new \in [1..N -> Record] /\ new[1] = Restored(list[1], line, score)
       /\ \A i \in 1..N : SoundMove(new[i]) /\ new[i].move = list[i].move
  <2> DEFINE x == Restored(list[1], line, score)
  <2>1. x \in Record /\ SoundMove(x) /\ x.move = list[1].move
    BY <1>9
  <2> HIDE DEF x
  <2>2. new = [list EXCEPT ![1] = x]
    BY <1>7 DEF x
  <2>3. new \in [1..N -> Record] /\ new[1] = x /\ \A i \in 1..N : i # 1 => new[i] = list[i]
    <3>1. list \in [1..N -> Record] /\ 1 \in 1..N /\ x \in Record
      BY <2>1, <1>0, <1>8
    <3> QED BY ONLY <3>1, <2>2
  <2> QED BY <2>1, <2>3, <1>8 DEF x
<1>11. Lists(new) /\ \A i \in 1..N : RankAt(new, i) = RankAt(list, i)
  BY <1>5, <1>10, RewrittenLists
<1>12. Ranked(new)
  BY <1>4, <1>11, SameRanks, SMTT(30)
<1> QED BY <1>9, <1>10, <1>11, <1>12

\* A mate is decisive, and so is anything as far from zero.
LEMMA MatesDecide ==
  ASSUME NEW v \in Int, IsMate(v) \/ IsMated(v), NEW w \in Int, Abs(w) >= Abs(v)
  PROVE  Decisive(w)
BY Constants DEF IsMate, IsMated, Abs, Decisive, IsWin, IsLoss, TB_WIN_IN_MAX_PLY

\* The iteration ends: what it remembers is proven, and what the list begins with is
\* what it remembers or no worse.
LEMMA EndIterationKeeps == IInv /\ EndIteration => IInv'
<1> SUFFICES ASSUME IInv, EndIteration PROVE IInv'
  OBVIOUS
<1> DEFINE rollsBack == RollsBack /\ last'.line # <<>>
<1>1. /\ pc = "iterated" /\ pc' = "loop" /\ go' = go /\ depth' = depth /\ pvIdx' = pvIdx /\ pvFirst' = pvFirst
      /\ pvLast' = pvLast /\ wire' = wire /\ stop' = (stop \/ MateInLimit(root'[1].score))
  BY DEF EndIteration
<1>a. \/ (stop \/ ForgottenMate) /\ last' = last
      \/ ~stop /\ ~ForgottenMate /\ last' = [line |-> root[1].line, score |-> root[1].score]
  BY DEF EndIteration
<1>b. rollsBack => /\ root' = [MoveToFront(root, last'.line[1]) EXCEPT ![1] = Restored(@, last'.line, last'.score)]
                   /\ sent' = FALSE
  BY DEF EndIteration, Restored
<1>c. ~rollsBack => /\ root' = IF AbortedLoss THEN [root EXCEPT ![1].lower = TRUE] ELSE root
                    /\ sent' = sent
  BY DEF EndIteration
<1> HIDE DEF rollsBack
<1>2. Types /\ Wire /\ Live
  BY <1>1 DEF IInv
<1>3. /\ go \in Searches /\ Lists(root) /\ Ranked(root) /\ Completed /\ Remembered /\ Sent
      /\ pvIdx \in Nat /\ N \in Nat \ {0} /\ 1 \in 1..N /\ root \in [1..N -> Record]
      /\ root[1] \in Record /\ SoundMove(root[1]) /\ root[1].score \in Scores /\ root[1].score \in Int
  <2>1. go \in Searches /\ Lists(root) /\ Ranked(root) /\ Completed /\ Remembered /\ Sent /\ pvIdx \in Nat
    BY <1>2 DEF Types, Live
  <2>2. N \in Nat \ {0} /\ 1 \in 1..N
    BY <2>1, ListSize
  <2> QED BY <2>1, <2>2, ListScores DEF Lists
<1>4. /\ ~stop => pvIdx > 0 /\ ~Inexact(root[1])
      /\ pvIdx > 0 => root[1].score # NoScore /\ Trusted(root[1].score)
  <2>1. (~stop => pvIdx > 0) /\ (pvIdx > 0 => root[1].score # NoScore /\ Trusted(root[1].score))
    BY <1>1, <1>3 DEF Completed, Running, InLine
  <2>2. ASSUME ~stop PROVE ~Inexact(root[1])
    <3>1. 1 <= pvIdx
      BY <2>1, <2>2, <1>3
    <3> QED BY <3>1, <2>2, <1>1, <1>3 DEF Completed, Running, InLine
  <2> QED BY <2>1, <2>2
\* What is remembered.
<1>5. /\ last'.score \in Scores /\ last'.line \in Seq(Int) /\ (last'.line = <<>> <=> last'.score = NoScore)
      /\ last'.score # NoScore =>
           /\ last'.line[1] \in Moves /\ IsTop(last'.line[1]) /\ EndsIn(last'.line, last'.score)
           /\ Trusted(last'.score) /\ root[1].score # NoScore
  <2>1. CASE last' = last
    BY <2>1, <1>3 DEF Remembered
  <2>2. CASE ~stop /\ last' = [line |-> root[1].line, score |-> root[1].score]
    <3>1. last'.line = root[1].line /\ last'.score = root[1].score
      BY <2>2
    <3>2. /\ root[1].line \in Seq(Int) /\ Len(root[1].line) > 0 /\ root[1].line[1] = root[1].move
          /\ root[1].move \in Moves /\ EndsIn(root[1].line, root[1].score)
      BY <1>3, RecordTypes DEF SoundMove
    <3>3. root[1].line # <<>>
      BY <3>2
    <3>4. IsTop(root[1].move)
      BY <1>3, TopHeads
    <3> QED BY <3>1, <3>2, <3>3, <3>4, <2>2, <1>3, <1>4
  <2> QED BY <2>1, <2>2, <1>a
\* What the list begins with.
<1>6. ASSUME rollsBack
      PROVE  Lists(root') /\ Ranked(root') /\ last'.score # NoScore /\ root'[1].score = last'.score /\ ~Inexact(root'[1])
  <2>1. last'.line # <<>>
    BY <1>6 DEF rollsBack
  <2>2. /\ last'.line \in Seq(Int) /\ last'.line # <<>> /\ last'.line[1] \in Moves /\ IsTop(last'.line[1])
        /\ last'.score \in Scores /\ last'.score # NoScore /\ EndsIn(last'.line, last'.score)
    BY <2>1, <1>5
  <2>3. root' = [MoveToFront(root, last'.line[1]) EXCEPT ![1] = Restored(@, last'.line, last'.score)]
    BY <1>6, <1>b
  <2>4. go \in Searches /\ Lists(root) /\ Ranked(root)
    BY <1>3
  <2>5. Lists(root') /\ Ranked(root') /\ root'[1].score = last'.score /\ ~Inexact(root'[1])
    BY ONLY <2>2, <2>3, <2>4, RollbackKeeps
  <2> QED BY <2>2, <2>5
<1>7. ASSUME ~rollsBack
      PROVE  /\ Lists(root') /\ Ranked(root') /\ root'[1].score = root[1].score
             /\ AbortedLoss => /\ root'[1].lower /\ root'[1].move = root[1].move
                               /\ root'[1].line = root[1].line /\ root'[1].uci = root[1].uci
             /\ ~AbortedLoss => root' = root
  <2>1. CASE AbortedLoss
    <3>1. ExactLoss(root[1])
      BY <2>1 DEF AbortedLoss
    <3>2. root' = [root EXCEPT ![1] = [root[1] EXCEPT !.lower = TRUE]]
      BY <2>1, <1>7, <1>3, <1>c
    <3>3. /\ [root[1] EXCEPT !.lower = TRUE] \in Record /\ SoundMove([root[1] EXCEPT !.lower = TRUE])
          /\ [root[1] EXCEPT !.lower = TRUE].move = root[1].move
          /\ [root[1] EXCEPT !.lower = TRUE].score = root[1].score /\ [root[1] EXCEPT !.lower = TRUE].lower
          /\ [root[1] EXCEPT !.lower = TRUE].line = root[1].line /\ [root[1] EXCEPT !.lower = TRUE].uci = root[1].uci
      BY <3>1, <1>3, MarkKeeps
    <3> DEFINE x == [root[1] EXCEPT !.lower = TRUE]
    <3> HIDE DEF x
    <3>4. x \in Record /\ SoundMove(x) /\ x.move = root[1].move /\ x.score = root[1].score /\ x.lower /\ root' = [root EXCEPT ![1] = x]
          /\ x.line = root[1].line /\ x.uci = root[1].uci
      BY <3>2, <3>3 DEF x
    <3>5. \A i \in 1..N : SoundMove(root[i])
      BY <1>3 DEF Lists
    <3>6. root' \in [1..N -> Record] /\ root'[1] = x /\ \A i \in 1..N : SoundMove(root'[i]) /\ root'[i].move = root[i].move
      BY <3>4, <3>5, <1>3
    <3>7. Lists(root') /\ \A i \in 1..N : RankAt(root', i) = RankAt(root, i)
      BY <3>6, <1>3, RewrittenLists
    <3>8. Ranked(root')
      BY <3>7, <1>3, SameRanks
    <3> QED BY <3>4, <3>6, <3>7, <3>8, <2>1
  <2>2. CASE ~AbortedLoss
    <3>1. root' = root
      BY <2>2, <1>7, <1>c
    <3> QED BY <3>1, <2>2, <1>3
  <2> QED BY <2>1, <2>2
<1>8. Lists(root') /\ Ranked(root')
  BY <1>6, <1>7
<1>9. Lists(root)' /\ Ranked(root)' /\ N' = N /\ Moves' = Moves
  BY <1>1, <1>8, SameSearch
<1>10. last'.score # NoScore => root'[1].score # NoScore
  BY <1>5, <1>6, <1>7
\* A mate is kept.
<1>11. ASSUME last'.score # NoScore, IsMate(last'.score) \/ IsMated(last'.score)
       PROVE  ~Inexact(root'[1]) /\ root'[1].score \in Int /\ last'.score \in Int /\ Abs(root'[1].score) >= Abs(last'.score)
  <2>1. last'.score \in Int
    BY <1>5, ScoreTypes
  <2>2. CASE rollsBack
    <3>1. Abs(last'.score) >= Abs(last'.score)
      BY <2>1 DEF Abs
    <3> QED BY <3>1, <2>1, <2>2, <1>6
  <2>3. CASE ~rollsBack
    <3>1. ~RollsBack
      BY <2>3, <1>5, <1>11 DEF rollsBack
    <3>2. ~AbortedLoss /\ root' = root
      BY <3>1, <2>3, <1>7 DEF RollsBack
    <3>3. CASE last' = last
      <4>1. ~ForgottenMate
        BY <3>1, <3>3, <1>5, <1>11 DEF RollsBack
      <4>2. ~(Abs(root[1].score) < Abs(last.score)) /\ ~Inexact(root[1])
        BY <4>1, <3>3, <1>11 DEF ForgottenMate
      <4> QED BY <4>2, <3>2, <3>3, <2>1, <1>3 DEF Abs
    <3>4. CASE ~stop /\ last' = [line |-> root[1].line, score |-> root[1].score]
      <4>1. last'.score = root[1].score
        BY <3>4
      <4>2. Abs(root[1].score) >= Abs(root[1].score)
        BY <1>3 DEF Abs
      <4> QED BY <4>1, <4>2, <3>2, <3>4, <1>3, <1>4
    <3> QED BY <3>3, <3>4, <1>a
  <2> QED BY <2>2, <2>3
\* A loss is proven.
<1>12. ASSUME ExactLoss(root'[1]) PROVE Proven(root'[1].score)
  <2>1. IsLoss(root'[1].score) /\ ~Inexact(root'[1]) /\ root'[1].score # NoScore
    BY <1>12 DEF ExactLoss
  <2>2. CASE rollsBack
    BY <2>1, <2>2, <1>5, <1>6 DEF Trusted
  <2>3. CASE ~rollsBack
    <3>1. ~AbortedLoss /\ root' = root
      BY <2>1, <2>3, <1>7 DEF Inexact
    <3>2. pvIdx > 0
      BY <3>1, <1>3, <1>4, <1>12 DEF AbortedLoss
    <3> QED BY <3>1, <3>2, <2>1, <1>4 DEF Trusted
  <2> QED BY <2>2, <2>3
<1>13. Types' /\ Wire'
  <2>1. stop' \in BOOLEAN /\ sent' \in BOOLEAN
    BY <1>1, <1>b, <1>c, <1>2 DEF Types
  <2>2. Types'
    BY <2>1, <1>1, <1>2 DEF Types
  <2>3. Wire'
    BY <1>1, <1>2 DEF Wire, Shown, Unmarked
  <2> QED BY <2>2, <2>3
<1>14. Segment' /\ Window' /\ Node' /\ Completed'
  BY <1>1 DEF Segment, Window, Node, Completed, Running, InLine
<1>15. Remembered'
  <2>1. IsTop(last.line[1])' <=> IsTop(last'.line[1])
    BY <1>1 DEF IsTop, Moves
  <2> QED BY <1>1, <1>5, <1>9, <1>10, <2>1, SameSearch DEF Remembered, EndsIn
<1>16. Sent'
  <2>1. CASE rollsBack
    BY <2>1, <1>b DEF Sent
  <2>2. CASE ~rollsBack
    <3>1. sent' = sent
      BY <2>2, <1>c
    <3> SUFFICES ASSUME sent PROVE Sent'
      BY <3>1 DEF Sent
    <3>2. /\ 1 \in DOMAIN wire /\ wire[1].bound = "" /\ ShownAs(wire[1], root[1])
          /\ root[1].score # NoScore /\ Trusted(root[1].score) /\ ~Inexact(root[1])
      BY <1>1, <1>3 DEF Sent
    <3>3. root'[1].score = root[1].score /\ (Inexact(root'[1]) => IsLoss(root[1].score))
      BY <3>2, <2>2, <1>7 DEF AbortedLoss, ExactLoss
    <3>4. ShownAs(wire[1], root[1])' <=> ShownAs(wire'[1], root'[1])
      BY <1>1 DEF ShownAs, Displayed, Tabled, Kept
    <3>5. ShownAs(wire[1], root'[1])
      <4>1. root'[1].line = root[1].line /\ root'[1].move = root[1].move /\ root'[1].uci = root[1].uci
        BY <2>2, <1>7
      <4>2. Kept(root'[1]) = Kept(root[1])
        BY <4>1, <3>2, <3>3 DEF Kept
      <4>3. Displayed(root'[1]) = Displayed(root[1])
        BY <4>1, <4>2 DEF Displayed
      <4> QED BY <4>1, <4>3, <3>2 DEF ShownAs
    <3>6. Inexact(root[1])' <=> Inexact(root'[1])
      BY DEF Inexact
    <3> QED BY <3>2, <3>3, <3>4, <3>5, <3>6, <1>1, SameSearch DEF Sent
  <2> QED BY <2>1, <2>2
<1>17. Settled'
  <2>1. FoundMate' => last'.score # NoScore /\ (IsMate(last'.score) \/ IsMated(last'.score))
    BY DEF FoundMate, IsMate, IsMated
  <2>2. FoundMate' => Decisive(root'[1].score) /\ Abs(root'[1].score) >= Abs(last'.score) /\ ~Inexact(root'[1])
    BY <2>1, <1>11, MatesDecide
  <2>3. FoundMate' => (ExactDecisive(root[1]) /\ Abs(root[1].score) >= Abs(last.score))'
    BY <2>1, <2>2, <1>10 DEF ExactDecisive, Inexact
  <2>4. ExactLoss(root[1])' => ExactLoss(root'[1])
    BY DEF ExactLoss, Inexact
  <2>5. ExactLoss(root[1])' => Proven(root[1].score)'
    BY <2>4, <1>1, <1>12, SameSearch
  <2> QED BY <2>3, <2>5 DEF Settled
<1> QED BY <1>1, <1>9, <1>13, <1>14, <1>15, <1>16, <1>17 DEF IInv, Live

-----------------------------------------------------------------------------
\* The vote.  What a sibling brings is an entry like those of the list, and a loss it
\* calls exact is one of every move of its rank.
LEMMA SiblingIsSound ==
  ASSUME go \in Searches, NEW rm \in Results
  PROVE  /\ Sibling(rm) \in Record /\ SoundMove(Sibling(rm))
         /\ ExactLoss(Sibling(rm)) => \A k \in Rivals(Sibling(rm).move) : go.values[k] # 0 /\ go.values[k] <= Sibling(rm).score
<1> DEFINE s == Sibling(rm)
<1>1. /\ rm.move \in Moves /\ rm.score \in {NoScore} \cup Guesses \cup {go.values[k] : k \in Moves} /\ rm.exact \in BOOLEAN
      /\ rm.exact /\ IsLoss(rm.score) => \A k \in Rivals(rm.move) : go.values[k] # 0 /\ go.values[k] <= rm.score
  BY DEF Results
<1>2. rm.score \in Scores
  <2>1. CASE rm.score = NoScore
    BY <2>1, ScoreTypes
  <2>2. CASE rm.score # NoScore
    <3>1. rm.score \in Guesses \/ \E k \in Moves : rm.score = go.values[k]
      BY <2>2, <1>1
    <3>2. rm.score \in Int /\ -VALUE_MATE <= rm.score /\ rm.score <= VALUE_MATE
      BY <3>1, GuessesAreScores, SearchFacts DEF Moves
    <3> QED BY <3>2 DEF Scores
  <2> QED BY <2>1, <2>2
<1> DEFINE base == NewRoot(rm.move)
           long == <<rm.move, rm.score>>
           lower == ~rm.exact
<1>3. rm.score \in Int /\ rm.score \in Bounds /\ rm.move \in Int
  BY <1>1, <1>2, ScoreTypes, MovesAreInts
<1>4. long \in Seq(Int) /\ Len(long) = 2 /\ long[1] = rm.move /\ long[2] = rm.score
  BY <1>3, ShortLines
<1>5. lower \in BOOLEAN /\ (lower <=> ~rm.exact)
  OBVIOUS
<1>6. base \in Record /\ SoundMove(base) /\ base.move = rm.move /\ ~base.lower /\ ~base.upper
  BY <1>1, NewRootIsSound
<1>7. s = [base EXCEPT !.score = rm.score, !.uci = rm.score, !.lower = lower, !.line = long]
  BY DEF Sibling
<1> HIDE DEF s, base, long, lower
<1>8. s \in Record
  BY <1>2, <1>3, <1>4, <1>5, <1>6, <1>7 DEF Record
<1>a. /\ s.move = rm.move /\ s.score = rm.score /\ s.uci = rm.score /\ s.lower = lower /\ ~s.upper
      /\ s.line = long /\ s.prev = base.prev /\ s.prevLine = base.prevLine
  BY <1>6, <1>7 DEF Record
<1>9. SoundMove(s)
  <2>1. Len(base.prevLine) > 0 /\ base.prevLine[1] = rm.move /\ EndsIn(base.prevLine, base.prev)
    BY <1>6 DEF SoundMove
  <2>2. Len(s.prevLine) > 0 /\ s.prevLine[1] = s.move /\ EndsIn(s.prevLine, s.prev)
    BY <2>1, <1>a
  <2>3. Len(s.line) > 0 /\ s.line[1] = s.move /\ EndsIn(s.line, s.score)
    <3>1. s.line = long /\ s.move = rm.move /\ s.score = rm.score
      BY <1>a
    <3>2. Len(long) > 0 /\ long[1] = rm.move /\ EndsIn(long, rm.score)
      BY <1>4 DEF EndsIn
    <3> QED BY <3>1, <3>2, Zenon
  <2>4. ~(s.lower /\ s.upper) /\ s.uci = s.score
    BY <1>a
  <2> QED BY <2>2, <2>3, <2>4 DEF SoundMove
<1>10. ExactLoss(s) => rm.exact /\ IsLoss(rm.score)
  BY <1>5, <1>a DEF ExactLoss, Inexact
<1> QED BY <1>1, <1>8, <1>9, <1>10, <1>a DEF s

\* A reply to ponder on lengthens the line of the answer and changes nothing else.
WithReply(rm, ponder) == IF ponder THEN [rm EXCEPT !.line = Append(@, VALUE_INFINITE)] ELSE rm
LEMMA PlayedIsShowable ==
  ASSUME NEW rm \in Record, SoundMove(rm), NEW ponder \in BOOLEAN
  PROVE  SameBut(WithReply(rm, ponder), rm) /\ Showable(WithReply(rm, ponder))
<1>1. CASE ponder
  <2>1. Showable([rm EXCEPT !.line = Append(@, VALUE_INFINITE)])
    BY SoundIsShowable
  <2>2. Append(rm.line, VALUE_INFINITE) \in Seq(Int)
    BY RecordTypes, Constants
  <2>3. SameBut([rm EXCEPT !.line = Append(rm.line, VALUE_INFINITE)], rm)
    BY <2>2, RelinedIs
  <2> QED BY <2>1, <2>3, <1>1 DEF WithReply
<1>2. CASE ~ponder
  <2>1. Showable(rm) /\ SameBut(rm, rm)
    BY SoundIsShowable DEF SameBut
  <2> QED BY <2>1, <1>2 DEF WithReply
<1> QED BY <1>1, <1>2

\* The workers' results in their order, and the answer they give.
Voters(list, results) == [i \in 1..(go.siblings + 1) |-> IF i = 1 THEN list[1] ELSE Sibling(results[i - 1])]
Final(list, all, winner, ponder) ==
  IF winner = 1 THEN [list EXCEPT ![1] = WithReply(all[winner], ponder)] ELSE <<WithReply(all[winner], ponder)>>
Reports(final, before) ==
  IF before THEN root' = final /\ UNCHANGED wire
  ELSE \E w \in Emissions(final) : wire' = w /\ root' = Written(final, w)
AnswersWith(list, all, winner, ponder) ==
  /\ go.skill \/ go.depth # 0 => winner = 1
  /\ ~(go.skill \/ go.depth # 0) => Elects(all, winner)
  /\ Reports(Final(list, all, winner, ponder), SentBefore(ponder, winner))
LEMMA AnswerIs ==
  ASSUME Answer
  PROVE  \E list \in Handicapped(root), results \in [1..go.siblings -> Results], ponder \in BOOLEAN :
           \E winner \in 1..(go.siblings + 1) : AnswersWith(list, Voters(list, results), winner, ponder)
<1>1. PICK list \in Handicapped(root), results \in [1..go.siblings -> Results] :
        \E winner \in DOMAIN Voters(list, results), ponder \in BOOLEAN :
          /\ IF go.skill \/ go.depth # 0 THEN winner = 1 ELSE Elects(Voters(list, results), winner)
          /\ \E final \in {Final(list, Voters(list, results), winner, ponder)} : Reports(final, SentBefore(ponder, winner))
  BY Zenon DEF Answer, Voters, WithReply, Final, Reports
<1> DEFINE all == Voters(list, results)
<1>2. DOMAIN all = 1..(go.siblings + 1)
  BY DEF Voters
<1> HIDE DEF all
<1>3. PICK winner \in DOMAIN all, ponder \in BOOLEAN :
          /\ IF go.skill \/ go.depth # 0 THEN winner = 1 ELSE Elects(all, winner)
          /\ \E final \in {Final(list, all, winner, ponder)} : Reports(final, SentBefore(ponder, winner))
  BY <1>1, Zenon DEF all
<1>4. Reports(Final(list, all, winner, ponder), SentBefore(ponder, winner))
  BY <1>3, Zenon
<1>5. AnswersWith(list, all, winner, ponder)
  BY <1>3, <1>4, Zenon DEF AnswersWith
<1> QED BY <1>2, <1>5 DEF all

\* Every voter is sound; the first is the first of the list.
LEMMA VotersAreSound ==
  ASSUME go \in Searches, NEW list, list[1] \in Record, SoundMove(list[1]), NEW results \in [1..go.siblings -> Results],
         NEW i \in 1..(go.siblings + 1)
  PROVE  /\ Voters(list, results)[i] \in Record /\ SoundMove(Voters(list, results)[i])
         /\ i = 1 => Voters(list, results)[i] = list[1]
         /\ i # 1 => \E rm \in Results : Voters(list, results)[i] = Sibling(rm)
<1>0. go.siblings \in Nat
  BY SearchFacts
<1>1. Voters(list, results)[i] = IF i = 1 THEN list[1] ELSE Sibling(results[i - 1])
  BY DEF Voters
<1>2. CASE i = 1
  BY <1>1, <1>2
<1>3. CASE i # 1
  <2>1. i - 1 \in 1..go.siblings
    BY <1>0, <1>3
  <2>2. results[i - 1] \in Results
    BY <2>1
  <2> QED BY <2>2, <1>1, <1>3, SiblingIsSound
<1> QED BY <1>2, <1>3

LEMMA AbsIsNat == \A v \in Int : Abs(v) \in Nat
BY DEF Abs

\* The vote never passes over an exact decisive score for less.
LEMMA DecisiveIsElected ==
  ASSUME NEW n \in Nat \ {0}, NEW all, DOMAIN all = 1..n, Len(all) = n, \A i \in 1..n : all[i].score \in Int,
         ExactDecisive(all[1]), NEW winner, Elects(all, winner)
  PROVE  ExactDecisive(all[winner]) /\ Abs(all[winner].score) >= Abs(all[1].score)
<1>1. PICK leader \in [1..n -> 1..n] :
        /\ leader[1] = 1
        /\ \A i \in 2..n : leader[i] = IF Better(all[i], all[leader[i - 1]], all) THEN i ELSE leader[i - 1]
        /\ winner = leader[n]
  BY DEF Elects
<1> DEFINE Good(i) == ExactDecisive(all[leader[i]]) /\ Abs(all[leader[i]].score) >= Abs(all[1].score)
           bad == {i \in 1..n : ~Good(i)}
<1>2. bad = {}
  <2> SUFFICES ASSUME bad # {} PROVE FALSE
    OBVIOUS
  <2>1. IsFiniteSet(bad) /\ bad \subseteq Int
    <3>1. IsFiniteSet(1..n) /\ bad \in SUBSET (1..n) /\ 1..n \subseteq Int
      BY FS_Interval
    <3> QED BY <3>1, FS_Subset
  <2>2. PICK k \in bad : \A j \in bad : k <= j
    BY <2>1, LeastOfFinite
  <2>3. k \in 1..n /\ ~Good(k)
    OBVIOUS
  <2>4. k # 1
    <3>1. 1 \in 1..n /\ all[1].score \in Int
      OBVIOUS
    <3>2. Abs(all[1].score) \in Nat
      BY <3>1, AbsIsNat
    <3>3. Abs(all[1].score) >= Abs(all[1].score)
      BY <3>2
    <3> QED BY <3>1, <3>3, <2>3, <1>1
  <2>5. k - 1 \in 1..n /\ k \in 2..n /\ ~(k <= k - 1)
    BY <2>3, <2>4
  <2>6. k - 1 \notin bad
    BY <2>2, <2>5
  <2>7. Good(k - 1)
    BY <2>5, <2>6
  <2> HIDE DEF bad
  <2> DEFINE b == all[leader[k - 1]]
             c == all[k]
  <2>8. leader[k] = IF Better(c, b, all) THEN k ELSE leader[k - 1]
    BY <2>5, <1>1
  <2>9. b.score \in Int /\ c.score \in Int /\ all[1].score \in Int
    <3>1. leader[k - 1] \in 1..n /\ 1 \in 1..n
      BY <2>5, <1>1
    <3> QED BY <3>1, <2>3
  <2>10. ExactDecisive(b) /\ Abs(b.score) >= Abs(all[1].score)
    BY <2>7
  <2>11. CASE Better(c, b, all)
    <3>1. ExactDecisive(c) /\ Abs(c.score) > Abs(b.score)
      BY <2>10, <2>11 DEF Better
    <3>2. Abs(c.score) >= Abs(all[1].score)
      <4>1. Abs(b.score) \in Nat /\ Abs(c.score) \in Nat /\ Abs(all[1].score) \in Nat
        BY <2>9, AbsIsNat
      <4> HIDE DEF b, c
      <4> QED BY ONLY <4>1, <3>1, <2>10
    <3>3. leader[k] = k
      BY <2>8, <2>11
    <3> QED BY <3>1, <3>2, <3>3, <2>3
  <2>12. CASE ~Better(c, b, all)
    <3>1. leader[k] = leader[k - 1]
      BY <2>8, <2>12
    <3> QED BY <3>1, <2>7, <2>3
  <2> QED BY <2>11, <2>12
<1>3. n \in 1..n
  OBVIOUS
<1>4. Good(n)
  BY <1>2, <1>3
<1> QED BY <1>1, <1>4

\* A weakened player swaps two entries; any other keeps the list.
LEMMA HandicapSwaps ==
  ASSUME go \in Searches, Lists(root), NEW list \in Handicapped(root)
  PROVE  /\ list \in [1..N -> Record] /\ \A i \in 1..N : SoundMove(list[i])
         /\ ~go.skill => list = root
<1>1. /\ N \in Nat \ {0} /\ 1 \in 1..N /\ Lines \in 1..N
      /\ root \in [1..N -> Record] /\ \A i \in 1..N : SoundMove(root[i])
  BY ListSize, LinesBounds DEF Lists
<1>2. CASE ~go.skill
  <2>1. list = root
    BY <1>2 DEF Handicapped
  <2> QED BY <2>1, <1>1
<1>3. CASE go.skill
  <2> DEFINE end == IF depth > 1 THEN Len(root) ELSE Lines
  <2>1. PICK i \in 1..end : list = [root EXCEPT ![1] = root[i], ![i] = root[1]]
    BY <1>3 DEF Handicapped
  <2>2. i \in 1..N
    <3>1. Len(root) = N
      BY <1>1
    <3> QED BY <3>1, <1>1
  <2>3. \A k \in 1..N : list[k] \in {root[k], root[i], root[1]}
    BY <2>1, <2>2, <1>1
  <2>4. \A k \in 1..N : list[k] \in Record /\ SoundMove(list[k])
    BY <2>2, <2>3, <1>1
  <2>5. DOMAIN list = 1..N /\ list = [k \in 1..N |-> list[k]]
    BY <2>1, <1>1
  <2> QED BY <2>4, <2>5, <1>3
<1> QED BY <1>2, <1>3

\* The answer: an exact loss it claims is proven, a mate remembered is not traded for
\* less, and the line played is the one on the wire.
MateKept ==
  FoundMate => /\ Abs(last'.score) >= Abs(last.score)
               /\ pc' = "answered" /\ ~go.skill /\ root'[1].score # NoScore =>
                    ExactDecisive(root'[1]) /\ Abs(root'[1].score) >= Abs(last.score)
LEMMA AnswerKeeps == IInv /\ Answer => IInv' /\ MateKept
<1> SUFFICES ASSUME IInv, Answer PROVE IInv' /\ MateKept
  OBVIOUS
<1>1. /\ pc = "loop" /\ pc' = "answered" /\ stop' = TRUE /\ go' = go /\ depth' = depth /\ pvIdx' = pvIdx
      /\ pvFirst' = pvFirst /\ pvLast' = pvLast /\ last' = last /\ sent' = sent
  BY DEF Answer
<1>2. Types /\ Wire /\ Live
  BY <1>1 DEF IInv
<1>3. /\ go \in Searches /\ Lists(root) /\ Ranked(root) /\ Remembered /\ Sent /\ Settled /\ go.siblings \in Nat
      /\ N \in Nat \ {0} /\ 1 \in 1..N
  BY <1>2, ListSize, SearchFacts DEF Types, Live
<1>4. PICK list \in Handicapped(root), results \in [1..go.siblings -> Results], ponder \in BOOLEAN :
        \E winner \in 1..(go.siblings + 1) : AnswersWith(list, Voters(list, results), winner, ponder)
  BY AnswerIs
<1> DEFINE all == Voters(list, results)
<1>5. PICK winner \in 1..(go.siblings + 1) : AnswersWith(list, all, winner, ponder)
  BY <1>4
<1>6. /\ list \in [1..N -> Record] /\ \A i \in 1..N : SoundMove(list[i])
      /\ ~go.skill => list = root
  BY <1>3, HandicapSwaps
<1>7. \A i \in 1..(go.siblings + 1) :
        /\ all[i] \in Record /\ SoundMove(all[i])
        /\ i = 1 => all[i] = list[1]
        /\ i # 1 => \E rm \in Results : all[i] = Sibling(rm)
  <2>1. go \in Searches /\ list[1] \in Record /\ SoundMove(list[1])
    BY <1>3, <1>6
  <2> QED BY <2>1, VotersAreSound
<1>8. DOMAIN all = 1..(go.siblings + 1) /\ Len(all) = go.siblings + 1
  <2>1. DOMAIN all = 1..(go.siblings + 1) /\ all = [i \in 1..(go.siblings + 1) |-> all[i]]
    BY DEF Voters
  <2> HIDE DEF all
  <2>2. all \in [1..(go.siblings + 1) -> Record]
    BY <2>1, <1>7
  <2> QED BY <2>1, <2>2, <1>3
<1> HIDE DEF all
<1> DEFINE best == WithReply(all[winner], ponder)
           final == IF winner = 1 THEN [list EXCEPT ![1] = best] ELSE <<best>>
<1>9. /\ go.skill \/ go.depth # 0 => winner = 1
      /\ ~(go.skill \/ go.depth # 0) => Elects(all, winner)
      /\ SentBefore(ponder, winner) => root' = final /\ wire' = wire
      /\ ~SentBefore(ponder, winner) => \E w \in Emissions(final) : wire' = w /\ root' = Written(final, w)
  BY <1>5, Zenon DEF AnswersWith, Final, Reports
<1>10. SameBut(best, all[winner]) /\ Showable(best)
  BY <1>7, PlayedIsShowable
<1>11. ~(all[winner].lower /\ all[winner].upper)
  BY <1>7 DEF SoundMove
<1>12. (Inexact(best) <=> Inexact(all[winner])) /\ (ExactLoss(best) <=> ExactLoss(all[winner]))
       /\ (ExactDecisive(best) <=> ExactDecisive(all[winner]))
       /\ best.move = all[winner].move /\ best.score = all[winner].score /\ ~(best.lower /\ best.upper)
  BY <1>10, <1>11, SameButShows DEF SameBut
<1>13. ~ponder => best = all[winner]
  BY DEF WithReply
<1> HIDE DEF best
<1>14. 1 \in DOMAIN final /\ final[1] = best /\ \A i \in DOMAIN final : Showable(final[i]) /\ ~(final[i].lower /\ final[i].upper)
  <2>2. CASE winner = 1
    <3>1. final = [list EXCEPT ![1] = best]
      BY <2>2
    <3>2. DOMAIN final = 1..N /\ final[1] = best /\ \A i \in 1..N : i # 1 => final[i] = list[i]
      BY <3>1, <1>3, <1>6
    <3>3. \A i \in 1..N : Showable(list[i]) /\ ~(list[i].lower /\ list[i].upper)
      BY <1>6, SoundIsShowable DEF SoundMove
    <3> QED BY <3>2, <3>3, <1>3, <1>10, <1>12
  <2>3. CASE winner # 1
    <3>1. final = <<best>>
      BY <2>3
    <3>2. DOMAIN final = {1} /\ final[1] = best
      BY <3>1
    <3> QED BY <3>2, <1>10, <1>12
  <2> QED BY <2>2, <2>3
<1> HIDE DEF final
\* The reports.
<1>15. ASSUME ~SentBefore(ponder, winner)
       PROVE  /\ \A i \in DOMAIN wire' : Shown(wire'[i])
              /\ DOMAIN root' = DOMAIN final /\ \A i \in DOMAIN final : SameBut(root'[i], final[i])
              /\ best.score # NoScore => /\ ShownAs(wire'[1], root'[1])
                                         /\ wire'[1].bound # "" => Inexact(best)
                                         /\ wire'[1].bound = "" /\ Inexact(best) => Tabled(Kept(best))
  <2>1. PICK w \in Emissions(final) : wire' = w /\ root' = Written(final, w)
    BY <1>9, <1>15
  <2>2. go \in Searches /\ \A i \in DOMAIN final : Showable(final[i])
    BY <1>3, <1>14
  <2>3. /\ \A i \in DOMAIN wire' : Shown(wire'[i])
        /\ DOMAIN root' = DOMAIN final /\ \A i \in DOMAIN final : SameBut(root'[i], final[i])
        /\ 1 \in DOMAIN final /\ final[1].score # NoScore =>
             /\ ShownAs(wire'[1], root'[1])
             /\ wire'[1].bound # "" => Inexact(final[1])
             /\ wire'[1].bound = "" /\ Inexact(final[1]) => Tabled(Kept(final[1]))
    BY ONLY <2>1, <2>2, EmissionPlays, Zenon
  <2> QED BY <2>3, <1>14
<1>16. ASSUME SentBefore(ponder, winner) PROVE wire' = wire /\ root' = final /\ best = list[1] /\ sent
  BY <1>7, <1>9, <1>13, <1>16 DEF SentBefore
<1>e. /\ DOMAIN root' = DOMAIN final /\ SameBut(root'[1], best)
      /\ \A i \in DOMAIN root' : ~(root'[i].lower /\ root'[i].upper)
  <2>1. DOMAIN root' = DOMAIN final /\ \A i \in DOMAIN final : SameBut(root'[i], final[i])
    <3>1. CASE SentBefore(ponder, winner)
      BY <3>1, <1>16 DEF SameBut
    <3>2. CASE ~SentBefore(ponder, winner)
      BY <3>2, <1>15
    <3> QED BY <3>1, <3>2
  <2>2. \A i \in DOMAIN final : ~(root'[i].lower /\ root'[i].upper)
    BY <2>1, <1>14 DEF SameBut
  <2> QED BY <2>1, <2>2, <1>14
<1>f. /\ root'[1].move = best.move /\ root'[1].score = best.score /\ (Inexact(root'[1]) <=> Inexact(best))
      /\ (ExactLoss(root'[1]) <=> ExactLoss(best)) /\ (ExactDecisive(root'[1]) <=> ExactDecisive(best))
      /\ Kept(root'[1]) = Kept(best)
  BY <1>e, SameButShows DEF SameBut
<1>17. Types' /\ Wire'
  <2>1. Types'
    BY <1>1, <1>2 DEF Types
  <2>2. \A i \in DOMAIN wire' : Shown(wire'[i])
    <3>1. CASE SentBefore(ponder, winner)
      BY <3>1, <1>2, <1>16 DEF Wire
    <3>2. CASE ~SentBefore(ponder, winner)
      BY <3>2, <1>15
    <3> QED BY <3>1, <3>2
  <2> QED BY <2>2, <2>1, <1>1 DEF Wire, Shown, Unmarked
\* What the best rank's moves all suffer, the first's rivals do.
<1>g. Proven(root[1].score) => \A m \in Rivals(root[1].move) : go.values[m] # 0 /\ go.values[m] <= root[1].score
  <2> SUFFICES ASSUME Proven(root[1].score), NEW m \in Rivals(root[1].move)
               PROVE  go.values[m] # 0 /\ go.values[m] <= root[1].score
    OBVIOUS
  <2>1. m \in Moves /\ go.ranks[m] = go.ranks[root[1].move]
    BY DEF Rivals
  <2>2. IsTop(m)
    BY <2>1, <1>3, TopHeads DEF IsTop
  <2> QED BY <2>1, <2>2 DEF Proven
<1>18. ASSUME ~go.skill, best.score # NoScore PROVE Played(wire'[1], root'[1])
  <2>1. CASE SentBefore(ponder, winner)
    <3>1. wire' = wire /\ root'[1] = root[1]
      BY <2>1, <1>6, <1>14, <1>16, <1>18
    <3>2. /\ wire[1].bound = "" /\ ShownAs(wire[1], root[1]) /\ Trusted(root[1].score)
          /\ Inexact(root[1]) => IsLoss(root[1].score)
      BY <2>1, <1>3, <1>16 DEF Sent
    <3>3. Inexact(root[1]) => LossIsProven(root[1])
      BY <3>2, <1>g DEF Trusted, LossIsProven
    <3> QED BY <3>1, <3>2, <3>3 DEF Played, ShownAs
  <2>2. CASE ~SentBefore(ponder, winner)
    <3>1. /\ ShownAs(wire'[1], root'[1])
          /\ wire'[1].bound # "" => Inexact(root'[1])
          /\ wire'[1].bound = "" /\ Inexact(root'[1]) => Tabled(Kept(root'[1]))
      BY <2>2, <1>15, <1>18, <1>f
    <3> QED BY <3>1 DEF Played, ShownAs
  <2> QED BY <2>1, <2>2
\* The losses.
<1>19. ASSUME ~go.skill, ExactLoss(best), NEW m \in Rivals(best.move)
       PROVE  go.values[m] # 0 /\ go.values[m] <= best.score
  <2>2. CASE winner = 1
    <3>1. all[winner] = root[1]
      BY <2>2, <1>6, <1>7, <1>19
    <3>2. ExactLoss(root[1]) /\ best.score = root[1].score /\ best.move = root[1].move
      BY <3>1, <1>12, <1>19
    <3>3. Proven(root[1].score)
      BY <3>2, <1>1, <1>3 DEF Settled
    <3> QED BY <3>2, <3>3, <1>g, <1>19
  <2>3. CASE winner # 1
    <3>1. PICK rm \in Results : all[winner] = Sibling(rm)
      BY <2>3, <1>7
    <3>2. ExactLoss(Sibling(rm)) /\ best.score = Sibling(rm).score /\ best.move = Sibling(rm).move
      BY <3>1, <1>12, <1>19
    <3> QED BY <3>2, <1>3, <1>19, SiblingIsSound
  <2> QED BY <2>2, <2>3
<1>20. Answered'
  <2>1. (\A i \in DOMAIN root : ~(root[i].lower /\ root[i].upper))'
    BY <1>e
  <2>2. ASSUME ~go.skill, ExactLoss(root'[1]) PROVE LossIsProven(root'[1])
    <3>1. IsLoss(best.score)
      BY <2>2, <1>f DEF ExactLoss
    <3> QED BY <3>1, <2>2, <1>19, <1>f DEF LossIsProven
  <2>3. ExactLoss(root[1])' <=> ExactLoss(root'[1])
    BY DEF ExactLoss, Inexact
  <2>4. LossIsProven(root[1])' <=> LossIsProven(root'[1])
    BY <1>1 DEF LossIsProven, Rivals, Moves
  <2>5. Played(wire[1], root[1])' <=> Played(wire'[1], root'[1])
    BY <1>1 DEF Played, Displayed, Tabled, Kept, Inexact, LossIsProven, Rivals, Moves
  <2>6. (~go.skill)' <=> ~go.skill
    BY <1>1
  <2> QED BY <2>1, <2>2, <2>3, <2>4, <2>5, <2>6, <1>18, <1>f DEF Answered
\* The mate.
<1>21. MateKept
  <2> SUFFICES ASSUME FoundMate
               PROVE  /\ Abs(last.score) >= Abs(last.score)
                      /\ ~go.skill => ExactDecisive(best) /\ Abs(best.score) >= Abs(last.score)
    BY <1>1, <1>f DEF MateKept
  <2>1. last.score \in Int /\ Abs(last.score) \in Nat
    BY <1>3, ScoreTypes, AbsIsNat DEF Remembered
  <2> SUFFICES ASSUME ~go.skill PROVE ExactDecisive(best) /\ Abs(best.score) >= Abs(last.score)
    BY <2>1
  <2>2. 1 \in 1..(go.siblings + 1)
    BY <1>3
  <2>3. all[1] = root[1]
    <3>1. \A i \in 1..(go.siblings + 1) : i = 1 => all[i] = list[1]
      BY <1>7
    <3>2. all[1] = list[1]
      BY <2>2, <3>1, Zenon
    <3>3. list = root
      BY <1>6
    <3> QED BY <3>2, <3>3
  <2>4. ExactDecisive(all[1]) /\ Abs(all[1].score) >= Abs(last.score)
    BY <2>3, <1>1, <1>3 DEF Settled
  <2>5. \A i \in 1..(go.siblings + 1) : all[i].score \in Int
    BY <1>7, RecordTypes, ScoreTypes
  <2>6. ExactDecisive(all[winner]) /\ Abs(all[winner].score) >= Abs(all[1].score)
    <3>1. CASE winner = 1
      <4>1. Abs(all[1].score) \in Nat
        BY <2>2, <2>5, AbsIsNat
      <4> QED BY <3>1, <4>1, <2>4
    <3>2. CASE winner # 1
      <4>1. go.siblings + 1 \in Nat \ {0} /\ DOMAIN all = 1..(go.siblings + 1) /\ Len(all) = go.siblings + 1
        BY <1>3, <1>8
      <4>2. Elects(all, winner)
        BY <3>2, <1>9
      <4>3. ExactDecisive(all[1])
        BY <2>4
      <4> QED BY ONLY <4>1, <4>2, <4>3, <2>5, DecisiveIsElected
    <3> QED BY <3>1, <3>2
  <2>7. Abs(all[winner].score) \in Nat /\ Abs(all[1].score) \in Nat
    BY <2>2, <2>5, AbsIsNat
  <2> QED BY <2>1, <2>4, <2>6, <2>7, <1>10, <1>12
<1> QED BY <1>1, <1>17, <1>20, <1>21 DEF IInv

-----------------------------------------------------------------------------
\* Nothing changes when nothing happens.
LEMMA StutterKeeps == IInv /\ UNCHANGED vars => IInv'
<1> SUFFICES ASSUME IInv, UNCHANGED vars PROVE IInv'
  OBVIOUS
<1>1. /\ go' = go /\ root' = root /\ depth' = depth /\ pvIdx' = pvIdx /\ pvFirst' = pvFirst
      /\ pvLast' = pvLast /\ window' = window /\ node' = node /\ last' = last /\ sent' = sent /\ wire' = wire
      /\ stop' = stop /\ pc' = pc
  BY DEF vars
<1>2. Types' /\ Wire'
  BY <1>1 DEF IInv, Types, Wire, Shown, Unmarked
<1>3. ASSUME pc # "answered" PROVE Live'
  <2>1. Live
    BY <1>3 DEF IInv
  <2>2. Lists(root)' /\ Ranked(root)'
    BY <1>1, <2>1, SameSearch DEF Live
  <2>3. Segment' /\ Window' /\ Node'
    <3>1. Lines' = Lines /\ N' = N /\ go' = go
      BY <1>1 DEF Lines, N, Moves
    <3> QED BY <1>1, <2>1, <3>1 DEF Live, Segment, InLine, RankAt, Window, Node, Searched, Inexact
  <2>4. Completed' /\ Remembered'
    <3>1. IsTop(last.line[1])' <=> IsTop(last.line[1])
      BY <1>1 DEF IsTop, Moves
    <3> QED BY <1>1, <2>1, <3>1, SameSearch DEF Live, Completed, Remembered, Running, InLine, EndsIn, Inexact
  <2>5. Sent' /\ Settled'
    <3>1. (ShownAs(wire[1], root[1]))' <=> ShownAs(wire[1], root[1])
      BY <1>1 DEF ShownAs, Displayed, Tabled, Kept
    <3>2. Inexact(root[1])' <=> Inexact(root[1])
      BY <1>1 DEF Inexact
    <3>3. Sent'
      BY <1>1, <2>1, <3>1, <3>2, SameSearch DEF Live, Sent, Lines
    <3>4. (ExactDecisive(root[1]))' <=> ExactDecisive(root[1])
      BY <1>1, <3>2 DEF ExactDecisive
    <3>5. (ExactLoss(root[1]))' <=> ExactLoss(root[1])
      BY <1>1, <3>2 DEF ExactLoss
    <3>6. FoundMate' <=> FoundMate
      BY <1>1 DEF FoundMate
    <3> QED BY <1>1, <2>1, <3>3, <3>4, <3>5, <3>6, SameSearch DEF Live, Settled
  <2> QED BY <2>2, <2>3, <2>4, <2>5 DEF Live
<1>4. ASSUME pc = "answered" PROVE Answered'
  <2>1. Answered
    BY <1>4 DEF IInv
  <2>2. Rivals(root[1].move)' = Rivals(root[1].move)
    BY <1>1 DEF Rivals, Moves
  <2>3. LossIsProven(root[1])' <=> LossIsProven(root[1])
    BY <1>1, <2>2 DEF LossIsProven
  <2>4. Played(wire[1], root[1])' <=> Played(wire[1], root[1])
    BY <1>1, <2>3 DEF Played, Displayed, Tabled, Kept, Inexact
  <2>5. ExactLoss(root[1])' <=> ExactLoss(root[1])
    BY <1>1 DEF ExactLoss, Inexact
  <2> QED BY <1>1, <2>1, <2>3, <2>4, <2>5 DEF Answered
<1> QED BY <1>1, <1>2, <1>3, <1>4 DEF IInv

\* The invariant of the depth loop: the list, the window, what the node under way has
\* shown, what is remembered and what is on the wire agree.
THEOREM DeepeningInvariant == Spec => []IInv
<1>1. Init => IInv
  BY IInvInit
<1>2. IInv /\ [Next]_vars => IInv'
  BY RaiseStopKeeps, StartIterationKeeps, StartLineKeeps, SearchMoveKeeps, CutNodeKeeps, ReturnNodeKeeps, EndLineKeeps,
     ShowLineKeeps, LeaveLineKeeps, EndIterationKeeps, AnswerKeeps, StutterKeeps DEF Next, Deepen
<1> QED BY <1>1, <1>2, PTL DEF Spec

\* In every search, at every moment: the list holds each root move once, each line begins
\* with its move, an unmarked report ends in the score shown with it or is the tables',
\* and the answer's line is the one on the wire, marked as a bound when it is one unless
\* the tables give the score or the loss shown is proven.
THEOREM ReportsPlayed == Spec => []ReportedIsPlayed
<1>1. IInv => ReportedIsPlayed
  <2> SUFFICES ASSUME IInv PROVE ReportedIsPlayed
    OBVIOUS
  <2>1. ASSUME pc # "answered"
        PROVE  Permuted /\ \A i \in DOMAIN root : ~(root[i].lower /\ root[i].upper)
    <3>1. Lists(root)
      BY <2>1 DEF IInv, Live
    <3>2. DOMAIN root = 1..N /\ (\A i \in 1..N : root[i].move \in Moves) /\ \A m \in Moves : \E i \in 1..N : root[i].move = m
      BY <3>1, RecordTypes DEF Lists
    <3>3. {root[i].move : i \in DOMAIN root} = Moves
      BY <3>2
    <3> QED BY <3>1, <3>2, <3>3 DEF Lists, SoundMove, Permuted
  <2>2. \A i \in DOMAIN root : ~(root[i].lower /\ root[i].upper)
    BY <2>1 DEF IInv, Answered
  <2>3. \A i \in DOMAIN wire : wire[i].bound = "" /\ wire[i].score # 0 => Unmarked(wire[i])
    BY DEF IInv, Wire, Shown
  <2>4. pc = "answered" /\ ~go.skill /\ root[1].score # NoScore => Played(wire[1], root[1])
    BY DEF IInv, Answered
  <2> QED BY <2>1, <2>2, <2>3, <2>4 DEF ReportedIsPlayed
<1> QED BY <1>1, DeepeningInvariant, PTL

\* Whenever the stop comes and however the workers vote, a loss answered as exact is one
\* that every move of the answer's rank suffers at least as fast.
THEOREM AnsweredLossIsProven == Spec => []ExactLossIsProven
<1>1. IInv => ExactLossIsProven
  BY DEF IInv, Answered, ExactLossIsProven
<1> QED BY <1>1, DeepeningInvariant, PTL

\* No iteration, finished or cut short, and no vote gives up a mate that was found.
THEOREM FoundMateIsKept == Spec => MateIsKept
<1>1. ASSUME IInv, Next PROVE MateKept
  <2>1. CASE Answer
    BY <1>1, <2>1, AnswerKeeps
  <2>2. CASE ~Answer
    <3>1. pc # "answered" /\ pc' # "answered"
      BY <1>1, <2>2, ZenonT(30)
         DEF Next, Deepen, RaiseStop, StartIteration, StartLine, SearchMove, CutNode, ReturnNode,
             EndLine, ShowLine, LeaveLine, EndIteration
    <3>2. last' = last \/ (EndIteration /\ ~stop /\ ~ForgottenMate /\ last' = [line |-> root[1].line, score |-> root[1].score])
      BY <1>1, <2>2 DEF Next, Deepen, RaiseStop, StartIteration, StartLine, SearchMove, CutNode, ReturnNode,
             EndLine, ShowLine, LeaveLine, EndIteration
    <3>3. Types /\ Live /\ last.score \in Int /\ root[1].score \in Int
      <4>1. Types /\ Live
        BY <1>1, <3>1 DEF IInv
      <4>2. last.score \in Scores /\ go \in Searches /\ Lists(root)
        BY <4>1 DEF Types, Live, Remembered
      <4>3. 1 \in 1..N
        BY <4>2, ListSize
      <4> QED BY <4>1, <4>2, <4>3, ListScores, ScoreTypes
    <3>4. Abs(last.score) \in Nat /\ Abs(root[1].score) \in Nat
      BY <3>3, AbsIsNat
    <3>5. FoundMate => Abs(last'.score) >= Abs(last.score)
      <4>1. CASE last' = last
        BY <4>1, <3>4
      <4>2. CASE ~ForgottenMate /\ last' = [line |-> root[1].line, score |-> root[1].score]
        <5>1. FoundMate => ~(Abs(root[1].score) < Abs(last.score))
          BY <4>2 DEF FoundMate, ForgottenMate
        <5>2. last'.score = root[1].score
          BY <4>2
        <5> QED BY <5>1, <5>2, <3>4
      <4> QED BY <4>1, <4>2, <3>2
    <3> QED BY <3>1, <3>5 DEF MateKept
  <2> QED BY <2>1, <2>2
<1>2. IInv /\ [Next]_vars => [MateKept]_vars
  BY <1>1
<1> QED BY <1>2, DeepeningInvariant, PTL DEF Spec, MateIsKept, MateKept
=============================================================================
