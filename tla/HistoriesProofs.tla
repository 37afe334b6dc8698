--------------------------- MODULE HistoriesProofs ---------------------------
(* Theorems about Histories, for any workers, pages, moves and node ends: an   *)
(* entry stays in its table's band whatever a node end contributes and however *)
(* the workers' loads and stores fall between one another.                     *)
EXTENDS Histories, TLAPS

\* How far the tables let the score of a move, the bonus of a walk and a malus go.
Scores    == {s \in Int : Within(s, 80806)}
WalkMost  == 32776
MalusMost == 2600
QuietMost == 40000
PriorMost == 1992130

\* What is queued: a walk finds a frame, its bonus and a malus are not large, and what
\* counts as a reward is one.
GoodNudges == {u \in Nudges : u.reward => u.bonus >= 0}
GoodWalks  == {u \in Walks : /\ NextFrame(u.frames, u.checked, 1) # 6
                             /\ Within(u.bonus, WalkMost)
                             /\ u.reward => u.bonus >= 0}
GoodLoops  == {l \in Loops : Within(l.malus, MalusMost)}
Items      == GoodNudges \cup GoodWalks \cup GoodLoops

TypeInv ==
  /\ own \in [Workers -> [OwnTables -> [Cells -> Int]]]
  /\ shared \in [SharedTables -> [Cells -> Int]]
  /\ stat \in [Workers -> Scores]
  /\ todo \in [Workers -> Seq(Items)]
  /\ phase \in [Workers -> {"idle", "counted", "loaded"}]
  /\ held \in [Workers -> Int]
  /\ at \in [Workers -> 1..5]
  /\ count \in [Workers -> Int]

EntriesWithin ==
  /\ \A w \in Workers, t \in OwnTables, c \in Cells : Within(own[w][t][c], Limit[t])
  /\ \A t \in SharedTables, c \in Cells : Within(shared[t][c], Limit[t])

Visits(w) == Frame(w) \in 1..5 /\ Cell(w) \in Cells /\ at[w] <= Frame(w)

\* What a worker holds of the update under way.  It has counted each frame before the
\* one it is at once, so the count stays an index of the multipliers.
UnderWay(w) ==
  /\ phase[w] # "idle" => todo[w] # <<>> /\ Head(todo[w]).table \in SharedTables
  /\ phase[w] = "counted" => Walking(w)
  /\ phase[w] = "loaded" => Within(held[w], Limit[Head(todo[w]).table])
  /\ todo[w] # <<>> /\ Walking(w) =>
       /\ Visits(w)
       /\ count[w] \in 0..(IF phase[w] = "idle" THEN at[w] - 1 ELSE Frame(w))
  /\ ~(todo[w] # <<>> /\ Walking(w)) => at[w] = 1 /\ count[w] = 0

IInv == TypeInv /\ EntriesWithin /\ \A w \in Workers : UnderWay(w)

-----------------------------------------------------------------------------
(* The arithmetic of an update *)

LEMMA DivBounds ==
  ASSUME NEW p \in Int, NEW d \in Int, d > 0
  PROVE  p \div d \in Int /\ d * (p \div d) <= p /\ p < d * (p \div d) + d
  OBVIOUS
LEMMA Floor ==
  ASSUME NEW p \in Int, NEW d \in Int, d > 0, NEW q \in Int, d * q <= p, p < d * q + d, NEW x \in Int
  PROVE /\ d * x <= p => x <= q
        /\ p <= d * x => q <= x
  <1>1. ASSUME d * x <= p PROVE x <= q
    <2>1. d * (x - q) < d
      BY <1>1
    <2>2. SUFFICES ASSUME x - q >= 1 PROVE FALSE
      OBVIOUS
    <2>3. d * (x - q) >= d
      BY <2>2
    <2> QED BY <2>1, <2>3
  <1>2. ASSUME p <= d * x PROVE q <= x
    <2>1. d * (q - x) <= 0
      BY <1>2
    <2>2. SUFFICES ASSUME q - x >= 1 PROVE FALSE
      OBVIOUS
    <2>3. d * (q - x) >= d
      BY <2>2
    <2> QED BY <2>1, <2>3
  <1> QED BY <1>1, <1>2

LEMMA DivBetween ==
  ASSUME NEW p \in Int, NEW d \in Int, d > 0, NEW lo \in Int, NEW hi \in Int, d * lo <= p, p <= d * hi
  PROVE  p \div d \in Int /\ lo <= p \div d /\ p \div d <= hi
  BY DivBounds, Floor

LEMMA QuotInt ==
  ASSUME NEW a \in Int, NEW b \in Int, b > 0
  PROVE  Quot(a, b) \in Int
  BY DivBounds DEF Quot

LEMMA QuotWithin ==
  ASSUME NEW a \in Int, NEW b \in Int, b > 0, NEW k \in Int, a < b * (k + 1), -a < b * (k + 1)
  PROVE  Within(Quot(a, b), k)
  <1>1. CASE a < 0
    <2>1. PICK q \in Int : q = (-a) \div b /\ b * q <= -a /\ -a < b * q + b
      BY DivBounds
    <2>2. q <= k
      <3> SUFFICES ASSUME q >= k + 1 PROVE FALSE
        BY <2>1
      <3>1. b * q >= b * (k + 1)
        BY <2>1
      <3> QED BY <2>1, <3>1
    <2>3. q >= 0
      <3> SUFFICES ASSUME q + 1 <= 0 PROVE FALSE
        BY <2>1
      <3>1. b * (q + 1) <= 0
        BY <2>1
      <3> QED BY <1>1, <2>1, <3>1
    <2> QED BY <1>1, <2>1, <2>2, <2>3 DEF Quot, Within
  <1>2. CASE a >= 0
    <2>1. PICK q \in Int : q = a \div b /\ b * q <= a /\ a < b * q + b
      BY DivBounds
    <2>2. q <= k
      <3> SUFFICES ASSUME q >= k + 1 PROVE FALSE
        BY <2>1
      <3>1. b * q >= b * (k + 1)
        BY <2>1
      <3> QED BY <2>1, <3>1
    <2>3. q >= 0
      <3> SUFFICES ASSUME q + 1 <= 0 PROVE FALSE
        BY <2>1
      <3>1. b * (q + 1) <= 0
        BY <2>1
      <3> QED BY <1>2, <2>1, <3>1
    <2> QED BY <1>2, <2>1, <2>2, <2>3 DEF Quot, Within
  <1> QED BY <1>1, <1>2

LEMMA QuotPositive ==
  ASSUME NEW a \in Int, NEW b \in Int, b > 0, a >= 0
  PROVE  Quot(a, b) >= 0
  <1>1. PICK q \in Int : q = a \div b /\ b * q <= a /\ a < b * q + b
    BY DivBounds
  <1>2. SUFFICES ASSUME q + 1 <= 0 PROVE FALSE
    BY <1>1 DEF Quot
  <1>3. b * (q + 1) <= 0
    BY <1>1, <1>2
  <1> QED BY <1>1, <1>3

LEMMA PositivePull ==
  ASSUME NEW d \in Int, d > 0, NEW v \in Int, 0 <= v, v <= d, NEW b \in Int, Within(b, d)
  PROVE  Gravity(v, b, d) \in Int /\ Within(Gravity(v, b, d), d)
  <1> DEFINE a == Abs(b)
             p == v * a
             q == p \div d
  <1>1. a \in Int /\ 0 <= a /\ a <= d /\ a >= b /\ a >= -b /\ -d <= b
    BY DEF Abs, Within
  <1>2. p \in Int /\ p >= 0
    BY <1>1
  <1>3. Gravity(v, b, d) = v + b - q
    BY <1>2 DEF Gravity, Quot
  <1>4. p <= d * v
    <2>1. v * (d - a) >= 0
      BY <1>1
    <2> QED BY <1>1, <2>1
  <1>5. d * (v + b - d) <= p
    <2>1. CASE b >= 0
      <3>1. a = b
        BY <2>1 DEF Abs
      <3>2. (d - v) * (d - b) >= 0
        BY <1>1, <3>1
      <3> QED BY <3>1, <3>2
    <2>2. CASE b < 0
      <3>1. d * (v + b - d) <= 0
        BY <2>2
      <3> QED BY <3>1, <1>2
    <2> QED BY <2>1, <2>2
  <1>6. q \in Int /\ v + b - d <= q /\ q <= v
    BY <1>2, <1>4, <1>5, <1>1, DivBetween
  <1> QED BY <1>3, <1>6, <1>1 DEF Within

LEMMA NegativePull ==
  ASSUME NEW d \in Int, d > 0, NEW v \in Int, -d <= v, v < 0, NEW b \in Int, Within(b, d)
  PROVE  Gravity(v, b, d) \in Int /\ Within(Gravity(v, b, d), d)
  <1>1. -v \in Int /\ 0 <= -v /\ -v <= d /\ -b \in Int /\ Within(-b, d)
    BY DEF Within
  <1>2. Gravity(-v, -b, d) \in Int /\ Within(Gravity(-v, -b, d), d)
    BY <1>1, PositivePull
  <1>3. Abs(-b) = Abs(b) /\ Abs(b) \in Int /\ Abs(b) >= 0
    BY DEF Abs
  <1>4. Gravity(v, b, d) = -Gravity(-v, -b, d)
    <2> DEFINE a == Abs(b)
    <2>1. a \in Int /\ a >= 0 /\ Abs(-b) = a
      BY <1>3
    <2> HIDE DEF a
    <2>2. v * a \in Int /\ (-v) * a \in Int /\ (-v) * a = -(v * a) /\ (-v) * a >= 0
      BY <2>1
    <2>3. CASE v * a < 0
      <3>1. Quot(v * a, d) = -((-v * a) \div d) /\ Quot((-v) * a, d) = ((-v) * a) \div d
        BY <2>2, <2>3 DEF Quot
      <3>2. (-v * a) \div d \in Int
        BY <2>2, DivBounds
      <3> QED BY <3>1, <3>2, <2>1, <2>2 DEF Gravity, a
    <2>4. CASE v * a = 0
      <3>1. Quot(v * a, d) = 0 \div d /\ Quot((-v) * a, d) = 0 \div d
        BY <2>2, <2>4 DEF Quot
      <3>2. 0 \div d = 0
        BY DivBetween
      <3> QED BY <3>1, <3>2, <2>1, <2>2 DEF Gravity, a
    <2> QED BY <2>2, <2>3, <2>4
  <1> QED BY <1>2, <1>4 DEF Within

LEMMA GravityWithin ==
  ASSUME NEW d \in Int, d > 0, NEW v \in Int, Within(v, d), NEW b \in Int, Within(b, d)
  PROVE  Gravity(v, b, d) \in Int /\ Within(Gravity(v, b, d), d)
  BY PositivePull, NegativePull DEF Within

\* A bonus that is none too small never pushes an entry down.
LEMMA GravityRises ==
  ASSUME NEW d \in Int, d > 0, NEW v \in Int, Within(v, d), NEW b \in Int, b >= 0
  PROVE  Gravity(v, b, d) >= v
  <1>1. Gravity(v, b, d) = v + b - Quot(v * b, d)
    BY DEF Gravity, Abs
  <1>2. PICK x \in Int : x = v * b
    OBVIOUS
  <1>3. PICK y \in Int : y = d * b /\ y >= x
    <2>1. (d - v) * b >= 0
      BY DEF Within
    <2> QED BY <2>1, <1>2
  <1>4. Quot(x, d) \in Int /\ Quot(x, d) <= b
    <2>1. CASE x < 0
      <3>1. PICK q \in Int : q = (-x) \div d /\ d * q <= -x /\ -x < d * q + d
        BY DivBounds
      <3>2. q >= 0
        <4> SUFFICES ASSUME q + 1 <= 0 PROVE FALSE
          BY <3>1
        <4>1. d * (q + 1) <= 0
          BY <3>1
        <4> QED BY <2>1, <3>1, <4>1
      <3> QED BY <2>1, <3>1, <3>2 DEF Quot
    <2>2. CASE x >= 0
      <3>1. PICK q \in Int : q = x \div d /\ d * q <= x /\ x < d * q + d
        BY DivBounds
      <3>2. q <= b
        <4> SUFFICES ASSUME q >= b + 1 PROVE FALSE
          BY <3>1
        <4>1. d * q >= d * b + d
          <5>1. d * (q - b - 1) >= 0
            BY <3>1
          <5> QED BY <5>1
        <4> QED BY <1>3, <3>1, <4>1
      <3> QED BY <2>2, <3>1, <3>2 DEF Quot
    <2> QED BY <2>1, <2>2
  <1> QED BY <1>1, <1>2, <1>4

LEMMA LimitsPositive ==
  \A t \in Tables : Limit[t] \in Int /\ Limit[t] > 0
  BY DEF Limit, Tables, OwnTables, SharedTables

LEMMA FillWithin ==
  \A t \in Tables : Fill[t] \in Int /\ Within(Fill[t], Limit[t])
  BY DEF Fill, Limit, Tables, OwnTables, SharedTables, Within

LEMMA ClampedWithin ==
  ASSUME NEW b \in Int, NEW d \in Int, d > 0
  PROVE  Clamped(b, d) \in Int /\ Within(Clamped(b, d), d)
  BY DEF Clamped, Within

LEMMA AgedWithin ==
  ASSUME NEW v \in Int, NEW d \in Int, d > 0, Within(v, d)
  PROVE  Quot(v * 729, 1024) \in Int /\ Within(Quot(v * 729, 1024), d)
  BY DEF Quot, Within

LEMMA PushWithin ==
  ASSUME NEW b \in Int, NEW d \in Int, NEW s \in Int, -d <= b, b <= d, 0 <= s, s <= 65536
  PROVE  Push(b, s) \in Int /\ Within(Push(b, s), d)
  <1>1. PICK x \in Int : x = b * s
    OBVIOUS
  <1>2. PICK y \in Int : y = d * s
    OBVIOUS
  <1>3. (d - b) * s >= 0 /\ (d + b) * s >= 0 /\ d * (65536 - s) >= 0
    OBVIOUS
  <1>4. (d - b) * s = y - x /\ (d + b) * s = y + x /\ d * (65536 - s) = 65536 * d - y
    BY <1>1, <1>2
  <1>5. y - x >= 0 /\ y + x >= 0 /\ 65536 * d - y >= 0
    BY <1>3, <1>4
  <1>6. -(65536 * d) <= x /\ x <= 65536 * d
    BY <1>5
  <1>7. Quot(x, 65536) \in Int /\ Within(Quot(x, 65536), d)
    BY <1>6 DEF Quot, Within
  <1> QED BY <1>1, <1>7 DEF Push

LEMMA ScaleFits ==
  ASSUME NEW k \in 1..5, NEW c \in 0..5
  PROVE  ConthistScale(k, c) \in Int /\ 0 < ConthistScale(k, c) /\ ConthistScale(k, c) <= 65520
  <1>1. ConthistBonuses[k] \in {520, 390, 145, 251, 209}
    BY DEF ConthistBonuses
  <1>2. PICK y \in 1..126 : y = CmhcMultipliers[c + 1]
    <2>1. c + 1 \in 1..6
      OBVIOUS
    <2> QED BY <2>1 DEF CmhcMultipliers
  <1>3. ConthistScale(k, c) = ConthistBonuses[k] * y
    BY <1>2 DEF ConthistScale
  <1>4. ConthistScale(k, c) \in {520 * y, 390 * y, 145 * y, 251 * y, 209 * y}
    BY <1>1, <1>3
  <1> QED BY <1>4

Scales == {s \in Int : 0 < s /\ s <= 65520}

LEMMA ScaleBounds == \A k \in 1..5, c \in 0..5 : ConthistScale(k, c) \in Scales
  BY ScaleFits DEF Scales

-----------------------------------------------------------------------------
(* Where a walk goes next *)

Stop(frames, checked, k, j) ==
  /\ j < 6 => ~Skipped(frames, checked, j)
  /\ \A i \in k..(j - 1) : Skipped(frames, checked, i)

LEMMA NextFrameStep ==
  ASSUME NEW frames, NEW checked, NEW k \in 1..5,
         \E j \in (k + 1)..6 : Stop(frames, checked, k + 1, j)
  PROVE  \E j \in k..6 : Stop(frames, checked, k, j)
  <1>1. CASE Skipped(frames, checked, k)
    <2>1. PICK j \in (k + 1)..6 : Stop(frames, checked, k + 1, j)
      OBVIOUS
    <2>2. \A i \in k..(j - 1) : i = k \/ i \in (k + 1)..(j - 1)
      OBVIOUS
    <2>3. Stop(frames, checked, k, j)
      BY <1>1, <2>1, <2>2 DEF Stop
    <2> QED BY <2>3
  <1>2. CASE ~Skipped(frames, checked, k)
    <2>1. Stop(frames, checked, k, k)
      BY <1>2 DEF Stop
    <2> QED BY <2>1
  <1> QED BY <1>1, <1>2

LEMMA NextFrameExists ==
  ASSUME NEW frames, NEW checked, NEW k \in 1..6
  PROVE  \E j \in k..6 : Stop(frames, checked, k, j)
  <1> DEFINE E(i) == \E j \in i..6 : Stop(frames, checked, i, j)
  <1>6. E(6)
    BY DEF Stop
  <1>0. \A i \in 1..5 : E(i + 1) => E(i)
    BY NextFrameStep
  <1> HIDE DEF E
  <1>5. E(5)
    BY <1>6, <1>0
  <1>4. E(4)
    BY <1>5, <1>0
  <1>3. E(3)
    BY <1>4, <1>0
  <1>2. E(2)
    BY <1>3, <1>0
  <1>1. E(1)
    BY <1>2, <1>0
  <1>7. E(k)
    BY <1>1, <1>2, <1>3, <1>4, <1>5, <1>6
  <1> QED BY <1>7 DEF E

LEMMA NextFrameIs ==
  ASSUME NEW frames, NEW checked, NEW k \in 1..6
  PROVE  /\ NextFrame(frames, checked, k) \in k..6
         /\ NextFrame(frames, checked, k) < 6 => ~Skipped(frames, checked, NextFrame(frames, checked, k))
  <1>1. \E j \in k..6 : Stop(frames, checked, k, j)
    BY NextFrameExists
  <1>2. NextFrame(frames, checked, k) \in k..6 /\ Stop(frames, checked, k, NextFrame(frames, checked, k))
    BY <1>1 DEF NextFrame, Stop
  <1> QED BY <1>2 DEF Stop

-----------------------------------------------------------------------------
(* What a node end queues *)

Queue == Seq(Items)

LEMMA Concat ==
  ASSUME NEW s \in Queue, NEW t \in Queue
  PROVE  s \o t \in Queue
  BY DEF Queue

LEMMA EmptyQueue == <<>> \in Queue
  BY DEF Queue

LEMMA First ==
  ASSUME NEW s \in Queue, Len(s) = 1
  PROVE  s[1] \in Items
  BY DEF Queue

LEMMA NudgeQueued ==
  ASSUME NEW t \in Tables \ {"cont"}, NEW page \in Pages \cup {NoMove}, NEW m \in Moves,
         NEW bonus \in Int, NEW good \in BOOLEAN, good => bonus >= 0
  PROVE  Nudge(t, page, m, bonus, good) \in Queue
  <1> DEFINE u == [table |-> t, cell |-> <<page, m>>, bonus |-> bonus, reward |-> good]
  <1>1. <<page, m>> \in Cells
    BY DEF Cells
  <1>2. u \in Nudges /\ u.bonus = bonus /\ (u.reward <=> good)
    BY <1>1 DEF Nudges
  <1>3. u \in GoodNudges
    BY <1>2 DEF GoodNudges
  <1>4. Nudge(t, page, m, bonus, good) = <<u>>
    BY DEF Nudge
  <1> HIDE DEF u
  <1> QED BY <1>3, <1>4 DEF Queue, Items

LEMMA WalkQueued ==
  ASSUME NEW frames \in Frames, NEW checked \in BOOLEAN, NEW m \in Moves,
         NEW bonus \in Int, NEW good \in BOOLEAN, Within(bonus, WalkMost), good => bonus >= 0
  PROVE  Walk(frames, checked, m, bonus, good) \in Queue
  <1> DEFINE u == [table |-> "cont", frames |-> frames, checked |-> checked, move |-> m, bonus |-> bonus, reward |-> good]
  <1>1. CASE NextFrame(frames, checked, 1) = 6
    BY <1>1, EmptyQueue DEF Walk
  <1>2. CASE NextFrame(frames, checked, 1) # 6
    <2>1. u \in Walks /\ u.frames = frames /\ u.checked = checked /\ u.bonus = bonus /\ (u.reward <=> good)
      BY DEF Walks
    <2>2. u \in GoodWalks
      BY <1>2, <2>1 DEF GoodWalks
    <2>3. <<u>> \in Queue
      BY <2>2 DEF Queue, Items
    <2> QED BY <1>2, <2>3 DEF Walk
  <1> QED BY <1>1, <1>2

LEMMA WalkPlain ==
  \A frames \in Frames, checked \in BOOLEAN, m \in Moves, bonus \in Int :
    Within(bonus, WalkMost) => Walk(frames, checked, m, bonus, FALSE) \in Queue
  BY WalkQueued

\* The fields of a node end.
Typed(n) ==
  /\ n.depth \in Depths /\ n.ply \in Plies
  /\ n.pv \in BOOLEAN /\ n.isTt \in BOOLEAN /\ n.isCapture \in BOOLEAN
  /\ n.checked \in BOOLEAN /\ n.checkedBefore \in BOOLEAN
  /\ n.row \in Pages /\ n.frames \in Frames /\ n.before \in Frames
  /\ n.move \in Moves /\ n.prev \in MaybeMove
  /\ n.prevEarly \in BOOLEAN /\ n.prevPawn \in BOOLEAN /\ n.easy \in Eases
  /\ n.quiets \in MoveList /\ n.captures \in MoveList
  /\ n.delta \in Deltas

LEMMA NodeTyped ==
  ASSUME NEW n \in Nodes
  PROVE  Typed(n) /\ Len(n.quiets) <= SEARCHED_LIST /\ Len(n.captures) <= SEARCHED_LIST
  <1>1. n \in NodeEnd
    BY HistoriesAssumption DEF HistoriesAssumption
  <1>2. Len(n.quiets) <= SEARCHED_LIST /\ Len(n.captures) <= SEARCHED_LIST
    BY HistoriesAssumption DEF HistoriesAssumption
  <1>3. Typed(n)
    BY <1>1 DEF NodeEnd, Typed
  <1> QED BY <1>2, <1>3

LEMMA MoveTyped ==
  ASSUME NEW n \in Nodes
  PROVE  /\ n.move \in Moves /\ n.row \in Pages \cup {NoMove}
         /\ n.depth \in Int /\ 1 <= n.depth /\ n.depth <= 247
         /\ n.prev # NoMove => n.prev \in Moves
         /\ n.frames \in Frames /\ n.before \in Frames
         /\ n.checked \in BOOLEAN /\ n.checkedBefore \in BOOLEAN
         /\ \A k \in 1..5 : n.frames[k] \in Pages \cup {NoMove}
         /\ n.delta \in Int /\ n.easy \in Int /\ 0 <= n.easy /\ n.easy <= 487
         /\ n.quiets \in Seq(Moves) /\ n.captures \in Seq(Moves)
         /\ Len(n.quiets) <= SEARCHED_LIST /\ Len(n.captures) <= SEARCHED_LIST
  <1>1. Typed(n) /\ Len(n.quiets) <= SEARCHED_LIST /\ Len(n.captures) <= SEARCHED_LIST
    BY NodeTyped
  <1>2. n.move \in Moves /\ n.row \in Pages /\ n.prev \in MaybeMove
    BY <1>1 DEF Typed
  <1>3. n.frames \in Frames /\ n.before \in Frames /\ n.checked \in BOOLEAN /\ n.checkedBefore \in BOOLEAN
    BY <1>1 DEF Typed
  <1>4. n.quiets \in Seq(Moves) /\ n.captures \in Seq(Moves)
    BY <1>1 DEF Typed, MoveList
  <1>5. /\ n.delta \in Int /\ n.easy \in Int /\ 0 <= n.easy /\ n.easy <= 487
        /\ n.depth \in Int /\ 1 <= n.depth /\ n.depth <= 247
    <2>1. n.delta \in Deltas /\ n.easy \in Eases /\ n.depth \in Depths
      BY <1>1 DEF Typed
    <2>2. n.delta \in Int
      <3>1. Deltas \subseteq Int
        BY DEF Deltas
      <3> QED BY <2>1, <3>1
    <2>3. n.easy \in Int /\ 0 <= n.easy /\ n.easy <= 487
      BY <2>1 DEF Eases
    <2>4. n.depth \in Int /\ 1 <= n.depth /\ n.depth <= 247
      BY <2>1 DEF Depths, MAX_PLY
    <2> QED BY <2>2, <2>3, <2>4
  <1>6. \A k \in 1..5 : n.frames[k] \in Pages \cup {NoMove}
    BY <1>3 DEF Frames
  <1> QED BY <1>1, <1>2, <1>3, <1>4, <1>5, <1>6 DEF MaybeMove

LEMMA UpdateQuietQueued ==
  ASSUME NEW n \in Nodes, NEW m \in Moves, NEW bonus \in Int, NEW good \in BOOLEAN,
         Within(bonus, QuietMost), good => bonus >= 0
  PROVE  UpdateQuietHistories(n, m, bonus, good) \in Queue
  <1> DEFINE A == Nudge("main", n.row, m, bonus, good)
             B == IF n.ply < LOW_PLY_HISTORY_SIZE THEN Nudge("lowPly", n.row, m, Quot(bonus * 712, 1024), good) ELSE <<>>
             C == Walk(n.frames, n.checked, m, Quot(bonus * 750, 1024), good)
             D == Nudge("pawn", n.row, m, QuietPawnScale(bonus), good)
  <1>0. n.row \in Pages \cup {NoMove} /\ n.frames \in Frames /\ n.checked \in BOOLEAN
    BY MoveTyped
  <1>1. "main" \in Tables \ {"cont"} /\ "lowPly" \in Tables \ {"cont"} /\ "pawn" \in Tables \ {"cont"}
    BY DEF Tables, OwnTables, SharedTables
  <1>2. A \in Queue
    <2>1. \A t \in Tables \ {"cont"} : Nudge(t, n.row, m, bonus, good) \in Queue
      BY <1>0, NudgeQueued
    <2> QED BY <2>1, <1>1
  <1>3. B \in Queue
    <2>1. Quot(bonus * 712, 1024) \in Int /\ (good => Quot(bonus * 712, 1024) >= 0)
      BY QuotInt, QuotPositive
    <2>2. Nudge("lowPly", n.row, m, Quot(bonus * 712, 1024), good) \in Queue
      BY <2>1, <1>0, <1>1, NudgeQueued
    <2> QED BY <2>2, EmptyQueue
  <1>4. C \in Queue
    <2>1. PICK x \in Int : x = Quot(bonus * 750, 1024) /\ (good => x >= 0)
      BY QuotInt, QuotPositive
    <2>2. Within(x, WalkMost)
      BY <2>1, QuotWithin DEF Within, WalkMost, QuietMost
    <2> QED BY <2>1, <2>2, <1>0, WalkQueued
  <1>5. D \in Queue
    <2>1. QuietPawnScale(bonus) \in Int /\ (good => QuietPawnScale(bonus) >= 0)
      <3>1. PICK x \in Int : x = bonus * (IF bonus > -4 THEN 1104 ELSE 459) /\ (good => x >= 0)
        OBVIOUS
      <3>2. Quot(x, 1024) \in Int /\ (good => Quot(x, 1024) >= 0)
        BY <3>1, QuotInt, QuotPositive
      <3> QED BY <3>1, <3>2 DEF QuietPawnScale
    <2> QED BY <2>1, <1>0, <1>1, NudgeQueued
  <1>6. UpdateQuietHistories(n, m, bonus, good) = A \o B \o C \o D
    BY DEF UpdateQuietHistories
  <1> HIDE DEF A, B, C, D
  <1>7. A \o B \in Queue
    BY <1>2, <1>3, Concat
  <1>8. A \o B \o C \in Queue
    BY <1>7, <1>4, Concat
  <1>9. A \o B \o C \o D \in Queue
    BY <1>8, <1>5, Concat
  <1> QED BY <1>6, <1>9

LEMMA UpdateQuietPlain ==
  ASSUME NEW n \in Nodes, NEW m \in Moves, NEW bonus \in Int, Within(bonus, QuietMost)
  PROVE  UpdateQuietHistories(n, m, bonus, FALSE) \in Queue
  <1>1. \A good \in BOOLEAN : (good => bonus >= 0) => UpdateQuietHistories(n, m, bonus, good) \in Queue
    BY UpdateQuietQueued
  <1>2. FALSE \in BOOLEAN /\ (FALSE => bonus >= 0)
    OBVIOUS
  <1> QED BY <1>1, <1>2, Zenon

LEMMA UpdateCorrectionQueued ==
  ASSUME NEW n \in Nodes, NEW bonus \in Int
  PROVE  UpdateCorrection(n, bonus) \in Queue
  <1> DEFINE P == Quot(bonus * 150, 128)
             Q == Quot(bonus * 186, 128)
             R == Quot(bonus * 130, 128)
             S == Quot(bonus * 70, 128)
             U == Quot(bonus * 35, 128)
             A == Nudge("corrPawn", n.row, n.move, bonus, FALSE)
             B == Nudge("corrMinor", n.row, n.move, P, FALSE)
             C == Nudge("corrWhite", n.row, n.move, Q, FALSE)
             D == Nudge("corrBlack", n.row, n.move, Q, FALSE)
             E == Nudge("contCorrection", n.frames[2], n.prev, R, FALSE)
             F == Nudge("contCorrection", n.frames[4], n.prev, S, FALSE)
             G == Nudge("contCorrection", n.frames[5], n.prev, U, FALSE)
             T == IF n.prev = NoMove THEN <<>> ELSE E \o F \o G
  <1>0. n.row \in Pages \cup {NoMove} /\ n.move \in Moves
    BY MoveTyped
  <1>1. \A t \in {"corrPawn", "corrMinor", "corrWhite", "corrBlack", "contCorrection"} :
          t \in Tables \ {"cont"}
    BY DEF Tables, OwnTables, SharedTables
  <1>2. P \in Int /\ Q \in Int /\ R \in Int /\ S \in Int /\ U \in Int
    BY QuotInt
  <1>5. UpdateCorrection(n, bonus) = A \o B \o C \o D \o T
    BY DEF UpdateCorrection
  <1> HIDE DEF P, Q, R, S, U
  <1>11. \A t \in Tables \ {"cont"}, page \in Pages \cup {NoMove}, m \in Moves, b \in Int :
          Nudge(t, page, m, b, FALSE) \in Queue
    BY NudgeQueued
  <1>3. A \in Queue /\ B \in Queue /\ C \in Queue /\ D \in Queue
    <2>1. A \in Queue
      BY <1>0, <1>1, <1>2, <1>11
    <2>2. B \in Queue
      BY <1>0, <1>1, <1>2, <1>11
    <2>3. C \in Queue
      BY <1>0, <1>1, <1>2, <1>11
    <2>4. D \in Queue
      BY <1>0, <1>1, <1>2, <1>11
    <2> QED BY <2>1, <2>2, <2>3, <2>4
  <1>4. T \in Queue
    <2>1. CASE n.prev = NoMove
      BY <2>1, EmptyQueue
    <2>2. CASE n.prev # NoMove
      <3>0. n.prev \in Moves /\ \A k \in 1..5 : n.frames[k] \in Pages \cup {NoMove}
        BY <2>2, MoveTyped
      <3>1. n.frames[2] \in Pages \cup {NoMove} /\ n.frames[4] \in Pages \cup {NoMove} /\ n.frames[5] \in Pages \cup {NoMove}
        BY <3>0
      <3>2. E \in Queue /\ F \in Queue /\ G \in Queue
        <4>1. E \in Queue
          BY <3>0, <3>1, <1>1, <1>2, <1>11
        <4>2. F \in Queue
          BY <3>0, <3>1, <1>1, <1>2, <1>11
        <4>3. G \in Queue
          BY <3>0, <3>1, <1>1, <1>2, <1>11
        <4> QED BY <4>1, <4>2, <4>3
      <3>3. T = E \o F \o G
        BY <2>2
      <3> HIDE DEF E, F, G, T
      <3>4. E \o F \in Queue
        BY <3>2, Concat
      <3>5. E \o F \o G \in Queue
        BY <3>2, <3>4, Concat
      <3> QED BY <3>3, <3>5
    <2> QED BY <2>1, <2>2
  <1> HIDE DEF A, B, C, D, T
  <1>6. A \o B \in Queue
    BY <1>3, Concat
  <1>7. A \o B \o C \in Queue
    BY <1>3, <1>6, Concat
  <1>8. A \o B \o C \o D \in Queue
    BY <1>3, <1>7, Concat
  <1>9. A \o B \o C \o D \o T \in Queue
    BY <1>4, <1>8, Concat
  <1> QED BY <1>5, <1>9


LEMMA MalusTyped ==
  ASSUME NEW d \in Int, 1 <= d
  PROVE  StatMalus(d) \in Int /\ Within(StatMalus(d), 2244)
  BY DEF StatMalus, Least, Within

\* The bonuses of a node end.  Those that become corrections are clamped where they are used.
LEMMA BonusTyped ==
  ASSUME NEW n \in Nodes, NEW score \in Scores
  PROVE  /\ StatMalus(n.depth) \in Int /\ Within(StatMalus(n.depth), 2244)
         /\ StatBonus(n, score) \in Int /\ Within(StatBonus(n, score), 6000)
         /\ PriorScaledBonus(n, score) \in Int
         /\ 0 <= PriorScaledBonus(n, score) /\ PriorScaledBonus(n, score) <= PriorMost
         /\ EvalDiff(n.delta) \in Int
         /\ CorrectionHistoryBonus(n) \in Int /\ MulticutCorrectionBonus(n) \in Int
  <1>0. /\ n.depth \in Int /\ 1 <= n.depth /\ n.depth <= 247
        /\ n.delta \in Int /\ n.easy \in Int /\ 0 <= n.easy /\ n.easy <= 487
    BY MoveTyped
  <1> DEFINE depth == n.depth
             delta == n.delta
             easy  == n.easy
             tried == Len(n.quiets) + Len(n.captures)
  <1>1. depth \in Int /\ 1 <= depth /\ delta \in Int /\ easy \in Int /\ 0 <= easy /\ easy <= 487
    BY <1>0
  <1>2. tried \in Int /\ 0 <= tried /\ tried <= 64
    <2>1. PICK x, y \in Nat : x = Len(n.quiets) /\ y = Len(n.captures)
      BY MoveTyped
    <2>2. x <= 32 /\ y <= 32
      BY <2>1, MoveTyped DEF SEARCHED_LIST
    <2>3. tried = x + y
      BY <2>1
    <2> HIDE DEF tried
    <2> QED BY <2>2, <2>3
  <1>3. StatMalus(n.depth) \in Int /\ Within(StatMalus(n.depth), 2244)
    BY <1>0, MalusTyped
  <1>a. PICK s \in Int : s = score /\ -80806 <= s /\ s <= 80806
    BY DEF Scores, Within
  <1>4. StatBonus(n, score) \in Int /\ Within(StatBonus(n, score), 6000)
    <2>1. PICK x \in Int : x = Least(133 * depth - 81, 1487) /\ 52 <= x /\ x <= 1487
      BY <1>1 DEF Least
    <2>2. PICK y \in Int : y = Quot(score, 28) /\ Within(y, 2885)
      BY <1>a, QuotInt, QuotWithin
    <2>3. PICK z \in {0, 364} : z = IF n.isTt THEN 364 ELSE 0
      OBVIOUS
    <2>4. PICK base \in Int : base = x + z + y /\ Within(base, 4736)
      BY <2>1, <2>2, <2>3 DEF Within
    <2>5. StatBonus(n, score) = IF n.pv THEN base ELSE base + (base * tried) \div 256
      BY <2>1, <2>2, <2>3, <2>4 DEF StatBonus
    <2> HIDE DEF tried
    <2>6. PICK p \in Int : p = base * tried /\ Within(p, 4736 * 64)
      <3>1. (4736 - base) * tried >= 0 /\ (4736 + base) * tried >= 0
        BY <1>2, <2>4 DEF Within
      <3>2. base * tried <= 4736 * tried /\ -(4736 * tried) <= base * tried
        BY <3>1, <1>2, <2>4
      <3> QED BY <3>2, <1>2, <2>4 DEF Within
    <2>7. PICK q \in Int : q = p \div 256 /\ Within(q, 1184)
      BY <2>6, DivBetween DEF Within
    <2> QED BY <2>4, <2>5, <2>6, <2>7 DEF Within
  <1>5. /\ PriorScaledBonus(n, score) \in Int
        /\ 0 <= PriorScaledBonus(n, score) /\ PriorScaledBonus(n, score) <= PriorMost
    <2>1. PICK x \in Int : x = Quot(score, 98) /\ Within(x, 824)
      BY <1>a, QuotInt, QuotWithin
    <2>2. PICK y \in Int : y = Least(59 * depth, 420) /\ 0 <= y /\ y <= 420
      BY <1>1 DEF Least
    <2>3. PICK z \in Int : z = Least(150 * depth - 85, 1337) /\ 0 <= z /\ z <= 1337
      BY <1>1 DEF Least
    <2>4. PICK k \in Int : k = PriorBonusScale(n, score) /\ 0 <= k /\ k <= 1490
      BY <2>1, <2>2, <1>1 DEF PriorBonusScale, Within
    <2>5. z * k >= 0 /\ z * k <= 1337 * 1490
      <3>1. z * k >= 0 /\ (1337 - z) * k >= 0
        BY <2>3, <2>4
      <3> QED BY <3>1, <2>3, <2>4
    <2>6. PriorScaledBonus(n, score) = z * k
      BY <2>3, <2>4 DEF PriorScaledBonus
    <2>7. z * k \in Int /\ 0 <= z * k /\ z * k <= PriorMost
      BY <2>3, <2>4, <2>5 DEF PriorMost
    <2> QED BY <2>6, <2>7
  <1>6. EvalDiff(n.delta) \in Int
    BY <1>0 DEF EvalDiff, Least
  <1>7. CorrectionHistoryBonus(n) \in Int
    <2>1. PICK k \in Int : k = IF n.kind = "best" THEN 12 ELSE 18
      OBVIOUS
    <2>2. PICK x \in Int : x = delta * depth * k
      BY <1>1
    <2>3. Quot(x, 128) \in Int
      BY QuotInt
    <2>4. Clamped(Quot(x, 128), 256) \in Int
      BY <2>3, ClampedWithin
    <2>5. Quot(1061 * Clamped(Quot(x, 128), 256), 1024) \in Int
      BY <2>4, QuotInt
    <2> QED BY <2>1, <2>2, <2>5 DEF CorrectionHistoryBonus
  <1>8. MulticutCorrectionBonus(n) \in Int
    <2>1. Quot(n.delta * 664, 1024) \in Int
      BY <1>0, QuotInt
    <2> QED BY <2>1, ClampedWithin DEF MulticutCorrectionBonus
  <1> HIDE DEF depth, delta, easy, tried
  <1> QED BY <1>3, <1>4, <1>5, <1>6, <1>7, <1>8

LEMMA BestMoveQueued ==
  ASSUME NEW n \in Nodes, NEW score \in Scores
  PROVE  BestMove(n, score) \in Queue
  <1> DEFINE Bonus  == StatBonus(n, score)
             Malus  == StatMalus(n.depth)
             P == Quot(Bonus * 1427, 1024)
             Q == Quot(Bonus * 899, 1024)
             R == Quot(Malus * 1159, 1024)
             S == Quot(-Malus * 713, 1024)
             T == Quot(-Malus * 1489, 1024)
             Loop   == [table |-> "quiets", node |-> n, at |-> 1, malus |-> R]
             A == IF n.isCapture
                    THEN Nudge("capture", n.row, n.move, P, FALSE)
                    ELSE UpdateQuietHistories(n, n.move, Q, FALSE) \o <<Loop>>
             B == IF n.prev # NoMove /\ n.prevEarly
                    THEN Walk(n.before, n.checkedBefore, n.prev, S, FALSE) ELSE <<>>
             C == [j \in 1..Len(n.captures) |->
                     Nudge("capture", n.row, n.captures[j], T, FALSE)[1]]
             D == IF n.pv THEN <<>> ELSE Nudge("ttMove", n.row, n.move, IF n.isTt THEN 918 ELSE -747, FALSE)
  <1>0. n.row \in Pages \cup {NoMove} /\ n.move \in Moves /\ n.captures \in Seq(Moves)
    BY MoveTyped
  <1>1. "capture" \in Tables \ {"cont"} /\ "ttMove" \in Tables \ {"cont"}
    BY DEF Tables, OwnTables, SharedTables
  <1>2. Bonus \in Int /\ Malus \in Int /\ Within(Bonus, 6000) /\ Within(Malus, 2244)
    BY BonusTyped
  <1>3. BestMove(n, score) = A \o B \o C \o D
    BY DEF BestMove
  <1> HIDE DEF Bonus, Malus
  <1>4. P \in Int /\ Q \in Int /\ R \in Int /\ S \in Int /\ T \in Int
    <2>1. \A x \in Int : Quot(x, 1024) \in Int
      BY QuotInt
    <2>2. Bonus * 1427 \in Int /\ Bonus * 899 \in Int /\ Malus * 1159 \in Int /\ -Malus * 713 \in Int /\ -Malus * 1489 \in Int
      BY <1>2
    <2> QED BY <2>1, <2>2
  <1>12. Within(Q, QuietMost) /\ Within(R, MalusMost) /\ Within(S, WalkMost)
    <2>1. Within(Q, QuietMost)
      BY <1>2, QuotWithin DEF Within, QuietMost
    <2>2. Within(R, MalusMost)
      BY <1>2, QuotWithin DEF Within, MalusMost
    <2>3. Within(S, WalkMost)
      BY <1>2, QuotWithin DEF Within, WalkMost
    <2> QED BY <2>1, <2>2, <2>3
  <1>13. \A t \in Tables \ {"cont"}, m \in Moves, b \in Int : Nudge(t, n.row, m, b, FALSE) \in Queue
    BY <1>0, NudgeQueued
  <1> HIDE DEF P, Q, R, S, T
  <1>5. A \in Queue
    <2>1. CASE n.isCapture
      <3>1. Nudge("capture", n.row, n.move, P, FALSE) \in Queue
        BY <1>0, <1>1, <1>4, <1>13
      <3> QED BY <2>1, <3>1
    <2>2. CASE ~n.isCapture
      <3>1. UpdateQuietHistories(n, n.move, Q, FALSE) \in Queue
        BY <1>0, <1>4, <1>12, UpdateQuietPlain
      <3>2. Loop \in GoodLoops
        <4>1. Loop \in Loops /\ Loop.malus = R
          BY <1>4 DEF Loops, SEARCHED_LIST
        <4> QED BY <4>1, <1>12 DEF GoodLoops
      <3> HIDE DEF Loop
      <3>3. <<Loop>> \in Queue
        BY <3>2 DEF Queue, Items
      <3> QED BY <2>2, <3>1, <3>3, Concat
    <2> QED BY <2>1, <2>2
  <1>6. B \in Queue
    <2>1. CASE n.prev # NoMove /\ n.prevEarly
      <3>1. n.prev \in Moves /\ n.before \in Frames /\ n.checkedBefore \in BOOLEAN
        BY <2>1, MoveTyped
      <3>2. Walk(n.before, n.checkedBefore, n.prev, S, FALSE) \in Queue
        BY <3>1, <1>4, <1>12, WalkPlain
      <3> QED BY <2>1, <3>2
    <2>2. CASE ~(n.prev # NoMove /\ n.prevEarly)
      BY <2>2, EmptyQueue
    <2> QED BY <2>1, <2>2
  <1>7. C \in Queue
    <2> DEFINE N(j) == Nudge("capture", n.row, n.captures[j], T, FALSE)
    <2>1. ASSUME NEW j \in 1..Len(n.captures)
          PROVE  N(j)[1] \in Items
      <3>1. n.captures[j] \in Moves
        BY <1>0
      <3>2. N(j) \in Queue
        BY <3>1, <1>0, <1>1, <1>4, <1>13
      <3>3. Len(N(j)) = 1
        BY DEF Nudge
      <3> HIDE DEF N
      <3> QED BY <3>2, <3>3, First
    <2>2. Len(n.captures) \in Nat
      BY <1>0
    <2>3. PICK k \in Nat : k = Len(n.captures)
      BY <2>2
    <2> HIDE DEF N
    <2>4. [j \in 1..k |-> N(j)[1]] \in Seq(Items)
      BY <2>1, <2>3
    <2> QED BY <2>3, <2>4 DEF Queue, N
  <1>8. D \in Queue
    <2>1. CASE n.pv
      BY <2>1, EmptyQueue
    <2>2. CASE ~n.pv
      <3>1. PICK b \in Int : b = IF n.isTt THEN 918 ELSE -747
        OBVIOUS
      <3>2. Nudge("ttMove", n.row, n.move, b, FALSE) \in Queue
        BY <1>0, <1>1, <1>13
      <3>3. D = Nudge("ttMove", n.row, n.move, b, FALSE)
        <4>1. D = Nudge("ttMove", n.row, n.move, IF n.isTt THEN 918 ELSE -747, FALSE)
          BY <2>2
        <4> HIDE DEF D
        <4> QED BY <4>1, <3>1
      <3> HIDE DEF D
      <3> QED BY <3>2, <3>3
    <2> QED BY <2>1, <2>2
  <1> HIDE DEF A, B, C, D
  <1>9. A \o B \in Queue
    BY <1>5, <1>6, Concat
  <1>10. A \o B \o C \in Queue
    BY <1>7, <1>9, Concat
  <1>11. A \o B \o C \o D \in Queue
    BY <1>8, <1>10, Concat
  <1> QED BY <1>3, <1>11


LEMMA PriorMoveQueued ==
  ASSUME NEW n \in Nodes, n.prev # NoMove, NEW scaled \in Int, 0 <= scaled, scaled <= PriorMost
  PROVE  PriorMove(n, scaled) \in Queue
  <1> DEFINE P == Quot(scaled * 263, 16384)
             Q == Quot(scaled * 215, 32768)
             R == Quot(scaled * 324, 8192)
             A == Walk(n.before, n.checkedBefore, n.prev, P, TRUE)
             B == Nudge("main", n.row, n.prev, Q, TRUE)
             C == IF n.prevPawn THEN <<>> ELSE Nudge("pawn", n.row, n.prev, R, TRUE)
  <1>0. n.row \in Pages \cup {NoMove} /\ n.prev \in Moves /\ n.before \in Frames /\ n.checkedBefore \in BOOLEAN
    BY MoveTyped
  <1>1. "main" \in Tables \ {"cont"} /\ "pawn" \in Tables \ {"cont"}
    BY DEF Tables, OwnTables, SharedTables
  <1>2. P \in Int /\ Q \in Int /\ R \in Int /\ P >= 0 /\ Q >= 0 /\ R >= 0
    <2>1. P \in Int /\ P >= 0
      BY QuotInt, QuotPositive
    <2>2. Q \in Int /\ Q >= 0
      BY QuotInt, QuotPositive
    <2>3. R \in Int /\ R >= 0
      BY QuotInt, QuotPositive
    <2> QED BY <2>1, <2>2, <2>3
  <1>9. Within(P, WalkMost)
    BY QuotWithin DEF WalkMost, PriorMost
  <1>3. PriorMove(n, scaled) = A \o B \o C
    BY DEF PriorMove
  <1> HIDE DEF P, Q, R
  <1>10. \A t \in Tables \ {"cont"}, b \in Int : b >= 0 => Nudge(t, n.row, n.prev, b, TRUE) \in Queue
    BY <1>0, NudgeQueued
  <1>4. A \in Queue
    BY <1>0, <1>2, <1>9, WalkQueued
  <1>5. B \in Queue
    BY <1>1, <1>2, <1>10
  <1>6. C \in Queue
    <2>1. Nudge("pawn", n.row, n.prev, R, TRUE) \in Queue
      BY <1>1, <1>2, <1>10
    <2> QED BY <2>1, EmptyQueue
  <1> HIDE DEF A, B, C
  <1>7. A \o B \in Queue
    BY <1>4, <1>5, Concat
  <1>8. A \o B \o C \in Queue
    BY <1>6, <1>7, Concat
  <1> QED BY <1>3, <1>8

LEMMA CutoffQueued ==
  ASSUME NEW n \in Nodes
  PROVE  Cutoff(n) \in Queue
  <1> DEFINE P == 131 * n.depth
             Q == -2210
             A == IF n.isCapture THEN <<>> ELSE UpdateQuietHistories(n, n.move, P, TRUE)
             B == IF n.prev # NoMove /\ n.prevEarly THEN Walk(n.before, n.checkedBefore, n.prev, Q, FALSE) ELSE <<>>
  <1>1. P \in Int /\ Q \in Int /\ n.move \in Moves /\ P >= 0 /\ Within(P, QuietMost) /\ Within(Q, WalkMost)
    <2>1. n.depth \in Int /\ 1 <= n.depth /\ n.depth <= 247 /\ n.move \in Moves
      BY MoveTyped
    <2> QED BY <2>1 DEF Within, WalkMost, QuietMost
  <1>2. Cutoff(n) = A \o B
    BY DEF Cutoff
  <1> HIDE DEF P, Q
  <1>3. A \in Queue
    <2>1. \A b \in Int : b >= 0 /\ Within(b, QuietMost) => UpdateQuietHistories(n, n.move, b, TRUE) \in Queue
      BY <1>1, UpdateQuietQueued
    <2> QED BY <1>1, <2>1, EmptyQueue
  <1>4. B \in Queue
    <2>1. CASE n.prev # NoMove /\ n.prevEarly
      <3>1. n.prev \in Moves /\ n.before \in Frames /\ n.checkedBefore \in BOOLEAN
        BY <2>1, MoveTyped
      <3>2. Walk(n.before, n.checkedBefore, n.prev, Q, FALSE) \in Queue
        BY <1>1, <3>1, WalkPlain
      <3> QED BY <2>1, <3>2
    <2>2. CASE ~(n.prev # NoMove /\ n.prevEarly)
      BY <2>2, EmptyQueue
    <2> QED BY <2>1, <2>2
  <1> HIDE DEF A, B
  <1> QED BY <1>2, <1>3, <1>4, Concat

LEMMA OrderByEvalQueued ==
  ASSUME NEW n \in Nodes
  PROVE  OrderByEval(n) \in Queue
  <1>1. CASE n.checked \/ n.checkedBefore \/ n.prev = NoMove
    BY <1>1, EmptyQueue DEF OrderByEval
  <1>2. CASE ~(n.checked \/ n.checkedBefore \/ n.prev = NoMove)
    <2> DEFINE P == EvalDiff(n.delta) * 11
               Q == EvalDiff(n.delta) * 13
               A == Nudge("main", n.row, n.prev, P, FALSE)
               B == IF n.prevPawn THEN <<>> ELSE Nudge("pawn", n.row, n.prev, Q, FALSE)
    <2>0. n.row \in Pages \cup {NoMove} /\ n.prev \in Moves
      BY <1>2, MoveTyped
    <2>1. "main" \in Tables \ {"cont"} /\ "pawn" \in Tables \ {"cont"}
      BY DEF Tables, OwnTables, SharedTables
    <2>2. P \in Int /\ Q \in Int
      <3>1. EvalDiff(n.delta) \in Int
        <4>1. PICK score \in Scores : score = 0
          BY DEF Scores, Within
        <4> QED BY <4>1, BonusTyped
      <3> QED BY <3>1
    <2>3. OrderByEval(n) = A \o B
      BY <1>2 DEF OrderByEval
    <2> HIDE DEF P, Q
    <2>4. A \in Queue
      BY <2>0, <2>1, <2>2, NudgeQueued
    <2>5. B \in Queue
      <3>1. Nudge("pawn", n.row, n.prev, Q, FALSE) \in Queue
        BY <2>0, <2>1, <2>2, NudgeQueued
      <3> QED BY <3>1, EmptyQueue
    <2> HIDE DEF A, B
    <2> QED BY <2>3, <2>4, <2>5, Concat
  <1> QED BY <1>1, <1>2

LEMMA MulticutQueued ==
  ASSUME NEW n \in Nodes
  PROVE  Multicut(n) \in Queue
  <1> DEFINE P == -421 - 110 * n.depth
             A == Nudge("ttMove", n.row, n.move, P, FALSE)
             Q == MulticutCorrectionBonus(n)
             B == IF n.checked \/ n.delta <= 0 THEN <<>> ELSE UpdateCorrection(n, Q)
  <1>0. n.row \in Pages \cup {NoMove} /\ n.move \in Moves /\ P \in Int
    BY MoveTyped
  <1>1. "ttMove" \in Tables \ {"cont"}
    BY DEF Tables, OwnTables, SharedTables
  <1>2. Q \in Int
    <2>1. PICK score \in Scores : score = 0
      BY DEF Scores, Within
    <2> QED BY <2>1, BonusTyped
  <1>3. Multicut(n) = A \o B
    BY DEF Multicut
  <1> HIDE DEF P, Q
  <1>4. A \in Queue
    BY <1>0, <1>1, NudgeQueued
  <1>5. B \in Queue
    <2>1. UpdateCorrection(n, Q) \in Queue
      BY <1>2, UpdateCorrectionQueued
    <2> QED BY <2>1, EmptyQueue
  <1> HIDE DEF A, B
  <1> QED BY <1>3, <1>4, <1>5, Concat

LEMMA CorrectQueued ==
  ASSUME NEW n \in Nodes
  PROVE  Correct(n) \in Queue
  <1>1. CorrectionHistoryBonus(n) \in Int
    <2>1. PICK score \in Scores : score = 0
      BY DEF Scores, Within
    <2> QED BY <2>1, BonusTyped
  <1>2. UpdateCorrection(n, CorrectionHistoryBonus(n)) \in Queue
    BY <1>1, UpdateCorrectionQueued
  <1> QED BY <1>2, EmptyQueue, Zenon DEF Correct


LEMMA EndsQueued ==
  ASSUME NEW n \in Nodes, NEW score \in Scores
  PROVE  Ends(n, score) \in Queue
  <1> DEFINE P == 1334
             Q == 892
             A == Walk(n.frames, n.checked, n.move, P, TRUE)
             B == IF n.prev = NoMove THEN <<>> ELSE PriorMove(n, PriorScaledBonus(n, score))
             C == IF n.prev = NoMove THEN <<>> ELSE Nudge("capture", n.row, n.prev, Q, TRUE)
  <1>0. P \in Int /\ Q \in Int /\ P >= 0 /\ Q >= 0 /\ Within(P, WalkMost)
    BY DEF Within, WalkMost
  <1>1. Cutoff(n) \in Queue /\ OrderByEval(n) \in Queue /\ Multicut(n) \in Queue /\ Correct(n) \in Queue
    BY CutoffQueued, OrderByEvalQueued, MulticutQueued, CorrectQueued
  <1>2. Ends(n, score) \in {Cutoff(n), OrderByEval(n), Multicut(n), Correct(n), A,
                            BestMove(n, score) \o Correct(n), B \o Correct(n), C \o Correct(n)}
    BY DEF Ends
  <1> HIDE DEF P, Q
  <1>3. A \in Queue
    <2>1. n.frames \in Frames /\ n.checked \in BOOLEAN /\ n.move \in Moves
      BY MoveTyped
    <2> QED BY <1>0, <2>1, WalkQueued
  <1>4. BestMove(n, score) \o Correct(n) \in Queue
    BY <1>1, BestMoveQueued, Concat
  <1>5. B \in Queue
    <2>1. CASE n.prev = NoMove
      BY <2>1, EmptyQueue
    <2>2. CASE n.prev # NoMove
      <3>1. PriorMove(n, PriorScaledBonus(n, score)) \in Queue
        BY <2>2, BonusTyped, PriorMoveQueued
      <3> QED BY <2>2, <3>1
    <2> QED BY <2>1, <2>2
  <1>6. C \in Queue
    <2>1. CASE n.prev = NoMove
      BY <2>1, EmptyQueue
    <2>2. CASE n.prev # NoMove
      <3>1. n.prev \in Moves /\ n.row \in Pages \cup {NoMove}
        BY <2>2, MoveTyped
      <3>2. "capture" \in Tables \ {"cont"}
        BY DEF Tables, OwnTables, SharedTables
      <3>3. Nudge("capture", n.row, n.prev, Q, TRUE) \in Queue
        BY <1>0, <3>1, <3>2, NudgeQueued
      <3> QED BY <2>2, <3>3
    <2> QED BY <2>1, <2>2
  <1> HIDE DEF A, B, C
  <1>7. B \o Correct(n) \in Queue /\ C \o Correct(n) \in Queue
    BY <1>1, <1>5, <1>6, Concat
  <1> QED BY <1>1, <1>2, <1>3, <1>4, <1>7

-----------------------------------------------------------------------------
(* What a worker does next with what is queued *)

LEMMA ItemTyped ==
  ASSUME NEW u \in Items
  PROVE  /\ u.table \in Tables \cup {"quiets"}
         /\ u.table \in Tables \ {"cont"} => u.cell \in Cells /\ u.bonus \in Int
         /\ u.table = "cont" => u \in GoodWalks
         /\ u.table = "quiets" => u \in GoodLoops
         /\ u.table \in Tables /\ u.reward => u.bonus >= 0
  <1>0. "cont" \in Tables /\ "quiets" \notin Tables
    BY DEF Tables, OwnTables, SharedTables
  <1>1. CASE u \in GoodNudges
    <2>1. u \in Nudges /\ (u.reward => u.bonus >= 0)
      BY <1>1 DEF GoodNudges
    <2>2. u.table \in Tables \ {"cont"} /\ u.cell \in Cells /\ u.bonus \in Int
      BY <2>1 DEF Nudges
    <2> QED BY <1>0, <2>1, <2>2
  <1>2. CASE u \in GoodWalks
    <2>1. u.table = "cont" /\ (u.reward => u.bonus >= 0)
      BY <1>2 DEF GoodWalks, Walks
    <2> QED BY <1>0, <1>2, <2>1
  <1>3. CASE u \in GoodLoops
    <2>1. u.table \in {"quiets"}
      BY <1>3 DEF GoodLoops, Loops
    <2> QED BY <1>0, <1>3, <2>1
  <1> QED BY <1>1, <1>2, <1>3 DEF Items

LEMMA OwnItemTyped ==
  ASSUME NEW u \in Items, u.table \in OwnTables
  PROVE  u.cell \in Cells /\ u.bonus \in Int
  <1>1. OwnTables \subseteq Tables \ {"cont"}
    BY DEF Tables, OwnTables, SharedTables
  <1> QED BY <1>1, ItemTyped, Zenon

\* A walk that comes to a frame updates an entry of it.
LEMMA WalkVisits ==
  ASSUME NEW u \in GoodWalks, NEW k \in 1..6, NextFrame(u.frames, u.checked, k) # 6
  PROVE  /\ NextFrame(u.frames, u.checked, k) \in k..5
         /\ <<u.frames[NextFrame(u.frames, u.checked, k)], u.move>> \in Cells
  <1> DEFINE j == NextFrame(u.frames, u.checked, k)
  <1>1. j \in k..6
    BY NextFrameIs
  <1>2. j \in k..5
    BY <1>1
  <1>3. u.frames \in Frames /\ u.move \in Moves
    BY DEF GoodWalks, Walks
  <1> HIDE DEF j
  <1>4. j \in 1..5
    BY <1>2
  <1>5. u.frames[j] \in Pages \cup {NoMove}
    BY <1>3, <1>4 DEF Frames
  <1>6. <<u.frames[j], u.move>> \in Cells
    BY <1>3, <1>5 DEF Cells
  <1> QED BY <1>2, <1>6 DEF j

LEMMA WalkTyped ==
  ASSUME NEW u \in GoodWalks
  PROVE  /\ u.table = "cont" /\ u.bonus \in Int /\ Within(u.bonus, WalkMost)
         /\ NextFrame(u.frames, u.checked, 1) # 6
  <1>1. u \in Walks /\ Within(u.bonus, WalkMost) /\ NextFrame(u.frames, u.checked, 1) # 6
    BY DEF GoodWalks
  <1>2. u.table \in {"cont"} /\ u.bonus \in Int
    BY <1>1 DEF Walks
  <1> QED BY <1>1, <1>2

\* The bonus a walk applies: unclamped, it is right where its own was in the band.
LEMMA DeltaWithin ==
  ASSUME NEW b \in Int, NEW k \in 1..5, NEW c \in 0..5
  PROVE  LET delta == Push(b, ConthistScale(k, c)) + (IF k = 1 THEN CONTHIST_NEAR_FRAME_BONUS ELSE 0)
         IN  delta \in Int /\ (Bounded(b) => Within(delta, Limit["cont"]))
  <1> DEFINE s == ConthistScale(k, c)
  <1>1. s \in Int /\ 0 <= s /\ s <= 65536
    BY ScaleFits
  <1>2. Limit["cont"] = 30000
    BY DEF Limit, Tables, OwnTables, SharedTables
  <1> HIDE DEF s
  <1>3. Push(b, s) \in Int
    <2>1. b * s \in Int
      BY <1>1
    <2> QED BY <2>1, QuotInt DEF Push
  <1>4. Bounded(b) => Within(Push(b, s), 29927)
    <2> SUFFICES ASSUME Bounded(b) PROVE Within(Push(b, s), 29927)
      OBVIOUS
    <2>1. -29927 <= b /\ b <= 29927
      BY <1>2 DEF Bounded, Within, CONTHIST_BONUS_BOUND, CONTHIST_NEAR_FRAME_BONUS
    <2>2. PICK d \in Int : d = 29927
      OBVIOUS
    <2>3. Within(Push(b, s), d)
      BY <2>1, <2>2, <1>1, PushWithin
    <2> QED BY <2>2, <2>3
  <1>5. PICK y \in Int : y = Push(b, s)
    BY <1>3
  <1>6. PICK z \in Int : z = IF k = 1 THEN CONTHIST_NEAR_FRAME_BONUS ELSE 0
    BY DEF CONTHIST_NEAR_FRAME_BONUS
  <1>7. y + z \in Int /\ (Bounded(b) => Within(y + z, 30000))
    BY <1>4, <1>5, <1>6 DEF Within, CONTHIST_NEAR_FRAME_BONUS
  <1> QED BY <1>2, <1>5, <1>6, <1>7 DEF s


-----------------------------------------------------------------------------
(* The steps *)

LEMMA HeadQueued ==
  ASSUME NEW s \in Queue, s # <<>>
  PROVE  Head(s) \in Items /\ Tail(s) \in Queue
  BY DEF Queue

LEMMA LoopPushed ==
  ASSUME NEW l \in GoodLoops, NEW s \in Queue
  PROVE  <<l>> \o s \in Queue
  <1>1. <<l>> \in Queue
    BY DEF Queue, Items
  <1> QED BY <1>1, Concat

\* A worker that takes no part is where it was.
LEMMA Unmoved ==
  ASSUME NEW v, UnderWay(v), phase'[v] = phase[v], todo'[v] = todo[v], held'[v] = held[v],
         at'[v] = at[v], count'[v] = count[v]
  PROVE  UnderWay(v)'
  <1>1. Frame(v)' = Frame(v) /\ Cell(v)' = Cell(v) /\ (Walking(v)' <=> Walking(v))
    BY DEF Frame, Cell, Walking
  <1> QED BY <1>1 DEF UnderWay, Visits

\* A worker that turns to its next update starts at the first frame of it.
LEMMA TurnsTo ==
  ASSUME NEW v, todo'[v] \in Queue, phase'[v] = "idle", at'[v] = 1, count'[v] = 0
  PROVE  UnderWay(v)'
  <1>1. CASE ~(todo'[v] # <<>> /\ Head(todo'[v]).table = "cont")
    BY <1>1 DEF UnderWay, Walking
  <1>2. CASE todo'[v] # <<>> /\ Head(todo'[v]).table = "cont"
    <2> DEFINE u == Head(todo'[v])
    <2>1. u \in GoodWalks
      BY <1>2, HeadQueued, ItemTyped
    <2>2. NextFrame(u.frames, u.checked, 1) # 6
      BY <2>1, WalkTyped
    <2>3. /\ NextFrame(u.frames, u.checked, 1) \in 1..5
          /\ <<u.frames[NextFrame(u.frames, u.checked, 1)], u.move>> \in Cells
      <3>1. PICK k \in 1..6 : k = 1
        OBVIOUS
      <3>2. NextFrame(u.frames, u.checked, k) # 6
        BY <2>2, <3>1
      <3>3. /\ NextFrame(u.frames, u.checked, k) \in k..5
            /\ <<u.frames[NextFrame(u.frames, u.checked, k)], u.move>> \in Cells
        BY <2>1, <3>2, WalkVisits
      <3> QED BY <3>1, <3>3
    <2>4. Walking(v)' /\ Frame(v)' = NextFrame(u.frames, u.checked, 1)
          /\ Cell(v)' = <<u.frames[NextFrame(u.frames, u.checked, 1)], u.move>>
      BY <1>2 DEF Walking, Frame, Cell
    <2>5. Visits(v)'
      BY <2>3, <2>4 DEF Visits
    <2> QED BY <1>2, <2>4, <2>5 DEF UnderWay
  <1> QED BY <1>1, <1>2

LEMMA InitHolds == Init => IInv
  <1> SUFFICES ASSUME Init PROVE IInv
    OBVIOUS
  <1>1. PICK l \in Levels : /\ own = [w \in Workers |-> [t \in OwnTables |-> [c \in Cells |-> Level(l, t)]]]
                            /\ start = [t \in SharedTables |-> Level(l, t)]
    BY DEF Init
  <1>2. \A t \in Tables : Level(l, t) \in Int /\ Within(Level(l, t), Limit[t])
    BY LimitsPositive, FillWithin DEF Level, Within
  <1>3. OwnTables \subseteq Tables /\ SharedTables \subseteq Tables
    BY DEF Tables
  <1>4. own \in [Workers -> [OwnTables -> [Cells -> Int]]]
    BY <1>1, <1>2, <1>3
  <1>5. shared = [t \in SharedTables |-> [c \in Cells |-> Level(l, t)]]
    BY <1>1 DEF Init
  <1>6. shared \in [SharedTables -> [Cells -> Int]]
    BY <1>2, <1>3, <1>5
  <1>7. EntriesWithin
    BY <1>1, <1>2, <1>3, <1>5 DEF EntriesWithin
  <1>8. TypeInv
    <2>1. 0 \in Scores
      BY DEF Scores, Within
    <2> QED BY <1>4, <1>6, <2>1, EmptyQueue DEF Init, TypeInv, Queue
  <1>9. \A w \in Workers : UnderWay(w)
    BY DEF Init, UnderWay
  <1> QED BY <1>7, <1>8, <1>9 DEF IInv

LEMMA StartSearchKeeps ==
  ASSUME IInv, NEW w \in Workers, StartSearch(w)
  PROVE  IInv'
  <1> DEFINE low  == [c \in Cells |-> Fill["lowPly"]]
             main == [c \in Cells |-> Quot(own[w].main[c] * 729, 1024)]
  <1>1. /\ own \in [Workers -> [OwnTables -> [Cells -> Int]]]
        /\ \A v \in Workers, t \in OwnTables, c \in Cells : Within(own[v][t][c], Limit[t])
    BY DEF IInv, TypeInv, EntriesWithin
  <1>2. "lowPly" \in OwnTables /\ "main" \in OwnTables /\ OwnTables \subseteq Tables
    BY DEF Tables, OwnTables
  <1>3. low \in [Cells -> Int] /\ \A c \in Cells : Within(low[c], Limit["lowPly"])
    BY <1>2, FillWithin
  <1>4. main \in [Cells -> Int] /\ \A c \in Cells : Within(main[c], Limit["main"])
    <2>1. ASSUME NEW c \in Cells
          PROVE  Quot(own[w].main[c] * 729, 1024) \in Int /\ Within(Quot(own[w].main[c] * 729, 1024), Limit["main"])
      <3>1. PICK x \in Int : x = own[w].main[c]
        BY <1>1, <1>2
      <3>2. Within(x, Limit["main"]) /\ Limit["main"] \in Int /\ Limit["main"] > 0
        BY <1>1, <1>2, <3>1, LimitsPositive
      <3>3. Quot(x * 729, 1024) \in Int /\ Within(Quot(x * 729, 1024), Limit["main"])
        BY <3>2, AgedWithin
      <3> QED BY <3>1, <3>3
    <2> QED BY <2>1
  <1>5. own' = [own EXCEPT ![w].lowPly = low, ![w].main = main]
    BY DEF StartSearch
  <1> HIDE DEF low, main
  <1>6. own' \in [Workers -> [OwnTables -> [Cells -> Int]]]
    BY <1>1, <1>2, <1>3, <1>4, <1>5
  <1>7. ASSUME NEW v \in Workers, NEW t \in OwnTables, NEW c \in Cells
        PROVE  Within(own'[v][t][c], Limit[t])
    <2>1. CASE v = w /\ t = "main"
      <3>1. own'[v][t] = main
        BY <2>1, <1>1, <1>2, <1>5
      <3> QED BY <2>1, <3>1, <1>4
    <2>2. CASE v = w /\ t = "lowPly"
      <3>1. own'[v][t] = low
        BY <2>2, <1>1, <1>2, <1>5
      <3> QED BY <2>2, <3>1, <1>3
    <2>3. CASE ~(v = w /\ t \in {"main", "lowPly"})
      <3>1. own'[v][t] = own[v][t]
        BY <2>3, <1>1, <1>2, <1>5
      <3> QED BY <3>1, <1>1
    <2> QED BY <2>1, <2>2, <2>3
  <1>8. UNCHANGED <<shared, stat, todo, phase, held, at, count>>
    BY DEF StartSearch
  <1>9. TypeInv'
    BY <1>6, <1>8 DEF IInv, TypeInv
  <1>10. EntriesWithin'
    BY <1>7, <1>8 DEF IInv, EntriesWithin
  <1>11. \A v \in Workers : UnderWay(v)'
    BY <1>8, Unmoved DEF IInv
  <1> QED BY <1>9, <1>10, <1>11 DEF IInv

LEMMA ClearKeeps ==
  ASSUME IInv, Clear
  PROVE  IInv'
  <1>1. OwnTables \subseteq Tables /\ SharedTables \subseteq Tables
    BY DEF Tables
  <1>2. \A t \in Tables : Fill[t] \in Int /\ Within(Fill[t], Limit[t])
    BY FillWithin
  <1>3. /\ own' = [w \in Workers |-> [t \in OwnTables |-> IF t = "lowPly" THEN own[w][t] ELSE [c \in Cells |-> Fill[t]]]]
        /\ shared' = [t \in SharedTables |-> [c \in Cells |-> Fill[t]]]
        /\ stat' = [w \in Workers |-> 0]
        /\ UNCHANGED <<todo, phase, held, at, count>>
    BY DEF Clear
  <1>4. /\ own \in [Workers -> [OwnTables -> [Cells -> Int]]]
        /\ \A v \in Workers, t \in OwnTables, c \in Cells : Within(own[v][t][c], Limit[t])
    BY DEF IInv, TypeInv, EntriesWithin
  <1>5. own' \in [Workers -> [OwnTables -> [Cells -> Int]]]
    BY <1>1, <1>2, <1>3, <1>4
  <1>6. shared' \in [SharedTables -> [Cells -> Int]] /\ stat' \in [Workers -> Scores]
    BY <1>1, <1>2, <1>3 DEF Scores, Within
  <1>7. TypeInv'
    BY <1>3, <1>5, <1>6 DEF IInv, TypeInv
  <1>8. EntriesWithin'
    <2>1. ASSUME NEW v \in Workers, NEW t \in OwnTables, NEW c \in Cells
          PROVE  Within(own'[v][t][c], Limit[t])
      <3>1. own'[v][t][c] = IF t = "lowPly" THEN own[v][t][c] ELSE Fill[t]
        BY <1>3
      <3> QED BY <1>1, <1>2, <1>4, <3>1
    <2>2. ASSUME NEW t \in SharedTables, NEW c \in Cells
          PROVE  Within(shared'[t][c], Limit[t])
      BY <1>1, <1>2, <1>3
    <2> QED BY <2>1, <2>2 DEF EntriesWithin
  <1>9. \A v \in Workers : UnderWay(v)'
    BY <1>3, Unmoved DEF IInv
  <1> QED BY <1>7, <1>8, <1>9 DEF IInv


\* The score of a move is bounded by what the tables it is read from hold.
LEMMA QuietScores ==
  ASSUME NEW x \in Int, NEW y \in Int, NEW z \in Int, Within(x, 7183), Within(y, 30000), Within(z, 30000)
  PROVE  QuietStatScore(x, y, z) \in Scores
  <1>1. PICK s \in Int : s = 2252 * x + 1126 * y + 1093 * z /\ s < 1024 * (80806 + 1) /\ -s < 1024 * (80806 + 1)
    BY DEF Within
  <1>2. Quot(s, 1024) \in Int
    BY QuotInt
  <1>3. Within(Quot(s, 1024), 80806)
    BY <1>1, QuotWithin
  <1> QED BY <1>1, <1>2, <1>3 DEF QuietStatScore, Scores

LEMMA CaptureScores ==
  ASSUME NEW v \in Pieces, NEW x \in Int, Within(x, 10692)
  PROVE  CaptureStatScore(v, x) \in Scores
  <1>1. v \in Int /\ 0 <= v /\ v <= 2538
    <2>1. v \in 0..2538
      BY HistoriesAssumption DEF HistoriesAssumption
    <2> QED BY <2>1
  <1>2. PICK q \in Int : q = (873 * v) \div 128 /\ 0 <= q /\ q <= 17310
    BY <1>1, DivBetween
  <1> QED BY <1>2 DEF CaptureStatScore, Scores, Within

LEMMA LimitsAre == Limit["main"] = 7183 /\ Limit["capture"] = 10692 /\ Limit["cont"] = 30000
  BY DEF Limit, Tables, OwnTables, SharedTables

LEMMA RateKeeps ==
  ASSUME IInv, NEW w \in Workers, Rate(w)
  PROVE  IInv'
  <1>1. PICK m \in Moves, page \in Pages, near \in Pages, far \in Pages :
          \E score \in {QuietStatScore(own[w].main[<<page, m>>], shared.cont[<<near, m>>], shared.cont[<<far, m>>])}
                       \cup {CaptureStatScore(v, own[w].capture[<<page, m>>]) : v \in Pieces} :
            stat' = [stat EXCEPT ![w] = score]
    BY DEF Rate
  <1>2. <<page, m>> \in Cells /\ <<near, m>> \in Cells /\ <<far, m>> \in Cells
    BY DEF Cells
  <1>3. "main" \in OwnTables /\ "capture" \in OwnTables /\ "cont" \in SharedTables
    BY DEF OwnTables, SharedTables
  <1>4. /\ \A t \in OwnTables, c \in Cells : own[w][t][c] \in Int /\ Within(own[w][t][c], Limit[t])
        /\ \A t \in SharedTables, c \in Cells : shared[t][c] \in Int /\ Within(shared[t][c], Limit[t])
    BY DEF IInv, TypeInv, EntriesWithin
  <1>5. QuietStatScore(own[w].main[<<page, m>>], shared.cont[<<near, m>>], shared.cont[<<far, m>>]) \in Scores
    <2>1. /\ own[w].main[<<page, m>>] \in Int /\ Within(own[w].main[<<page, m>>], 7183)
          /\ shared.cont[<<near, m>>] \in Int /\ Within(shared.cont[<<near, m>>], 30000)
          /\ shared.cont[<<far, m>>] \in Int /\ Within(shared.cont[<<far, m>>], 30000)
      BY <1>2, <1>3, <1>4, LimitsAre
    <2> QED BY <2>1, QuietScores
  <1>6. \A v \in Pieces : CaptureStatScore(v, own[w].capture[<<page, m>>]) \in Scores
    <2>1. own[w].capture[<<page, m>>] \in Int /\ Within(own[w].capture[<<page, m>>], 10692)
      BY <1>2, <1>3, <1>4, LimitsAre
    <2>2. PICK x \in Int : x = own[w].capture[<<page, m>>] /\ Within(x, 10692)
      BY <2>1
    <2>3. \A v \in Pieces : CaptureStatScore(v, x) \in Scores
      BY <2>2, CaptureScores
    <2> QED BY <2>2, <2>3
  <1>7. stat' \in [Workers -> Scores]
    <2>1. PICK score : /\ score = QuietStatScore(own[w].main[<<page, m>>], shared.cont[<<near, m>>], shared.cont[<<far, m>>])
                          \/ \E v \in Pieces : score = CaptureStatScore(v, own[w].capture[<<page, m>>])
                       /\ stat' = [stat EXCEPT ![w] = score]
      BY <1>1
    <2>2. score \in Scores
      BY <2>1, <1>5, <1>6
    <2> QED BY <2>1, <2>2 DEF IInv, TypeInv
  <1>8. UNCHANGED <<own, shared, todo, phase, held, at, count>>
    BY DEF Rate
  <1>9. TypeInv' /\ EntriesWithin'
    BY <1>7, <1>8 DEF IInv, TypeInv, EntriesWithin
  <1>10. \A v \in Workers : UnderWay(v)'
    BY <1>8, Unmoved DEF IInv
  <1> QED BY <1>9, <1>10 DEF IInv

\* A worker with nothing to do, or in the loop over the quiets, holds nothing.
LEMMA Empty ==
  ASSUME IInv, NEW w \in Workers, todo[w] # <<>> => Head(todo[w]).table \notin SharedTables
  PROVE  phase[w] = "idle" /\ at[w] = 1 /\ count[w] = 0
  <1>1. "cont" \in SharedTables
    BY DEF SharedTables
  <1>2. UnderWay(w)
    BY DEF IInv
  <1> QED BY <1>1, <1>2 DEF UnderWay, Walking

LEMMA NodeEndsKeeps ==
  ASSUME IInv, NEW w \in Workers, NodeEnds(w)
  PROVE  IInv'
  <1>1. PICK n \in Nodes : todo' = [todo EXCEPT ![w] = Ends(n, stat[w])]
    BY DEF NodeEnds
  <1>2. Ends(n, stat[w]) \in Queue
    BY EndsQueued DEF IInv, TypeInv
  <1>3. todo \in [Workers -> Queue]
    BY DEF IInv, TypeInv, Queue
  <1>4. todo' \in [Workers -> Queue] /\ \A v \in Workers \ {w} : todo'[v] = todo[v]
    BY <1>1, <1>2, <1>3
  <1>5. UNCHANGED <<own, shared, stat, phase, held, at, count>>
    BY DEF NodeEnds
  <1>6. TypeInv' /\ EntriesWithin'
    BY <1>4, <1>5 DEF IInv, TypeInv, EntriesWithin, Queue
  <1>7. UnderWay(w)'
    <2>1. todo[w] = <<>>
      BY DEF NodeEnds, Between, Quiet
    <2>2. phase[w] = "idle" /\ at[w] = 1 /\ count[w] = 0
      BY <2>1, Empty
    <2> QED BY <2>2, <1>4, <1>5, TurnsTo
  <1>8. \A v \in Workers \ {w} : UnderWay(v)'
    BY <1>4, <1>5, Unmoved DEF IInv
  <1> QED BY <1>6, <1>7, <1>8 DEF IInv

LEMMA TurnQueued ==
  ASSUME NEW l \in GoodLoops
  PROVE  Turn(l) \in Queue
  <1>1. PICK n \in Nodes, i \in 1..(SEARCHED_LIST + 1), b \in Int :
              l = [table |-> "quiets", node |-> n, at |-> i, malus |-> b] /\ Within(b, MalusMost)
    BY DEF GoodLoops, Loops
  <1> DEFINE malus == Quot(b * 921, 1024)
             less == -malus
             A    == UpdateQuietHistories(n, n.quiets[i], less, FALSE)
             rest == [table |-> "quiets", node |-> n, at |-> i + 1, malus |-> malus]
  <1>2. malus \in Int /\ less \in Int /\ Within(malus, MalusMost) /\ Within(less, QuietMost)
    <2>1. malus \in Int
      BY <1>1, QuotInt
    <2>2. Within(malus, MalusMost)
      BY <1>1, QuotWithin DEF Within, MalusMost
    <2> QED BY <2>1, <2>2 DEF Within, MalusMost, QuietMost
  <1>3. Turn(l) = IF i > Len(n.quiets) THEN <<>> ELSE A \o <<rest>>
    BY <1>1 DEF Turn
  <1> HIDE DEF malus, less
  <1>4. CASE i > Len(n.quiets)
    BY <1>3, <1>4, EmptyQueue
  <1>5. CASE ~(i > Len(n.quiets))
    <2>1. n.quiets \in Seq(Moves) /\ Len(n.quiets) \in Int /\ Len(n.quiets) <= SEARCHED_LIST
      BY <1>1, MoveTyped
    <2>2. i \in 1..Len(n.quiets) /\ i + 1 \in 1..(SEARCHED_LIST + 1)
      <3>1. PICK k \in Int : k = Len(n.quiets) /\ k <= SEARCHED_LIST
        BY <2>1
      <3>2. i \in Int /\ 1 <= i /\ i <= k
        BY <1>1, <1>5, <3>1 DEF SEARCHED_LIST
      <3> QED BY <3>1, <3>2 DEF SEARCHED_LIST
    <2>3. A \in Queue
      <3>1. n.quiets[i] \in Moves
        BY <2>1, <2>2
      <3> QED BY <1>1, <1>2, <3>1, UpdateQuietPlain
    <2>4. rest \in GoodLoops
      <3>1. rest \in Loops /\ rest.malus = malus
        BY <1>1, <1>2, <2>2 DEF Loops
      <3> QED BY <3>1, <1>2 DEF GoodLoops
    <2> HIDE DEF A, rest
    <2>5. <<rest>> \in Queue
      BY <2>4 DEF Queue, Items
    <2>6. A \o <<rest>> \in Queue
      BY <2>3, <2>5, Concat
    <2> QED BY <1>3, <1>5, <2>6
  <1> QED BY <1>4, <1>5

LEMMA NextQuietKeeps ==
  ASSUME IInv, NEW w \in Workers, NextQuiet(w)
  PROVE  IInv'
  <1> DEFINE next == Turn(Head(todo[w])) \o Tail(todo[w])
  <1>1. todo \in [Workers -> Queue] /\ todo[w] # <<>> /\ Head(todo[w]).table = "quiets" /\ todo' = [todo EXCEPT ![w] = next]
    BY DEF IInv, TypeInv, Queue, NextQuiet
  <1>2. todo[w] \in Queue /\ Tail(todo[w]) \in Queue /\ Head(todo[w]) \in GoodLoops
    BY <1>1, HeadQueued, ItemTyped
  <1>5. next \in Queue
    BY <1>2, TurnQueued, Concat
  <1> HIDE DEF next
  <1>6. todo' \in [Workers -> Queue] /\ \A v \in Workers \ {w} : todo'[v] = todo[v]
    BY <1>1, <1>5
  <1>7. UNCHANGED <<own, shared, stat, phase, held, at, count>>
    BY DEF NextQuiet
  <1>8. TypeInv' /\ EntriesWithin'
    BY <1>6, <1>7 DEF IInv, TypeInv, EntriesWithin, Queue
  <1>9. UnderWay(w)'
    <2>1. "quiets" \notin SharedTables
      BY DEF SharedTables
    <2>2. phase[w] = "idle" /\ at[w] = 1 /\ count[w] = 0
      BY <1>1, <2>1, Empty
    <2> QED BY <2>2, <1>6, <1>7, TurnsTo
  <1>10. \A v \in Workers \ {w} : UnderWay(v)'
    BY <1>6, <1>7, Unmoved DEF IInv
  <1> QED BY <1>8, <1>9, <1>10 DEF IInv

LEMMA UpdateOwnKeeps ==
  ASSUME IInv, NEW w \in Workers, UpdateOwn(w)
  PROVE  IInv'
  <1> DEFINE u == Head(todo[w])
             t == u.table
             c == u.cell
             g == Gravity(own[w][t][c], Clamped(u.bonus, Limit[t]), Limit[t])
  <1>1. todo \in [Workers -> Queue] /\ todo[w] # <<>> /\ t \in OwnTables
    BY DEF IInv, TypeInv, Queue, UpdateOwn
  <1>2. todo[w] \in Queue /\ Tail(todo[w]) \in Queue /\ u \in Items
    BY <1>1, HeadQueued
  <1>3. OwnTables \subseteq Tables \ {"cont"} /\ OwnTables \cap SharedTables = {}
    BY DEF Tables, OwnTables, SharedTables
  <1>4. c \in Cells /\ u.bonus \in Int
    <2>1. u.table \in OwnTables
      BY Zenon DEF UpdateOwn
    <2> QED BY <1>2, <2>1, OwnItemTyped, Zenon
  <1>5. /\ own \in [Workers -> [OwnTables -> [Cells -> Int]]]
        /\ \A v \in Workers, t1 \in OwnTables, c1 \in Cells : Within(own[v][t1][c1], Limit[t1])
    BY DEF IInv, TypeInv, EntriesWithin
  <1>6. g \in Int /\ Within(g, Limit[t])
    <2>1. Limit[t] \in Int /\ Limit[t] > 0
      BY <1>1, <1>3, LimitsPositive
    <2>2. Clamped(u.bonus, Limit[t]) \in Int /\ Within(Clamped(u.bonus, Limit[t]), Limit[t])
      BY <1>4, <2>1, ClampedWithin
    <2>3. own[w][t][c] \in Int /\ Within(own[w][t][c], Limit[t])
      BY <1>1, <1>4, <1>5
    <2> QED BY <2>1, <2>2, <2>3, GravityWithin
  <1>7. own' = [own EXCEPT ![w][t][c] = g]
    BY <1>1, <1>4, <1>5 DEF UpdateOwn
  <1> HIDE DEF g, t, c
  <1>8. own' \in [Workers -> [OwnTables -> [Cells -> Int]]]
    BY <1>1, <1>4, <1>5, <1>6, <1>7
  <1>9. ASSUME NEW v \in Workers, NEW t1 \in OwnTables, NEW c1 \in Cells
        PROVE  Within(own'[v][t1][c1], Limit[t1])
    <2>1. CASE v = w /\ t1 = t /\ c1 = c
      BY <2>1, <1>1, <1>4, <1>5, <1>6, <1>7
    <2>2. CASE ~(v = w /\ t1 = t /\ c1 = c)
      <3>1. own'[v][t1][c1] = own[v][t1][c1]
        BY <2>2, <1>1, <1>4, <1>5, <1>7
      <3> QED BY <3>1, <1>5
    <2> QED BY <2>1, <2>2
  <1>10. todo' = [todo EXCEPT ![w] = Tail(todo[w])] /\ UNCHANGED <<shared, stat, phase, held, at, count>>
    BY DEF UpdateOwn
  <1>11. todo' \in [Workers -> Queue] /\ \A v \in Workers \ {w} : todo'[v] = todo[v]
    BY <1>1, <1>2, <1>10
  <1>12. TypeInv' /\ EntriesWithin'
    BY <1>8, <1>9, <1>10, <1>11 DEF IInv, TypeInv, EntriesWithin, Queue
  <1>13. UnderWay(w)'
    <2>1. phase[w] = "idle" /\ at[w] = 1 /\ count[w] = 0
      BY <1>1, <1>3, Empty DEF t
    <2> QED BY <2>1, <1>10, <1>11, TurnsTo
  <1>14. \A v \in Workers \ {w} : UnderWay(v)'
    BY <1>10, <1>11, Unmoved DEF IInv
  <1> QED BY <1>12, <1>13, <1>14 DEF IInv


\* The update of a shared entry that a worker has come to.
LEMMA SharedUpdate ==
  ASSUME IInv, NEW w \in Workers, todo[w] # <<>>, Head(todo[w]).table \in SharedTables
  PROVE  /\ Head(todo[w]).bonus \in Int /\ Cell(w) \in Cells
         /\ Walking(w) => /\ Head(todo[w]) \in GoodWalks
                          /\ Frame(w) \in 1..5 /\ at[w] \in 1..5 /\ at[w] <= Frame(w)
                          /\ count[w] \in 0..(IF phase[w] = "idle" THEN at[w] - 1 ELSE Frame(w))
  <1> DEFINE u == Head(todo[w])
  <1>1. UnderWay(w) /\ todo[w] \in Queue /\ at[w] \in 1..5
    BY DEF IInv, TypeInv, Queue
  <1>2. u \in Items
    BY <1>1, HeadQueued
  <1>3. SharedTables \subseteq Tables
    BY DEF Tables
  <1>4. CASE Walking(w)
    <2>1. u \in GoodWalks
      BY <1>2, <1>4, ItemTyped DEF Walking
    <2>2. u.bonus \in Int
      BY <2>1, WalkTyped
    <2> QED BY <1>1, <1>4, <2>1, <2>2 DEF UnderWay, Visits
  <1>5. CASE ~Walking(w)
    <2>1. u.cell \in Cells /\ u.bonus \in Int
      BY <1>2, <1>3, <1>5, ItemTyped DEF Walking
    <2> QED BY <1>5, <2>1 DEF Cell
  <1> QED BY <1>4, <1>5

LEMMA CountKeeps ==
  ASSUME IInv, NEW w \in Workers, Count(w)
  PROVE  IInv'
  <1> DEFINE one == IF shared.cont[Cell(w)] > 0 THEN 1 ELSE 0
  <1>1. todo[w] # <<>> /\ Walking(w) /\ phase[w] = "idle" /\ Head(todo[w]).table \in SharedTables
    BY DEF Count, Walking, SharedTables
  <1>2. /\ count' = [count EXCEPT ![w] = count[w] + one] /\ phase' = [phase EXCEPT ![w] = "counted"]
        /\ UNCHANGED <<own, shared, stat, todo, held, at>>
    BY DEF Count
  <1>3. count[w] \in 0..(at[w] - 1) /\ at[w] \in 1..5 /\ Frame(w) \in 1..5 /\ at[w] <= Frame(w) /\ Cell(w) \in Cells
    BY <1>1, SharedUpdate
  <1>4. one \in 0..1
    OBVIOUS
  <1> HIDE DEF one
  <1>5. count[w] + one \in 0..Frame(w)
    BY <1>3, <1>4
  <1>6. count' \in [Workers -> Int] /\ phase' \in [Workers -> {"idle", "counted", "loaded"}]
    BY <1>2, <1>5 DEF IInv, TypeInv
  <1>7. TypeInv' /\ EntriesWithin'
    BY <1>2, <1>6 DEF IInv, TypeInv, EntriesWithin
  <1>8. UnderWay(w)'
    <2>1. Frame(w)' = Frame(w) /\ Cell(w)' = Cell(w) /\ (Walking(w)' <=> Walking(w))
      BY <1>2 DEF Frame, Cell, Walking
    <2>2. count'[w] = count[w] + one /\ phase'[w] = "counted"
      BY <1>2 DEF IInv, TypeInv
    <2> QED BY <1>1, <1>2, <1>3, <1>5, <2>1, <2>2 DEF UnderWay, Visits
  <1>9. ASSUME NEW v \in Workers \ {w} PROVE UnderWay(v)'
    <2>1. count'[v] = count[v] /\ phase'[v] = phase[v]
      BY <1>2 DEF IInv, TypeInv
    <2> QED BY <1>2, <2>1, Unmoved DEF IInv
  <1> QED BY <1>7, <1>8, <1>9 DEF IInv

LEMMA LoadKeeps ==
  ASSUME IInv, NEW w \in Workers, Load(w)
  PROVE  IInv'
  <1> DEFINE t == Head(todo[w]).table
  <1>1. todo[w] # <<>> /\ t \in SharedTables /\ phase[w] = IF Walking(w) THEN "counted" ELSE "idle"
    BY DEF Load
  <1>2. /\ held' = [held EXCEPT ![w] = shared[t][Cell(w)]] /\ phase' = [phase EXCEPT ![w] = "loaded"]
        /\ UNCHANGED <<own, shared, stat, todo, at, count>>
    BY DEF Load
  <1>3. Cell(w) \in Cells
    BY <1>1, SharedUpdate
  <1>4. shared[t][Cell(w)] \in Int /\ Within(shared[t][Cell(w)], Limit[t])
    BY <1>1, <1>3 DEF IInv, TypeInv, EntriesWithin
  <1>5. held' \in [Workers -> Int] /\ phase' \in [Workers -> {"idle", "counted", "loaded"}]
    BY <1>2, <1>4 DEF IInv, TypeInv
  <1>6. TypeInv' /\ EntriesWithin'
    BY <1>2, <1>5 DEF IInv, TypeInv, EntriesWithin
  <1>7. UnderWay(w)'
    <2>1. Frame(w)' = Frame(w) /\ Cell(w)' = Cell(w) /\ (Walking(w)' <=> Walking(w))
      BY <1>2 DEF Frame, Cell, Walking
    <2>2. held'[w] = shared[t][Cell(w)] /\ phase'[w] = "loaded"
      BY <1>2 DEF IInv, TypeInv
    <2>3. UnderWay(w)
      BY DEF IInv
    <2>4. Walking(w) => Visits(w) /\ count[w] \in 0..Frame(w)
      BY <1>1, <2>3 DEF UnderWay
    <2>5. Walking(w) => Visits(w)'
      BY <1>2, <2>1, <2>4 DEF Visits
    <2> QED BY <1>1, <1>2, <1>4, <2>1, <2>2, <2>3, <2>4, <2>5 DEF UnderWay
  <1>8. ASSUME NEW v \in Workers \ {w} PROVE UnderWay(v)'
    <2>1. held'[v] = held[v] /\ phase'[v] = phase[v]
      BY <1>2 DEF IInv, TypeInv
    <2> QED BY <1>2, <2>1, Unmoved DEF IInv
  <1> QED BY <1>6, <1>7, <1>8 DEF IInv

\* What is about to be stored is in the band: `held` was, and so is what is added.
LEMMA AppliedWithin ==
  ASSUME IInv, NEW w \in Workers, todo[w] # <<>>, phase[w] = "loaded"
  PROVE  /\ Head(todo[w]).table \in SharedTables
         /\ Applied(w) \in Int /\ Within(Applied(w), Limit[Head(todo[w]).table])
         /\ Walking(w) /\ Bounded(Head(todo[w]).bonus) => Within(ConthistDelta(w), Limit["cont"])
  <1> DEFINE u == Head(todo[w])
  <1>1. u.table \in SharedTables
    BY DEF IInv, UnderWay
  <1>2. u.bonus \in Int
    BY <1>1, SharedUpdate
  <1>3. \A t \in SharedTables : Limit[t] \in Int /\ Limit[t] > 0
    BY LimitsPositive DEF Tables
  <1>4. CASE ~Walking(w)
    <2>1. Applied(w) = Clamped(u.bonus, Limit[u.table])
      BY <1>4 DEF Applied
    <2> QED BY <1>1, <1>2, <1>3, <1>4, <2>1, ClampedWithin
  <1>5. CASE Walking(w)
    <2>1. u.table = "cont"
      BY <1>5 DEF Walking
    <2>2. Frame(w) \in 1..5 /\ count[w] \in 0..5
      BY <1>1, <1>5, SharedUpdate
    <2>3. ConthistDelta(w) \in Int /\ (Bounded(u.bonus) => Within(ConthistDelta(w), Limit["cont"]))
      BY <1>2, <2>2, DeltaWithin DEF ConthistDelta
    <2>4. Limit["cont"] \in Int /\ Limit["cont"] > 0
      BY <1>3 DEF SharedTables
    <2>5. Clamped(ConthistDelta(w), Limit["cont"]) \in Int /\ Within(Clamped(ConthistDelta(w), Limit["cont"]), Limit["cont"])
      BY <2>3, <2>4, ClampedWithin
    <2> QED BY <1>1, <1>5, <2>1, <2>3, <2>5 DEF Applied
  <1> QED BY <1>4, <1>5

LEMMA StoreKeeps ==
  ASSUME IInv, NEW w \in Workers, Store(w)
  PROVE  IInv'
  <1> DEFINE u == Head(todo[w])
             t == u.table
             g == Gravity(held[w], Applied(w), Limit[t])
             more == Walking(w) /\ NextFrame(u.frames, u.checked, Frame(w) + 1) < 6
  <1>1. todo[w] # <<>> /\ phase[w] = "loaded" /\ t \in SharedTables /\ Cell(w) \in Cells /\ todo[w] \in Queue
    BY AppliedWithin, SharedUpdate DEF Store, IInv, TypeInv, Queue
  <1>2. g \in Int /\ Within(g, Limit[t])
    <2>1. Limit[t] \in Int /\ Limit[t] > 0
      BY <1>1, LimitsPositive DEF Tables
    <2>2. held[w] \in Int /\ Within(held[w], Limit[t])
      BY <1>1 DEF IInv, TypeInv, UnderWay
    <2>3. Applied(w) \in Int /\ Within(Applied(w), Limit[t])
      BY <1>1, AppliedWithin
    <2> QED BY <2>1, <2>2, <2>3, GravityWithin
  <1>3. /\ shared' = [shared EXCEPT ![t][Cell(w)] = g]
        /\ phase' = [phase EXCEPT ![w] = "idle"]
        /\ UNCHANGED <<own, stat, held>>
        /\ more => at' = [at EXCEPT ![w] = Frame(w) + 1] /\ UNCHANGED <<todo, count>>
        /\ ~more => /\ at' = [at EXCEPT ![w] = 1] /\ count' = [count EXCEPT ![w] = 0]
                    /\ todo' = [todo EXCEPT ![w] = Tail(todo[w])]
    BY DEF Store
  <1>4. more => Frame(w) + 1 \in 1..5 /\ Frame(w) \in 1..5
    <2> SUFFICES ASSUME more PROVE Frame(w) + 1 \in 1..5 /\ Frame(w) \in 1..5
      OBVIOUS
    <2>1. Frame(w) \in 1..5
      BY <1>1, SharedUpdate
    <2>2. PICK k \in 1..6 : k = Frame(w) + 1
      BY <2>1
    <2>3. NextFrame(u.frames, u.checked, k) \in k..6
      BY NextFrameIs
    <2>4. k \in 1..5
      BY <2>2, <2>3
    <2> QED BY <2>1, <2>2, <2>4
  <1> HIDE DEF g, t
  <1>5. shared' \in [SharedTables -> [Cells -> Int]]
    BY <1>1, <1>2, <1>3 DEF IInv, TypeInv
  <1>6. ASSUME NEW t1 \in SharedTables, NEW c1 \in Cells
        PROVE  Within(shared'[t1][c1], Limit[t1])
    <2>1. CASE t1 = t /\ c1 = Cell(w)
      BY <2>1, <1>1, <1>2, <1>3 DEF IInv, TypeInv
    <2>2. CASE ~(t1 = t /\ c1 = Cell(w))
      <3>1. shared'[t1][c1] = shared[t1][c1]
        BY <2>2, <1>1, <1>3 DEF IInv, TypeInv
      <3> QED BY <3>1 DEF IInv, EntriesWithin
    <2> QED BY <2>1, <2>2
  <1>7. EntriesWithin'
    BY <1>3, <1>6 DEF IInv, EntriesWithin
  <1>8. phase' \in [Workers -> {"idle", "counted", "loaded"}] /\ phase'[w] = "idle"
    BY <1>3 DEF IInv, TypeInv
  <1>9. CASE more
    <2>1. at' \in [Workers -> 1..5] /\ at'[w] = Frame(w) + 1
      <3>1. at' = [at EXCEPT ![w] = Frame(w) + 1]
        BY <1>3, <1>9
      <3>2. at \in [Workers -> 1..5]
        BY DEF IInv, TypeInv
      <3> QED BY <1>4, <1>9, <3>1, <3>2
    <2>2. TypeInv'
      BY <1>3, <1>5, <1>8, <1>9, <2>1 DEF IInv, TypeInv
    <2>3. UnderWay(w)'
      <3>1. u \in GoodWalks /\ count[w] \in 0..Frame(w)
        BY <1>1, <1>9, SharedUpdate DEF t
      <3>2. PICK k \in 1..5 : k = Frame(w) + 1 /\ k = at'[w]
        BY <1>4, <1>9, <2>1
      <3>3. NextFrame(u.frames, u.checked, k) # 6
        <4>1. NextFrame(u.frames, u.checked, k) < 6
          BY <1>9, <3>2
        <4> QED BY <4>1
      <3>4. /\ NextFrame(u.frames, u.checked, k) \in k..5
            /\ <<u.frames[NextFrame(u.frames, u.checked, k)], u.move>> \in Cells
        <4>1. k \in 1..6
          BY <3>2
        <4> QED BY <3>1, <3>3, <4>1, WalkVisits
      <3>5. Walking(w)' /\ Frame(w)' = NextFrame(u.frames, u.checked, k)
            /\ Cell(w)' = <<u.frames[NextFrame(u.frames, u.checked, k)], u.move>>
        BY <1>3, <1>9, <3>2 DEF Walking, Frame, Cell
      <3>6. Visits(w)'
        BY <3>2, <3>4, <3>5 DEF Visits
      <3>7. count'[w] \in 0..(at'[w] - 1)
        BY <1>3, <1>4, <1>9, <2>1, <3>1
      <3>8. todo'[w] # <<>>
        BY <1>1, <1>3, <1>9
      <3> QED BY <1>8, <3>5, <3>6, <3>7, <3>8 DEF UnderWay
    <2>4. ASSUME NEW v \in Workers \ {w} PROVE UnderWay(v)'
      <3>1. at'[v] = at[v] /\ phase'[v] = phase[v]
        BY <1>3, <1>9 DEF IInv, TypeInv
      <3> QED BY <1>3, <1>9, <3>1, Unmoved DEF IInv
    <2> QED BY <1>7, <2>2, <2>3, <2>4 DEF IInv
  <1>10. CASE ~more
    <2>1. at' \in [Workers -> 1..5] /\ count' \in [Workers -> Int] /\ at'[w] = 1 /\ count'[w] = 0
      <3>1. at' = [at EXCEPT ![w] = 1] /\ count' = [count EXCEPT ![w] = 0]
        BY <1>3, <1>10
      <3>2. at \in [Workers -> 1..5] /\ count \in [Workers -> Int] /\ 1 \in 1..5 /\ 0 \in Int
        BY DEF IInv, TypeInv
      <3> QED BY <3>1, <3>2
    <2>2. todo' \in [Workers -> Queue] /\ todo'[w] = Tail(todo[w])
      <3>1. Tail(todo[w]) \in Queue
        BY <1>1, HeadQueued
      <3>2. todo' = [todo EXCEPT ![w] = Tail(todo[w])]
        BY <1>3, <1>10
      <3>3. todo \in [Workers -> Queue]
        BY DEF IInv, TypeInv, Queue
      <3> QED BY <3>1, <3>2, <3>3
    <2>3. TypeInv'
      BY <1>3, <1>5, <1>8, <2>1, <2>2 DEF IInv, TypeInv, Queue
    <2>4. UnderWay(w)'
      BY <1>8, <2>1, <2>2, TurnsTo
    <2>5. ASSUME NEW v \in Workers \ {w} PROVE UnderWay(v)'
      <3>1. at'[v] = at[v] /\ phase'[v] = phase[v] /\ todo'[v] = todo[v] /\ count'[v] = count[v]
        BY <1>3, <1>10 DEF IInv, TypeInv
      <3> QED BY <1>3, <3>1, Unmoved DEF IInv
    <2> QED BY <1>7, <2>3, <2>4, <2>5 DEF IInv
  <1> QED BY <1>9, <1>10

-----------------------------------------------------------------------------
(* The theorems *)

\* What is stored, and what is being updated, is as the search left it.
THEOREM UpdatesAreTyped == Spec => []IInv
  <1>1. Init => IInv
    BY InitHolds
  <1>2. IInv /\ [Next]_vars => IInv'
    <2> SUFFICES ASSUME IInv, [Next]_vars PROVE IInv'
      OBVIOUS
    <2>1. CASE Next
      BY <2>1, ClearKeeps, StartSearchKeeps, RateKeeps, NodeEndsKeeps, NextQuietKeeps, UpdateOwnKeeps,
         CountKeeps, LoadKeeps, StoreKeeps DEF Next
    <2>2. CASE UNCHANGED vars
      <3>1. UNCHANGED <<own, shared, stat, todo, phase, held, at, count>>
        BY <2>2 DEF vars
      <3>2. \A v \in Workers : UnderWay(v)'
        BY <3>1, Unmoved DEF IInv
      <3> QED BY <3>1, <3>2 DEF IInv, TypeInv, EntriesWithin
    <2> QED BY <2>1, <2>2
  <1> QED BY <1>1, <1>2, PTL DEF Spec

\* history.h: for any workers and any node ends an entry stays in the band of its table,
\* int16_t as it is, although workers overwrite one another's updates, and the walk that
\* leaves the clamp out never leaves the band.
THEOREM EntriesKeepTheirBand == Spec => []WithinLimits
  <1>1. IInv => WithinLimits
    BY AppliedWithin DEF IInv, EntriesWithin, WithinLimits
  <1> QED BY <1>1, UpdatesAreTyped, PTL

\* search_common.c, conthist_delta: bonus * scale is an unguarded int product, and for any
\* workers and node ends it is never more than an int holds: the tables bound the score
\* of a move, the score the bonus, and the frames before this one the count.
THEOREM ProductsFit == Spec => []NoProductOverflows
  <1>1. IInv => NoProductOverflows
    <2> SUFFICES ASSUME IInv, NEW w \in Workers, todo[w] # <<>>, phase[w] \in {"counted", "loaded"}, Walking(w)
                 PROVE  Abs(Head(todo[w]).bonus) <= INT_MAX \div ConthistScale(Frame(w), count[w])
      BY DEF NoProductOverflows
    <2>1. Head(todo[w]).table \in SharedTables /\ phase[w] # "idle"
      BY DEF Walking, SharedTables
    <2>2. Head(todo[w]) \in GoodWalks /\ Frame(w) \in 1..5 /\ count[w] \in 0..5
      BY <2>1, SharedUpdate
    <2>3. PICK b \in Int : b = Head(todo[w]).bonus /\ Within(b, WalkMost)
      BY <2>2, WalkTyped
    <2>4. PICK s \in Int : s = ConthistScale(Frame(w), count[w]) /\ 0 < s /\ s <= 65520
      <3>1. PICK s \in Scales : s = ConthistScale(Frame(w), count[w])
        BY <2>2, ScaleBounds, Zenon
      <3> QED BY <3>1 DEF Scales
    <2>5. s * WalkMost <= INT_MAX /\ INT_MAX <= s * INT_MAX
      BY <2>4 DEF WalkMost, INT_MAX
    <2>6. WalkMost <= INT_MAX \div s /\ INT_MAX \div s \in Int
      BY <2>4, <2>5, DivBetween DEF WalkMost, INT_MAX
    <2>7. Abs(b) <= WalkMost
      BY <2>3 DEF Abs, Within, WalkMost
    <2>8. Abs(b) \in Int
      BY DEF Abs
    <2>9. Abs(b) <= INT_MAX \div s
      BY <2>6, <2>7, <2>8 DEF WalkMost
    <2> QED BY <2>3, <2>4, <2>9
  <1> QED BY <1>1, UpdatesAreTyped, PTL

-----------------------------------------------------------------------------
(* Rewards only raise *)

\* What a worker has read of an entry nothing but rewards was stored in is no less
\* than where the table stood.
HeldIsNoLess(w) ==
  phase[w] = "loaded" /\ <<Head(todo[w]).table, Cell(w)>> \notin punished
    => held[w] >= start[Head(todo[w]).table]

RewardInv ==
  /\ start \in [SharedTables -> Int]
  /\ \A w \in Workers : w \notin searching => todo[w] = <<>>
  /\ RewardsNeverPunish
  /\ \A w \in Workers : HeldIsNoLess(w)

LEMMA HeldStays ==
  ASSUME NEW v, HeldIsNoLess(v), phase'[v] = phase[v], todo'[v] = todo[v], held'[v] = held[v],
         at'[v] = at[v], punished \subseteq punished', start' = start
  PROVE  HeldIsNoLess(v)'
  <1>1. Cell(v)' = Cell(v)
    BY DEF Frame, Cell, Walking
  <1> QED BY <1>1 DEF HeldIsNoLess

\* A reward adds nothing negative, however it is scaled and clamped.
LEMMA RewardApplies ==
  ASSUME IInv, NEW w \in Workers, todo[w] # <<>>, phase[w] = "loaded", Head(todo[w]).reward
  PROVE  Applied(w) >= 0
  <1> DEFINE u == Head(todo[w])
  <1>1. u.table \in SharedTables
    BY AppliedWithin
  <1>2. \A t \in SharedTables : Limit[t] \in Int /\ Limit[t] > 0
    BY LimitsPositive DEF Tables
  <1>3. u.bonus \in Int /\ u.bonus >= 0
    <2>1. u \in Items
      BY HeadQueued DEF IInv, TypeInv, Queue
    <2>2. u.bonus >= 0
      BY <1>1, <2>1, ItemTyped DEF Tables
    <2> QED BY <1>1, <2>2, SharedUpdate
  <1>4. \A b, d \in Int : b >= 0 /\ d > 0 => Clamped(b, d) >= 0
    BY DEF Clamped
  <1>5. CASE ~Walking(w)
    <2>1. Applied(w) = Clamped(u.bonus, Limit[u.table])
      BY <1>5 DEF Applied
    <2> QED BY <1>1, <1>2, <1>3, <1>4, <2>1
  <1>6. CASE Walking(w)
    <2>1. Frame(w) \in 1..5 /\ count[w] \in 0..5
      BY <1>1, <1>6, SharedUpdate
    <2>2. ConthistDelta(w) \in Int /\ ConthistDelta(w) >= 0
      <3>1. PICK s \in Int : s = ConthistScale(Frame(w), count[w]) /\ 0 < s
        <4>1. PICK s \in Scales : s = ConthistScale(Frame(w), count[w])
          BY <2>1, ScaleBounds, Zenon
        <4> QED BY <4>1 DEF Scales
      <3>2. PICK b \in Int : b = u.bonus /\ b >= 0
        BY <1>3
      <3>3. b * s \in Int /\ b * s >= 0
        BY <3>1, <3>2
      <3>4. Push(b, s) \in Int /\ Push(b, s) >= 0
        BY <3>3, QuotInt, QuotPositive DEF Push
      <3>5. PICK z \in Int : z = (IF Frame(w) = 1 THEN CONTHIST_NEAR_FRAME_BONUS ELSE 0) /\ z >= 0
        BY DEF CONTHIST_NEAR_FRAME_BONUS
      <3>6. ConthistDelta(w) = Push(b, s) + z
        BY <3>1, <3>2, <3>5 DEF ConthistDelta
      <3> QED BY <3>4, <3>5, <3>6
    <2>3. Limit["cont"] \in Int /\ Limit["cont"] > 0
      BY <1>2 DEF SharedTables
    <2>4. Clamped(ConthistDelta(w), Limit["cont"]) >= 0
      BY <1>4, <2>2, <2>3
    <2> QED BY <1>6, <2>2, <2>4 DEF Applied
  <1> QED BY <1>5, <1>6

LEMMA RewardInit == Init => RewardInv
  <1> SUFFICES ASSUME Init PROVE RewardInv
    OBVIOUS
  <1>1. PICK l \in Levels : start = [t \in SharedTables |-> Level(l, t)]
    BY DEF Init
  <1>2. \A t \in SharedTables : Level(l, t) \in Int
    BY LimitsPositive, FillWithin DEF Level, Tables
  <1>3. start \in [SharedTables -> Int]
    BY <1>1, <1>2
  <1>4. RewardsNeverPunish
    BY <1>3 DEF Init, RewardsNeverPunish
  <1> QED BY <1>3, <1>4 DEF Init, RewardInv, HeldIsNoLess

\* The steps that store in no shared entry and load none.
LEMMA RewardAside ==
  ASSUME IInv, RewardInv, NEW w \in Workers,
         StartSearch(w) \/ Rate(w) \/ NodeEnds(w) \/ NextQuiet(w) \/ UpdateOwn(w) \/ Count(w)
  PROVE  RewardInv'
  <1>1. UNCHANGED <<shared, start, punished, held, at>> /\ searching \subseteq searching'
    BY DEF StartSearch, Rate, NodeEnds, NextQuiet, UpdateOwn, Count
  <1>2. \A v \in Workers \ {w} : todo'[v] = todo[v] /\ phase'[v] = phase[v]
    BY DEF StartSearch, Rate, NodeEnds, NextQuiet, UpdateOwn, Count, IInv, TypeInv
  <1>3. w \in searching' \/ todo'[w] = <<>>
    <2>1. w \in searching' \/ (searching' = searching /\ todo[w] # <<>>)
      BY DEF StartSearch, Rate, NodeEnds, NextQuiet, UpdateOwn, Count, Between
    <2>2. w \notin searching => todo[w] = <<>>
      BY DEF RewardInv
    <2> QED BY <2>1, <2>2, Zenon
  <1>4. (todo'[w] = todo[w] /\ phase'[w] = phase[w]) \/ phase'[w] # "loaded"
    <2>1. CASE StartSearch(w) \/ Rate(w)
      BY <2>1 DEF StartSearch, Rate
    <2>2. CASE NodeEnds(w)
      <3>1. todo[w] = <<>> /\ phase' = phase
        BY <2>2 DEF NodeEnds, Between, Quiet
      <3>2. phase[w] = "idle"
        BY <3>1, Empty
      <3> QED BY <3>1, <3>2
    <2>3. CASE NextQuiet(w)
      <3>1. Head(todo[w]).table = "quiets" /\ phase' = phase
        BY <2>3 DEF NextQuiet
      <3>2. "quiets" \notin SharedTables
        BY DEF SharedTables
      <3>3. phase[w] = "idle"
        BY <3>1, <3>2, Empty
      <3> QED BY <3>1, <3>3
    <2>4. CASE UpdateOwn(w)
      <3>1. Head(todo[w]).table \in OwnTables /\ phase' = phase
        BY <2>4 DEF UpdateOwn
      <3>2. OwnTables \cap SharedTables = {}
        BY DEF OwnTables, SharedTables
      <3>3. phase[w] = "idle"
        BY <3>1, <3>2, Empty
      <3> QED BY <3>1, <3>3
    <2>5. CASE Count(w)
      BY <2>5 DEF Count, IInv, TypeInv
    <2> QED BY <2>1, <2>2, <2>3, <2>4, <2>5
  <1>5. ASSUME NEW v \in Workers
        PROVE  HeldIsNoLess(v)' /\ (v \notin searching' => todo'[v] = <<>>)
    <2>1. HeldIsNoLess(v) /\ (v \notin searching => todo[v] = <<>>)
      BY DEF RewardInv
    <2>2. CASE v # w
      <3>1. todo'[v] = todo[v] /\ phase'[v] = phase[v]
        BY <1>2, <2>2
      <3>2. HeldIsNoLess(v)'
        BY <1>1, <2>1, <3>1, HeldStays
      <3> QED BY <1>1, <2>1, <3>1, <3>2
    <2>3. CASE v = w
      <3>1. CASE todo'[w] = todo[w] /\ phase'[w] = phase[w]
        <4>1. HeldIsNoLess(w)'
          BY <1>1, <2>1, <2>3, <3>1, HeldStays
        <4> QED BY <1>3, <2>3, <4>1
      <3>2. CASE phase'[w] # "loaded"
        <4>1. HeldIsNoLess(w)'
          BY <3>2 DEF HeldIsNoLess
        <4> QED BY <1>3, <2>3, <4>1
      <3> QED BY <1>4, <3>1, <3>2
    <2> QED BY <2>2, <2>3
  <1>6. RewardsNeverPunish' /\ start' \in [SharedTables -> Int]
    <2>1. shared' = shared /\ start' = start /\ punished' = punished
      BY <1>1
    <2>2. RewardsNeverPunish'
      BY <2>1, Zenon DEF RewardInv, RewardsNeverPunish
    <2>3. start' \in [SharedTables -> Int]
      BY <2>1, Zenon DEF RewardInv
    <2> QED BY <2>2, <2>3
  <1> QED BY <1>5, <1>6, Zenon DEF RewardInv

LEMMA RewardClear ==
  ASSUME IInv, RewardInv, Clear
  PROVE  RewardInv'
  <1>1. /\ start' = [t \in SharedTables |-> Fill[t]] /\ shared' = [t \in SharedTables |-> [c \in Cells |-> Fill[t]]]
        /\ searching' = {} /\ UNCHANGED <<todo, phase>>
    BY DEF Clear
  <1>2. \A t \in SharedTables : Fill[t] \in Int
    BY FillWithin DEF Tables
  <1>3. start' \in [SharedTables -> Int] /\ RewardsNeverPunish'
    BY <1>1, <1>2 DEF RewardsNeverPunish
  <1>4. ASSUME NEW w \in Workers PROVE todo'[w] = <<>> /\ HeldIsNoLess(w)'
    <2>1. todo[w] = <<>>
      BY DEF Clear, Quiet, RewardInv
    <2>2. phase[w] = "idle"
      BY <2>1, Empty
    <2> QED BY <1>1, <2>1, <2>2 DEF HeldIsNoLess
  <1> QED BY <1>3, <1>4 DEF RewardInv

LEMMA RewardLoad ==
  ASSUME IInv, RewardInv, NEW w \in Workers, Load(w)
  PROVE  RewardInv'
  <1> DEFINE t == Head(todo[w]).table
  <1>1. /\ t \in SharedTables /\ held' = [held EXCEPT ![w] = shared[t][Cell(w)]]
        /\ phase' = [phase EXCEPT ![w] = "loaded"]
        /\ UNCHANGED <<searching, shared, todo, at, start, punished>>
    BY DEF Load
  <1>2. Cell(w) \in Cells
    BY <1>1, SharedUpdate DEF Load
  <1>3. HeldIsNoLess(w)'
    <2>1. Cell(w)' = Cell(w) /\ held'[w] = shared[t][Cell(w)]
      BY <1>1 DEF Frame, Cell, Walking, IInv, TypeInv
    <2>2. <<t, Cell(w)>> \notin punished => shared[t][Cell(w)] >= start[t]
      BY <1>1, <1>2 DEF RewardInv, RewardsNeverPunish
    <2>3. punished' = punished /\ start' = start /\ todo' = todo
      BY <1>1
    <2>4. Head(todo[w])' = Head(todo[w])
      BY <1>1
    <2> QED BY <2>1, <2>2, <2>3, <2>4, Zenon DEF HeldIsNoLess
  <1>4. ASSUME NEW v \in Workers \ {w} PROVE HeldIsNoLess(v)'
    <2>1. held'[v] = held[v] /\ phase'[v] = phase[v]
      BY <1>1 DEF IInv, TypeInv
    <2> QED BY <1>1, <2>1, HeldStays DEF RewardInv
  <1> QED BY <1>1, <1>3, <1>4 DEF RewardInv, RewardsNeverPunish

\* A reward is stored over what was read, which another worker may have raised since:
\* the entry may lose that, but what was read was no less than where it stood.
LEMMA RewardStore ==
  ASSUME IInv, RewardInv, NEW w \in Workers, Store(w)
  PROVE  RewardInv'
  <1> DEFINE u == Head(todo[w])
             t == u.table
             g == Gravity(held[w], Applied(w), Limit[t])
  <1>1. todo[w] # <<>> /\ phase[w] = "loaded" /\ t \in SharedTables /\ Cell(w) \in Cells
    BY AppliedWithin, SharedUpdate DEF Store
  <1>2. /\ shared' = [shared EXCEPT ![t][Cell(w)] = g]
        /\ punished' = IF u.reward THEN punished ELSE punished \cup {<<t, Cell(w)>>}
        /\ phase' = [phase EXCEPT ![w] = "idle"]
        /\ UNCHANGED <<searching, held, start>>
    BY DEF Store
  <1>3. punished \subseteq punished'
    BY <1>2
  <1>4. \A v \in Workers \ {w} : at'[v] = at[v] /\ todo'[v] = todo[v] /\ phase'[v] = phase[v]
    BY DEF Store, IInv, TypeInv
  <1>5. ASSUME <<t, Cell(w)>> \notin punished'
        PROVE  g \in Int /\ g >= start[t]
    <2>1. u.reward /\ <<t, Cell(w)>> \notin punished
      BY <1>2, <1>5
    <2>2. Limit[t] \in Int /\ Limit[t] > 0
      BY <1>1, LimitsPositive DEF Tables
    <2>3. held[w] \in Int /\ Within(held[w], Limit[t])
      BY <1>1 DEF IInv, TypeInv, UnderWay
    <2>4. Applied(w) \in Int /\ Applied(w) >= 0 /\ Within(Applied(w), Limit[t])
      BY <1>1, <2>1, AppliedWithin, RewardApplies
    <2>5. g \in Int /\ g >= held[w]
      BY <2>2, <2>3, <2>4, GravityRises, GravityWithin
    <2>6. held[w] >= start[t] /\ start[t] \in Int
      BY <1>1, <2>1 DEF RewardInv, HeldIsNoLess
    <2> HIDE DEF g, t
    <2> QED BY <2>3, <2>5, <2>6
  <1> HIDE DEF g, t
  <1>6. ASSUME NEW t1 \in SharedTables, NEW c1 \in Cells, <<t1, c1>> \notin punished'
        PROVE  shared'[t1][c1] >= start'[t1]
    <2>1. CASE t1 = t /\ c1 = Cell(w)
      <3>1. shared'[t1][c1] = g
        BY <1>1, <1>2, <2>1 DEF IInv, TypeInv
      <3> QED BY <1>2, <1>5, <1>6, <2>1, <3>1
    <2>2. CASE ~(t1 = t /\ c1 = Cell(w))
      <3>1. shared'[t1][c1] = shared[t1][c1]
        BY <1>1, <1>2, <2>2 DEF IInv, TypeInv
      <3>2. <<t1, c1>> \notin punished
        BY <1>3, <1>6
      <3> QED BY <1>2, <3>1, <3>2 DEF RewardInv, RewardsNeverPunish
    <2> QED BY <2>1, <2>2
  <1>7. ASSUME NEW v \in Workers
        PROVE  HeldIsNoLess(v)' /\ (v \notin searching' => todo'[v] = <<>>)
    <2>1. CASE v = w
      <3>1. phase'[w] = "idle" /\ w \in searching
        BY <1>1, <1>2 DEF IInv, TypeInv, RewardInv
      <3> QED BY <1>2, <2>1, <3>1 DEF HeldIsNoLess
    <2>2. CASE v # w
      BY <1>2, <1>3, <1>4, <2>2, HeldStays DEF RewardInv
    <2> QED BY <2>1, <2>2
  <1> QED BY <1>2, <1>6, <1>7 DEF RewardInv, RewardsNeverPunish

\* search_common.c, prior_bonus_scale: a fail low "can only ever reward" the move before
\* it.  For any workers and node ends, an entry that only rewards were stored in since the
\* tables were cleared is no lower than it was then, whichever updates the workers lost.
THEOREM RewardsOnlyRaise == Spec => []RewardsNeverPunish
  <1>1. Init => RewardInv
    BY RewardInit
  <1>2. IInv /\ RewardInv /\ [Next]_vars => RewardInv'
    <2> SUFFICES ASSUME IInv, RewardInv, [Next]_vars PROVE RewardInv'
      OBVIOUS
    <2>1. CASE Next
      BY <2>1, RewardClear, RewardAside, RewardLoad, RewardStore DEF Next
    <2>2. CASE UNCHANGED vars
      <3>1. \A v \in Workers : HeldIsNoLess(v)'
        BY <2>2, HeldStays DEF RewardInv, vars
      <3> QED BY <2>2, <3>1 DEF RewardInv, RewardsNeverPunish, vars
    <2> QED BY <2>1, <2>2
  <1>3. RewardInv => RewardsNeverPunish
    BY DEF RewardInv
  <1> QED BY <1>1, <1>2, <1>3, UpdatesAreTyped, PTL DEF Spec
=============================================================================
