-------------------------- MODULE NumaPlacementProofs --------------------------
(* Theorems about NumaPlacement, for every number of nodes, processors,    *)
(* threads and entries: what the arithmetic of the worker pool promises.   *)
EXTENDS NumaPlacement, FiniteSetTheorems, WellFoundedInduction, TLAPS

---------------------------------------------------------------------------
(* Least elements *)

LEMMA LeastNatural ==
  ASSUME NEW T \in SUBSET Nat, T # {}
  PROVE  \E x \in T : \A y \in T : x <= y
  <1>1. IsWellFoundedOn(OpToRel(<, Nat), Nat)
    BY NatLessThanWellFounded
  <1>2. PICK x \in T : \A y \in T : ~ (<<y, x>> \in OpToRel(<, Nat))
    BY <1>1, WFMin
  <1>3. ASSUME NEW y \in T PROVE x <= y
    <2>1. <<y, x>> \notin OpToRel(<, Nat)
      BY <1>2
    <2>2. ~ (y < x)
      BY <2>1 DEF OpToRel
    <2> QED BY <2>2
  <1> QED BY <1>3

LEMMA MinIsLeast ==
  ASSUME NEW S \in SUBSET Nat, S # {}
  PROVE  Min(S) \in S /\ \A y \in S : Min(S) <= y
  BY LeastNatural DEF Min

\* A bank's size is always a power of two, and there is an entry for each thread at least.
THEOREM BankSizeIsAPower ==
  ASSUME NEW c \in 1 .. 1024
  PROVE  next_power_of_two(c) \in Powers /\ next_power_of_two(c) >= c
  <1> DEFINE S == {p \in Powers : p >= c}
  <1>1. 1024 \in S /\ S \subseteq Nat
    BY DEF Powers
  <1> HIDE DEF S
  <1>2. Min(S) \in S
    BY <1>1, MinIsLeast
  <1> QED BY <1>2 DEF S, next_power_of_two

---------------------------------------------------------------------------
(* The stripes of a table *)

LEMMA Quotient ==
  ASSUME NEW a \in Nat, NEW b \in Nat \ {0}, NEW q \in Nat
  PROVE  a \div b \in Nat /\ (q <= a \div b <=> b * q <= a)
  OBVIOUS

\* Which entries a stripe has, without the divisions.
LEMMA StripeEntries ==
  ASSUME NEW n \in Nat, NEW total \in Nat \ {0}, NEW idx \in 0 .. total - 1, NEW x
  PROVE  x \in stripe(n, idx, total) <=>
            x \in Nat /\ n * idx < total * (x + 1) /\ total * (x + 1) <= n * (idx + 1)
  <1> DEFINE a == n * idx
             b == n * (idx + 1)
  <1>1. a \in Nat /\ b \in Nat /\ idx < total
    OBVIOUS
  <1> HIDE DEF a, b
  <1>2. stripe(n, idx, total) = a \div total .. b \div total - 1
    BY <1>1 DEF stripe, a, b
  <1>3. a \div total \in Nat /\ b \div total \in Nat
    BY <1>1, Quotient
  <1>4. x \in stripe(n, idx, total) <=>
            x \in Nat /\ ~ (x + 1 <= a \div total) /\ x + 1 <= b \div total
    BY <1>2, <1>3
  <1>5. ASSUME NEW y \in Nat
        PROVE  /\ y + 1 <= a \div total <=> total * (y + 1) <= a
               /\ y + 1 <= b \div total <=> total * (y + 1) <= b
    BY <1>1, Quotient
  <1>6. ASSUME NEW y \in Nat PROVE total * (y + 1) \in Nat
    OBVIOUS
  <1>7. x \in stripe(n, idx, total) <=>
            x \in Nat /\ ~ (total * (x + 1) <= a) /\ total * (x + 1) <= b
    BY <1>4, <1>5
  <1> QED BY <1>1, <1>6, <1>7 DEF a, b

\* The stripes meet exactly: they lie in the table, no two of them share an entry, and every
\* entry is in one of them, whatever the size of the table and the number of workers.
THEOREM StripesInside ==
  ASSUME NEW n \in Nat, NEW total \in Nat \ {0}, NEW idx \in 0 .. total - 1
  PROVE  stripe(n, idx, total) \subseteq 0 .. n - 1
  <1> SUFFICES ASSUME NEW x \in stripe(n, idx, total) PROVE x \in 0 .. n - 1
    OBVIOUS
  <1>1. x \in Nat /\ total * (x + 1) <= n * (idx + 1)
    BY StripeEntries
  <1>2. n * (idx + 1) <= n * total
    OBVIOUS
  <1>3. x + 1 <= n
    BY <1>1, <1>2
  <1> QED BY <1>1, <1>3

THEOREM StripesApart ==
  ASSUME NEW n \in Nat, NEW total \in Nat \ {0},
         NEW i \in 0 .. total - 1, NEW j \in 0 .. total - 1, i # j
  PROVE  stripe(n, i, total) \intersect stripe(n, j, total) = {}
  <1>1. ASSUME NEW a \in 0 .. total - 1, NEW b \in 0 .. total - 1, a < b,
               NEW x \in stripe(n, a, total) \intersect stripe(n, b, total)
        PROVE  FALSE
    <2>1. x \in Nat /\ total * (x + 1) <= n * (a + 1) /\ n * b < total * (x + 1)
      BY StripeEntries
    <2>2. n * (a + 1) <= n * b
      BY <1>1
    <2>3. n * (a + 1) \in Nat /\ n * b \in Nat /\ total * (x + 1) \in Nat
      BY <2>1
    <2> QED BY <2>1, <2>2, <2>3
  <1>2. i < j \/ j < i
    OBVIOUS
  <1> QED BY <1>1, <1>2

THEOREM StripesCover ==
  ASSUME NEW n \in Nat, NEW total \in Nat \ {0}, NEW x \in 0 .. n - 1
  PROVE  \E idx \in 0 .. total - 1 : x \in stripe(n, idx, total)
  <1> DEFINE y == total * (x + 1)
             idx == (y - 1) \div n
  <1>1. y \in Nat \ {0} /\ n \in Nat \ {0} /\ x \in Nat
    OBVIOUS
  <1>2. y <= total * n
    OBVIOUS
  <1> HIDE DEF y
  <1>3. idx \in Nat /\ n * idx <= y - 1 /\ y - 1 < n * idx + n
    BY <1>1
  <1> HIDE DEF idx
  <1>4. n * idx < y /\ y <= n * (idx + 1)
    BY <1>1, <1>3
  <1>5. idx < total
    <2> SUFFICES ASSUME total <= idx PROVE FALSE
      BY <1>3
    <2>1. n * total <= n * idx
      BY <1>3
    <2> QED BY <1>1, <1>2, <1>3, <1>4, <2>1
  <1>6. idx \in 0 .. total - 1
    BY <1>3, <1>5
  <1>7. x \in stripe(n, idx, total)
    BY <1>1, <1>4, <1>6, StripeEntries DEF y
  <1> QED BY <1>6, <1>7

---------------------------------------------------------------------------
(* Counting the threads of a node *)

\* The threads before thread i that are on node n.
Before(nodes, n, i) == {j \in 0 .. i - 1 : nodes[j] = n}
Count(nodes, n, i)  == Cardinality(Before(nodes, n, i))

LEMMA CountGrows ==
  ASSUME NEW nodes, NEW n, NEW i \in Nat
  PROVE  /\ IsFiniteSet(Before(nodes, n, i)) /\ Count(nodes, n, i) \in Nat
         /\ Count(nodes, n, i) <= i /\ Count(nodes, n, 0) = 0
         /\ nodes[i] = n => Count(nodes, n, i + 1) = Count(nodes, n, i) + 1
         /\ nodes[i] # n => Count(nodes, n, i + 1) = Count(nodes, n, i)
  <1>1. IsFiniteSet(0 .. i - 1) /\ Cardinality(0 .. i - 1) = i
    BY FS_Interval
  <1>2. IsFiniteSet(Before(nodes, n, i)) /\ Count(nodes, n, i) <= i
    BY <1>1, FS_Subset DEF Before, Count
  <1>3. Count(nodes, n, i) \in Nat
    BY <1>2, FS_CardinalityType DEF Count
  <1>4. Before(nodes, n, 0) = {}
    BY DEF Before
  <1>5. Count(nodes, n, 0) = 0
    BY <1>4, FS_EmptySet DEF Count
  <1>6. CASE nodes[i] = n
    <2>1. Before(nodes, n, i + 1) = Before(nodes, n, i) \union {i} /\ i \notin Before(nodes, n, i)
      BY <1>6 DEF Before
    <2>2. Count(nodes, n, i + 1) = Count(nodes, n, i) + 1
      BY <1>2, <2>1, FS_AddElement DEF Count
    <2> QED BY <1>2, <1>3, <1>5, <1>6, <2>2
  <1>7. CASE nodes[i] # n
    <2>1. Before(nodes, n, i + 1) = Before(nodes, n, i)
      BY <1>7 DEF Before
    <2> QED BY <1>2, <1>3, <1>5, <1>7, <2>1 DEF Count
  <1> QED BY <1>6, <1>7

LEMMA CountIsMonotone ==
  ASSUME NEW nodes, NEW n, NEW k \in Nat, NEW i \in 0 .. k
  PROVE  Count(nodes, n, i) <= Count(nodes, n, k)
  <1>1. Before(nodes, n, i) \subseteq Before(nodes, n, k)
    BY DEF Before
  <1>2. IsFiniteSet(Before(nodes, n, k))
    BY CountGrows
  <1> QED BY <1>1, <1>2, FS_Subset DEF Count

\* Each worker of a node has a place of its own.
THEOREM PlacesApart ==
  ASSUME NEW nodes, NEW j \in Nat, NEW i \in 0 .. j - 1, nodes[i] = nodes[j]
  PROVE  Count(nodes, nodes[i], i) < Count(nodes, nodes[j], j)
  <1>1. Count(nodes, nodes[j], i + 1) = Count(nodes, nodes[j], i) + 1
    BY CountGrows
  <1>2. Count(nodes, nodes[j], i + 1) <= Count(nodes, nodes[j], j)
    <2>1. i + 1 \in 0 .. j
      OBVIOUS
    <2> QED BY <2>1, CountIsMonotone
  <1>3. Count(nodes, nodes[j], i) \in Nat /\ Count(nodes, nodes[j], j) \in Nat
    BY CountGrows
  <1> QED BY <1>1, <1>2, <1>3

\* And every place of a node is some worker's.
THEOREM PlacesFilled ==
  ASSUME NEW nodes, NEW n, NEW k \in Nat, NEW p \in 0 .. Count(nodes, n, k) - 1
  PROVE  \E i \in 0 .. k - 1 : nodes[i] = n /\ Count(nodes, n, i) = p
  <1> DEFINE T == {i \in 0 .. k : Count(nodes, n, i) > p}
  <1>1. Count(nodes, n, k) \in Nat
    BY CountGrows
  <1>2. k \in T /\ T \subseteq Nat
    BY <1>1
  <1>3. PICK m \in T : \A i \in T : m <= i
    BY <1>2, LeastNatural
  <1>4. m \in 0 .. k /\ Count(nodes, n, m) > p /\ p \in Nat
    BY <1>1
  <1>5. m # 0
    BY <1>4, CountGrows
  <1>6. PICK i \in 0 .. k - 1 : m = i + 1
    <2>1. m - 1 \in 0 .. k - 1 /\ m = (m - 1) + 1
      BY <1>4, <1>5
    <2> QED BY <2>1
  <1>7. ~ (Count(nodes, n, i) > p)
    BY <1>3, <1>6
  <1>8. /\ Count(nodes, n, i) \in Nat
        /\ nodes[i] = n => Count(nodes, n, i + 1) = Count(nodes, n, i) + 1
        /\ nodes[i] # n => Count(nodes, n, i + 1) = Count(nodes, n, i)
    BY CountGrows
  <1> QED BY <1>4, <1>6, <1>7, <1>8

---------------------------------------------------------------------------
(* The distribution of the threads *)

\* Two computations of the same distribution agree, thread by thread.
THEOREM DistributionIsUnique ==
  ASSUME NEW cpus, NEW k \in Nat, NEW V,
         NEW p \in [0 .. k - 1 -> V], NEW q \in [0 .. k - 1 -> V],
         IsDistribution(cpus, p), IsDistribution(cpus, q)
  PROVE  p = q
  <1> DEFINE T == {i \in 0 .. k - 1 : p[i] # q[i]}
  <1>1. SUFFICES ASSUME T # {} PROVE FALSE
    OBVIOUS
  <1>2. T \subseteq Nat
    OBVIOUS
  <1>3. PICK i \in T : \A j \in T : i <= j
    BY <1>1, <1>2, LeastNatural
  <1>4. \A j \in 0 .. i - 1 : p[j] = q[j]
    BY <1>3
  <1>5. [j \in 0 .. i - 1 |-> p[j]] = [j \in 0 .. i - 1 |-> q[j]]
    BY <1>4
  <1>6. p[i] = BestNode(cpus, [j \in 0 .. i - 1 |-> p[j]]) /\ q[i] = BestNode(cpus, [j \in 0 .. i - 1 |-> q[j]])
    BY DEF IsDistribution
  <1> QED BY <1>5, <1>6

\* "Less full" is a comparison of ratios, so it can be chained.
LEMMA RatiosChain ==
  ASSUME NEW a \in Nat \ {0}, NEW b \in Nat \ {0}, NEW c \in Nat \ {0},
         NEW x \in Nat \ {0}, NEW y \in Nat \ {0}, NEW z \in Nat \ {0},
         a * y < b * x, b * z <= c * y
  PROVE  a * z < c * x
  <1>1. (a * y) * z < (b * x) * z
    OBVIOUS
  <1>2. (b * z) * x <= (c * y) * x
    OBVIOUS
  <1>3. y * (a * z) < y * (c * x)
    BY <1>1, <1>2
  <1>4. a * z \in Nat /\ c * x \in Nat
    OBVIOUS
  <1> QED BY <1>3, <1>4

\* The node the loop ends on is a best one of the first k.
BestOf(cpus, nodes, k, n) ==
    \A m \in 0 .. k - 1 : m # n =>
        IF m < n THEN LessFull(cpus, nodes, n, m) ELSE ~LessFull(cpus, nodes, m, n)

LEMMA OccupationTyped ==
  ASSUME NEW k \in Nat, NEW nodes, DOMAIN nodes = 0 .. k - 1, NEW n
  PROVE  Occupation(nodes, n) \in Nat \ {0} /\ Occupation(nodes, n) = Count(nodes, n, k) + 1
  <1>1. Occupation(nodes, n) = Count(nodes, n, k) + 1
    BY DEF Occupation, Count, Before
  <1> QED BY <1>1, CountGrows

LEMMA BestOfNext ==
  ASSUME NEW N \in Nat, NEW cpus \in [0 .. N - 1 -> Nat \ {0}],
         NEW c \in Nat, NEW nodes, DOMAIN nodes = 0 .. c - 1,
         NEW k \in 1 .. N - 1, NEW n \in 0 .. k - 1, BestOf(cpus, nodes, k, n)
  PROVE  \E b \in 0 .. k : BestOf(cpus, nodes, k + 1, b)
  <1>1. \A m \in 0 .. N - 1 : Occupation(nodes, m) \in Nat \ {0} /\ cpus[m] \in Nat \ {0}
    BY OccupationTyped
  <1>2. CASE LessFull(cpus, nodes, k, n)
    <2>1. ASSUME NEW m \in 0 .. k, m # k PROVE LessFull(cpus, nodes, k, m)
      <3>1. CASE m = n
        BY <1>2, <3>1
      <3>2. CASE m # n
        <4> DEFINE a == Occupation(nodes, k)  x == cpus[k]
                   b == Occupation(nodes, n)  y == cpus[n]
                   e == Occupation(nodes, m)  z == cpus[m]
        <4>1. /\ a \in Nat \ {0} /\ b \in Nat \ {0} /\ e \in Nat \ {0}
              /\ x \in Nat \ {0} /\ y \in Nat \ {0} /\ z \in Nat \ {0}
          BY <1>1, <2>1
        <4>2. a * y < b * x
          BY <1>2 DEF LessFull
        <4>3. b * z < e * y \/ ~ (e * y < b * z)
          BY <2>1, <3>2 DEF BestOf, LessFull
        <4> HIDE DEF a, b, e, x, y, z
        <4>4. b * z <= e * y
          <5>1. b * z \in Nat /\ e * y \in Nat
            BY <4>1
          <5> QED BY <4>3, <5>1
        <4>5. a * z < e * x
          BY <4>1, <4>2, <4>4, RatiosChain
        <4> QED BY <4>5 DEF LessFull, a, b, e, x, y, z
      <3> QED BY <3>1, <3>2
    <2>2. BestOf(cpus, nodes, k + 1, k)
      BY <2>1 DEF BestOf
    <2> QED BY <2>2
  <1>3. CASE ~LessFull(cpus, nodes, k, n)
    <2>1. BestOf(cpus, nodes, k + 1, n)
      BY <1>3 DEF BestOf
    <2> QED BY <2>1
  <1> QED BY <1>2, <1>3

LEMMA BestExists ==
  ASSUME NEW N \in Nat \ {0}, NEW cpus \in [0 .. N - 1 -> Nat \ {0}],
         NEW c \in Nat, NEW nodes, DOMAIN nodes = 0 .. c - 1
  PROVE  \E n \in 0 .. N - 1 : BestOf(cpus, nodes, N, n)
  <1> DEFINE T == {k \in 1 .. N : ~ \E n \in 0 .. k - 1 : BestOf(cpus, nodes, k, n)}
  <1>1. SUFFICES ASSUME ~ \E n \in 0 .. N - 1 : BestOf(cpus, nodes, N, n) PROVE FALSE
    OBVIOUS
  <1>2. N \in T /\ T \subseteq Nat
    BY <1>1
  <1>3. PICK k \in T : \A j \in T : k <= j
    BY <1>1, <1>2, LeastNatural
  <1>4. k # 1
    <2>1. BestOf(cpus, nodes, 1, 0)
      BY DEF BestOf
    <2> QED BY <2>1
  <1>5. PICK j \in 1 .. N - 1 : k = j + 1
    <2>1. k - 1 \in 1 .. N - 1 /\ k = (k - 1) + 1
      BY <1>4
    <2> QED BY <2>1
  <1>6. PICK n \in 0 .. j - 1 : BestOf(cpus, nodes, j, n)
    BY <1>3, <1>5
  <1>7. \E b \in 0 .. j : BestOf(cpus, nodes, j + 1, b)
    BY <1>6, BestOfNext
  <1> QED BY <1>5, <1>7

LEMMA BestNodeIsBest ==
  ASSUME NEW N \in Nat \ {0}, NEW cpus \in [0 .. N - 1 -> Nat \ {0}],
         NEW c \in Nat, NEW nodes, DOMAIN nodes = 0 .. c - 1
  PROVE  /\ BestNode(cpus, nodes) \in 0 .. N - 1
         /\ BestOf(cpus, nodes, N, BestNode(cpus, nodes))
  <1>1. \E n \in DOMAIN cpus : \A m \in DOMAIN cpus \ {n} :
           IF m < n THEN LessFull(cpus, nodes, n, m) ELSE ~LessFull(cpus, nodes, m, n)
    <2>1. PICK n \in 0 .. N - 1 : BestOf(cpus, nodes, N, n)
      BY BestExists
    <2> QED BY <2>1 DEF BestOf
  <1> QED BY <1>1 DEF BestNode, BestOf

\* Moving a thread to another node would not leave the threads more evenly spread.
THEOREM DistributionIsBalanced ==
  ASSUME NEW N \in Nat \ {0}, NEW cpus \in [0 .. N - 1 -> Nat \ {0}],
         NEW k \in Nat, NEW nodes \in [0 .. k - 1 -> 0 .. N - 1], IsDistribution(cpus, nodes),
         NEW i \in 0 .. k - 1, NEW m \in 0 .. N - 1, m # nodes[i]
  PROVE  Count(nodes, nodes[i], k) * cpus[m] <= (Count(nodes, m, k) + 1) * cpus[nodes[i]]
  <1> DEFINE n == nodes[i]
             T == {d \in 0 .. k - 1 : nodes[k - 1 - d] = n}
  <1>1. n \in 0 .. N - 1 /\ k - 1 - i \in T /\ T \subseteq Nat
    OBVIOUS
  <1>2. PICK d \in T : \A e \in T : d <= e
    BY <1>1, LeastNatural
  <1>3. PICK j \in 0 .. k - 1 : j = k - 1 - d /\ nodes[j] = n
    <2>1. k - 1 - d \in 0 .. k - 1
      OBVIOUS
    <2> QED BY <2>1
  <1>4. \A l \in j + 1 .. k - 1 : nodes[l] # n
    <2> SUFFICES ASSUME NEW l \in j + 1 .. k - 1, nodes[l] = n PROVE FALSE
      OBVIOUS
    <2>1. k - 1 - l \in 0 .. k - 1 /\ k - 1 - (k - 1 - l) = l
      BY <1>3
    <2>2. d <= k - 1 - l
      BY <1>2, <2>1
    <2> QED BY <1>3, <2>2
  <1> HIDE DEF n, T
  <1>5. Count(nodes, n, k) = Count(nodes, n, j) + 1
    <2>1. Before(nodes, n, k) = Before(nodes, n, j + 1)
      BY <1>4 DEF Before
    <2>2. Count(nodes, n, k) = Count(nodes, n, j + 1)
      BY <2>1 DEF Count
    <2>3. Count(nodes, n, j + 1) = Count(nodes, n, j) + 1
      <3>1. j \in Nat /\ nodes[j] = n
        BY <1>3
      <3> QED BY <3>1, CountGrows, Zenon
    <2> QED BY <2>2, <2>3, Zenon
  <1> DEFINE before == [l \in 0 .. j - 1 |-> nodes[l]]
  <1>6. n = BestNode(cpus, before)
    BY <1>3 DEF IsDistribution
  <1>7. j \in Nat /\ DOMAIN before = 0 .. j - 1
    OBVIOUS
  <1>8. \A v : Occupation(before, v) = Count(nodes, v, j) + 1
    <2> SUFFICES ASSUME NEW v PROVE Occupation(before, v) = Count(nodes, v, j) + 1
      OBVIOUS
    <2>1. Before(before, v, j) = Before(nodes, v, j)
      BY DEF Before
    <2> QED BY <1>7, <2>1, OccupationTyped DEF Count
  <1> HIDE DEF before
  <1>9. BestOf(cpus, before, N, n)
    BY <1>6, <1>7, BestNodeIsBest
  <1>10. \/ LessFull(cpus, before, n, m) 
         \/ ~LessFull(cpus, before, m, n)
    BY <1>9 DEF BestOf, n
  <1> DEFINE a == Count(nodes, n, k)
             b == Count(nodes, m, j)
             z == Count(nodes, m, k)
             x == cpus[n]
             y == cpus[m]
  <1>11. a * y < (b + 1) * x \/ ~ ((b + 1) * x < a * y)
    BY <1>5, <1>8, <1>10 DEF LessFull
  <1>12. a \in Nat /\ b \in Nat /\ z \in Nat /\ x \in Nat /\ y \in Nat /\ b <= z
    <2>1. a \in Nat /\ b \in Nat /\ z \in Nat
      BY <1>7, CountGrows
    <2>2. b <= z
      <3>1. j \in 0 .. k
        OBVIOUS
      <3> QED BY <3>1, CountIsMonotone
    <2> QED BY <1>1, <2>1, <2>2
  <1> HIDE DEF a, b, x, y, z
  <1>13. a * y <= (b + 1) * x
    <2>1. a * y \in Nat /\ (b + 1) * x \in Nat
      BY <1>12
    <2> QED BY <1>11, <2>1
  <1>14. (b + 1) * x <= (z + 1) * x
    BY <1>12
  <1>15. a * y <= (z + 1) * x
    <2>1. a * y \in Nat /\ (b + 1) * x \in Nat /\ (z + 1) * x \in Nat
      BY <1>12
    <2> QED BY <1>13, <1>14, <2>1
  <1> QED BY <1>15 DEF a, x, y, z, n

=============================================================================
