----------------------------- MODULE NumaPlacement -----------------------------
(***************************************************************************)
(* The arithmetic of the worker pool: which node each thread goes to, when *)
(* threads are bound at all, how large a node's history bank is, and which *)
(* part of it each worker clears.  cpus[n] is the number of processors of  *)
(* node n.                                                                 *)
(***************************************************************************)
EXTENDS Integers, Sequences, FiniteSets, FiniteSetsExt

Occupation(nodes, n) == Cardinality({i \in DOMAIN nodes : nodes[i] = n}) + 1

\* Node n would be less full than node m with one more thread.  The code
\* compares the ratios in float, which tells apart those this small.
LessFull(cpus, nodes, n, m) == Occupation(nodes, n) * cpus[m] < Occupation(nodes, m) * cpus[n]

\* The least full node, the first one among equals.
BestNode(cpus, nodes) ==
    CHOOSE n \in DOMAIN cpus : \A m \in DOMAIN cpus \ {n} :
        IF m < n THEN LessFull(cpus, nodes, n, m) ELSE ~LessFull(cpus, nodes, m, n)

\* numa_config_distribute_threads: each thread goes to the best node given the threads before.
IsDistribution(cpus, nodes) ==
    \A i \in DOMAIN nodes : nodes[i] = BestNode(cpus, [j \in 0 .. i - 1 |-> nodes[j]])

AllOnNodeZero(count) == [i \in 0 .. count - 1 |-> 0]

\* numa_config_suggests_binding_threads; a node of at most 60% of the largest
\* one's processors is small.
SuggestsBinding(topology, count) ==
    LET cpus     == topology.cpus
        largest  == Max({cpus[n] : n \in DOMAIN cpus})
        notSmall == Cardinality({n \in DOMAIN cpus : 10 * cpus[n] > 6 * largest})
    IN  \/ topology.custom
        \/ /\ count > 1
           /\ count > largest \div 2 \/ count >= notSmall * 4
           /\ Cardinality(DOMAIN cpus) > 1

Powers == {1, 2, 4, 8, 16, 32, 64, 128, 256, 512, 1024}

next_power_of_two(count) == Min({p \in Powers : p >= count})

\* Fault: the division first, so the remainder is nobody's.
stripe_short(n, idx, total) == idx * (n \div total) .. (idx + 1) * (n \div total) - 1

\* The entries of a table of n that worker idx of total clears.
stripe(n, idx, total) ==
    IF idx < total THEN (n * idx) \div total .. (n * (idx + 1)) \div total - 1 ELSE {}
================================================================================
