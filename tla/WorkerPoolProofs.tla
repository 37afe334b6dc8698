---------------------------- MODULE WorkerPoolProofs ----------------------------
(* Theorems about WorkerPool, for any thread counts, machines and policies, *)
(* whatever the host refuses at whichever step: a rebuild ends in a whole   *)
(* set or in none, no worker outlives its bank, and the workers of a node   *)
(* share the clearing of its bank exactly.                                  *)
EXTENDS WorkerPool, NumaPlacementProofs

---------------------------------------------------------------------------
(* The inductive invariant *)

\* What is left of a set: nothing that can be reached, no thread, nothing at all.
Down   == count = 0 /\ ~seams
Bare   == threads = Empty /\ worker = Empty /\ footprint = Empty
Absent == Down /\ Bare /\ slots = NoSlots

\* Threads S run, and workers T are built and listed.
Manned(S, T) == DOMAIN threads = S /\ DOMAIN worker = T /\ slots = T

Standing == /\ count > 0 /\ seams
            /\ Manned(0 .. count - 1, 0 .. count - 1) /\ DOMAIN nodeOf = 0 .. count - 1
            /\ footprint = IF binding THEN threads ELSE Empty

Planning == {"place", "plan", "banks", "list"}
Raising  == {"spawn", "bind", "build", "footprint", "install"}
Planned  == {"banks", "list"} \union Raising

\* What is there, step by step.
Stage ==
    /\ at = "rest" => Absent \/ Standing
    /\ at = "release" => Down \/ Standing
    /\ at = "clear" => Down /\ slots = NoSlots
    /\ at = "slots" => Absent /\ ~failed
    /\ at \in Planning => Down /\ Bare /\ slots = {} /\ ~failed
    /\ at \in Raising => Down /\ ~failed
    /\ at = "spawn" => Built \in 0 .. want /\ Manned(0 .. Built - 1, 0 .. Built - 1)
    /\ at \in {"bind", "build"} => Built \in 1 .. want /\ Manned(0 .. Built - 1, 0 .. Built - 2)
    /\ at \in {"footprint", "install"} => Manned(0 .. want - 1, 0 .. want - 1)
    /\ at \in Raising \ {"install"} => footprint = Empty
    /\ at = "install" => footprint = IF binding THEN bindTo ELSE Empty
    /\ at \in {"unwind", "aborted"} => Down
    /\ at = "answer" => IF failed THEN Absent ELSE Standing
    /\ at \in {"free_banks", "off"} => Absent
    /\ at = "off" => bank = Empty

\* The placement the threads are bound by is even, unless its computation was refused.
Even(nodes) == ~refused /\ binding => /\ nodes \in [DOMAIN nodes -> DOMAIN topology.cpus]
                                      /\ IsDistribution(topology.cpus, nodes)

\* The two placements agree unless one of them was refused, every node of them has its bank,
\* and the threads are bound where the second one says.
Placed ==
    /\ at = "plan" => /\ DOMAIN nodeOf = 0 .. want - 1 /\ binding = Binds
                      /\ Even(nodeOf)
                      /\ ~refused /\ ~binding => nodeOf = AllOnNodeZero(want)
    /\ at \in Planned => /\ DOMAIN nodeOf = 0 .. want - 1 /\ DOMAIN bindTo = 0 .. want - 1
                         /\ Even(bindTo)
                         /\ ~refused => nodeOf = bindTo
    /\ at \in {"list"} \union Raising => Range(bindTo) \subseteq DOMAIN bank
    /\ at \in Raising /\ binding =>
          \A i \in IF at = "bind" THEN DOMAIN worker ELSE DOMAIN threads : threads[i] = bindTo[i]
    /\ (at = "answer" /\ ~failed) \/ (at = "rest" /\ count > 0) => Even(threads)

\* Whatever went wrong, the host refused something.
Blamed == failed \/ at = "unwind" => refused

\* A worker has a thread, its place among those of its node, and its bank.
Staffed ==
    /\ DOMAIN worker \subseteq DOMAIN threads
    /\ DOMAIN nodeOf \in {0 .. k - 1 : k \in 0 .. SEARCH_THREADS_MAX}
    /\ \A i \in DOMAIN worker : /\ i \in DOMAIN nodeOf /\ worker[i] = NewWorker(i)
                                /\ nodeOf[i] \in DOMAIN bank

\* A worker of a fresh set has cleared its part of its bank.
HasCleared(w) ==
    /\ stripe(bank[w.node].pages, w.place, w.total) \subseteq bank[w.node].clean
    /\ w.place = 0 => bank[w.node].continuation
Swept == at \in Raising \union {"answer"} \/ (at = "rest" /\ fresh) =>
             \A i \in DOMAIN worker : HasCleared(worker[i])

IInv == TypeOK /\ Stage /\ Placed /\ Blamed /\ Staffed /\ Swept

---------------------------------------------------------------------------
(* Lemmas about the placement and the clearing *)

USE DEF Go, Granted, config, index, plan, pool

LEMMA NodesAreIds ==
  ASSUME NEW t \in Topologies
  PROVE  DOMAIN t.cpus \subseteq Nodes /\ 0 \in DOMAIN t.cpus /\ Nodes \subseteq Ids
  <1>1. \A u \in Topologies : \E n \in 1 .. SEARCH_THREADS_MAX : DOMAIN u.cpus = 0 .. n - 1
    BY TopologyAssumption
  <1>2. DOMAIN t.cpus \subseteq Nodes
    BY DEF Nodes
  <1>3. 0 \in DOMAIN t.cpus
    BY <1>1, TableAssumption
  <1>4. Nodes \subseteq Ids
    BY <1>1, TableAssumption DEF Nodes, Ids
  <1> QED BY <1>2, <1>3, <1>4

LEMMA ClampedTyped ==
  ASSUME NEW n \in Nat \ {0}
  PROVE  Clamped(n) \in 1 .. SEARCH_THREADS_MAX
  <1>1. Min({n, SEARCH_THREADS_MAX}) \in {n, SEARCH_THREADS_MAX}
        /\ \A y \in {n, SEARCH_THREADS_MAX} : Min({n, SEARCH_THREADS_MAX}) <= y
    BY TableAssumption, MinIsLeast
  <1> QED BY <1>1, TableAssumption DEF Clamped

\* A worker's place among the workers of its node.
LEMMA NewWorkerPlaced ==
  ASSUME TypeOK, Staffed, NEW i \in DOMAIN nodeOf
  PROVE  /\ NewWorker(i) \in WorkerType
         /\ NewWorker(i).node = nodeOf[i] /\ nodeOf[i] \in Nodes
         /\ NewWorker(i).place = Count(nodeOf, nodeOf[i], i)
         /\ NewWorker(i).total \in Nat \ {0}
         /\ NewWorker(i).place \in 0 .. NewWorker(i).total - 1
         /\ \A k \in Nat : DOMAIN nodeOf = 0 .. k - 1 => NewWorker(i).total = Count(nodeOf, nodeOf[i], k)
  <1>1. PICK k \in 0 .. SEARCH_THREADS_MAX : DOMAIN nodeOf = 0 .. k - 1
    BY DEF Staffed
  <1>2. k \in Nat /\ i \in Nat /\ i \in 0 .. k - 1 /\ i + 1 \in 0 .. k
    BY <1>1, TableAssumption
  <1>3. nodeOf[i] \in Nodes
    BY DEF TypeOK, Subfunction
  <1> DEFINE n == nodeOf[i]
  <1>4. PlacedBefore(i) = Count(nodeOf, n, i)
    BY DEF PlacedBefore, Count, Before
  <1>5. ASSUME NEW m \in Nat, DOMAIN nodeOf = 0 .. m - 1
        PROVE  NodeTotal(i) = Count(nodeOf, n, m)
    BY <1>5 DEF NodeTotal, Count, Before
  <1> HIDE DEF n
  <1>6. /\ Count(nodeOf, n, i + 1) = Count(nodeOf, n, i) + 1
        /\ Count(nodeOf, n, i) \in Nat
    BY <1>2, CountGrows DEF n
  <1>7. Count(nodeOf, n, i + 1) <= Count(nodeOf, n, k)
    BY <1>2, CountIsMonotone
  <1>8. Count(nodeOf, n, k) \in Nat /\ Count(nodeOf, n, k) <= k
    BY <1>2, CountGrows
  <1> DEFINE p == PlacedBefore(i)
             t == NodeTotal(i)
  <1>9. p \in 0 .. t - 1 /\ t \in 1 .. SEARCH_THREADS_MAX
    BY <1>1, <1>2, <1>4, <1>5, <1>6, <1>7, <1>8, TableAssumption
  <1>10. p \in Ids
    BY <1>9, TableAssumption DEF Ids
  <1> HIDE DEF p, t
  <1>11. NewWorker(i) = [node |-> nodeOf[i], place |-> p, total |-> t, home |-> Unbound]
    BY DEF NewWorker, p, t
  <1> QED BY <1>3, <1>4, <1>5, <1>9, <1>10, <1>11 DEF WorkerType, n, p, t

LEMMA WorkersPlaced ==
  ASSUME TypeOK, Staffed, NEW i \in DOMAIN worker
  PROVE  /\ worker[i].node \in DOMAIN bank /\ worker[i].total \in Nat \ {0}
         /\ worker[i].place \in 0 .. worker[i].total - 1
  BY NewWorkerPlaced DEF Staffed

\* Clearing adds to what is clean and changes nothing else.
LEMMA ClearedBanks ==
  ASSUME TypeOK, NEW W,
         \A w \in W : w.total \in Nat \ {0} /\ w.place \in 0 .. w.total - 1
  PROVE  /\ Subfunction(Cleared(W), Nodes, BankType) /\ DOMAIN Cleared(W) = DOMAIN bank
         /\ \A n \in DOMAIN bank : /\ Cleared(W)[n].pages = bank[n].pages
                                   /\ bank[n].clean \subseteq Cleared(W)[n].clean
                                   /\ bank[n].continuation => Cleared(W)[n].continuation
         /\ \A w \in W : w.node \in DOMAIN bank =>
               /\ stripe(bank[w.node].pages, w.place, w.total) \subseteq Cleared(W)[w.node].clean
               /\ w.place = 0 => Cleared(W)[w.node].continuation
  <1>1. DOMAIN bank \subseteq Nodes /\ bank \in [DOMAIN bank -> BankType]
    BY DEF TypeOK, Subfunction
  <1>2. DOMAIN Cleared(W) = DOMAIN bank
    BY DEF Cleared
  <1>3. ASSUME NEW n \in DOMAIN bank
        PROVE  /\ Cleared(W)[n] \in BankType
               /\ Cleared(W)[n].pages = bank[n].pages
               /\ bank[n].clean \subseteq Cleared(W)[n].clean
               /\ bank[n].continuation => Cleared(W)[n].continuation
               /\ \A w \in W : w.node = n =>
                     /\ stripe(bank[n].pages, w.place, w.total) \subseteq Cleared(W)[n].clean
                     /\ w.place = 0 => Cleared(W)[n].continuation
    <2> DEFINE b == bank[n]
               mine == {w \in W : w.node = n}
               clean == b.clean \union UNION {stripe(b.pages, w.place, w.total) : w \in mine}
               cont == b.continuation \/ \E w \in mine : w.place = 0
               P == {p * BankPages : p \in Powers}
    <2>1. b \in BankType /\ b \in [pages : P, clean : SUBSET Nat, continuation : BOOLEAN]
      BY <1>1 DEF BankType
    <2>2. b.pages \in Nat /\ b.clean \subseteq 0 .. b.pages - 1
      <3>1. P \subseteq Nat
        BY TableAssumption DEF Powers
      <3> HIDE DEF b, P
      <3>2. b.pages \in P
        BY <2>1
      <3> QED BY <2>1, <3>1, <3>2 DEF BankType
    <2>3. Cleared(W)[n] = [b EXCEPT !.clean = clean, !.continuation = cont]
      BY DEF Cleared
    <2>4. clean \subseteq 0 .. b.pages - 1
      <3>1. ASSUME NEW w \in mine PROVE stripe(b.pages, w.place, w.total) \subseteq 0 .. b.pages - 1
        BY <2>2, StripesInside
      <3> QED BY <2>2, <3>1
    <2>5. clean \in SUBSET Nat /\ cont \in BOOLEAN
      BY <2>2, <2>4
    <2>6. /\ b.clean \subseteq clean /\ (b.continuation => cont)
          /\ \A w \in W : w.node = n =>
                /\ stripe(b.pages, w.place, w.total) \subseteq clean
                /\ w.place = 0 => cont
      OBVIOUS
    <2> HIDE DEF b, clean, cont, P
    <2> DEFINE c == [b EXCEPT !.clean = clean, !.continuation = cont]
    <2>7. /\ c \in [pages : P, clean : SUBSET Nat, continuation : BOOLEAN]
          /\ c.pages = b.pages /\ c.clean = clean /\ c.continuation = cont
      BY <2>1, <2>5, Zenon
    <2> HIDE DEF c
    <2>8. c \in BankType
      BY <2>4, <2>7 DEF BankType, P
    <2> QED BY <2>3, <2>6, <2>7, <2>8 DEF b, c
  <1>4. Subfunction(Cleared(W), Nodes, BankType)
    <2>1. Cleared(W) = [n \in DOMAIN bank |-> Cleared(W)[n]]
      BY DEF Cleared
    <2> QED BY <1>1, <1>2, <1>3, <2>1 DEF Subfunction
  <1> QED BY <1>2, <1>3, <1>4

---------------------------------------------------------------------------
(* The commands, between rebuilds *)

LEMMA RebuildKeeps ==
  ASSUME IInv, NEW c \in {"threads", "policy", "lazy"}, NEW n \in Nat \ {0}, Rebuild(c, n),
         option' \in Counts, mode' \in {"none", "auto", "explicit"}, topology' \in Topologies,
         refused' \in BOOLEAN
  PROVE  IInv'
  <1>1. /\ at = "rest" /\ at' = "release" /\ cmd' = c /\ want' = Clamped(n) /\ failed' = FALSE
        /\ taken < MaxCommands /\ taken' = taken + 1
        /\ UNCHANGED <<index, plan, pool, bank, footprint, fresh>>
    BY DEF Rebuild
  <1>2. want' \in 1 .. SEARCH_THREADS_MAX
    BY <1>1, ClampedTyped
  <1>3. taken' \in 0 .. MaxCommands
    BY <1>1, CommandsAssumption DEF IInv, TypeOK
  <1>4. TypeOK'
    BY <1>1, <1>2, <1>3 DEF IInv, TypeOK, AtType, Subfunction
  <1>5. Stage'
    BY <1>1 DEF IInv, Stage, Absent, Down, Standing, Manned, Planning, Raising
  <1>6. Placed' /\ Blamed' /\ Swept'
    BY <1>1 DEF Placed, Planned, Raising, Blamed, Swept
  <1>7. Staffed'
    BY <1>1 DEF IInv, Staffed, NewWorker, PlacedBefore, NodeTotal
  <1> QED BY <1>4, <1>5, <1>6, <1>7 DEF IInv

LEMMA CommandsKeep == ASSUME IInv, SetThreads \/ SetPolicy \/ BuildLazily PROVE IInv'
  <1>1. /\ option \in Counts /\ option \in Nat \ {0} /\ mode \in {"none", "auto", "explicit"}
        /\ topology \in Topologies /\ refused \in BOOLEAN
    BY CountsAssumption DEF IInv, TypeOK
  <1>2. CASE SetThreads
    <2>1. PICK n \in Counts : Rebuild("threads", n) /\ option' = n /\ refused' = FALSE
                              /\ UNCHANGED <<mode, topology>>
      BY <1>2 DEF SetThreads
    <2>2. n \in Nat \ {0}
      BY CountsAssumption
    <2> QED BY <1>1, <2>1, <2>2, RebuildKeeps
  <1>3. CASE SetPolicy
    <2>1. PICK t \in Topologies : /\ Rebuild("policy", option) /\ mode' = t.mode /\ option' = option
                                  /\ topology' \in {t, topology} /\ refused' \in BOOLEAN
      BY <1>3 DEF SetPolicy, Refused
    <2>2. t.mode \in {"none", "auto", "explicit"}
      BY TopologyAssumption
    <2> QED BY <1>1, <2>1, <2>2, RebuildKeeps
  <1>4. CASE BuildLazily
    <2>1. /\ Rebuild("lazy", 1) /\ refused' = FALSE /\ option' = option /\ mode' = mode
          /\ topology' = topology
      BY <1>4 DEF BuildLazily
    <2>2. 1 \in Nat \ {0}
      OBVIOUS
    <2> QED BY <1>1, <2>1, <2>2, RebuildKeeps
  <1> QED BY <1>2, <1>3, <1>4

LEMMA QuitKeeps == ASSUME IInv, Quit PROVE IInv'
  <1>1. /\ at = "rest" /\ at' = "release" /\ cmd' = "quit" /\ failed' = FALSE
        /\ UNCHANGED <<taken, option, mode, topology, want, index, plan, pool, bank, footprint,
                       refused, fresh>>
    BY DEF Quit
  <1>2. TypeOK'
    BY <1>1 DEF IInv, TypeOK, AtType, Subfunction
  <1>3. Stage'
    BY <1>1 DEF IInv, Stage, Absent, Down, Standing, Manned, Planning, Raising
  <1>4. Placed' /\ Blamed' /\ Swept'
    BY <1>1 DEF Placed, Planned, Raising, Blamed, Swept
  <1>5. Staffed'
    BY <1>1 DEF IInv, Staffed, NewWorker, PlacedBefore, NodeTotal
  <1> QED BY <1>2, <1>3, <1>4, <1>5 DEF IInv

LEMMA SearchKeeps == ASSUME IInv, Search PROVE IInv'
  <1>1. /\ at = "rest" /\ fresh' = FALSE
        /\ bank' = [n \in DOMAIN bank |-> [bank[n] EXCEPT !.clean = {}, !.continuation = FALSE]]
        /\ UNCHANGED <<at, config, index, plan, pool, footprint, refused, failed>>
    BY DEF Search
  <1>2. Subfunction(bank, Nodes, BankType)'
    <2>1. DOMAIN bank \subseteq Nodes /\ bank \in [DOMAIN bank -> BankType]
      BY DEF IInv, TypeOK, Subfunction
    <2>2. ASSUME NEW b \in BankType
          PROVE  [b EXCEPT !.clean = {}, !.continuation = FALSE] \in BankType
      <3> DEFINE P == {p * BankPages : p \in Powers}
                 c == [b EXCEPT !.clean = {}, !.continuation = FALSE]
      <3>1. b \in [pages : P, clean : SUBSET Nat, continuation : BOOLEAN]
        BY DEF BankType
      <3> HIDE DEF P
      <3>2. c \in [pages : P, clean : SUBSET Nat, continuation : BOOLEAN] /\ c.clean = {}
        BY <3>1, Zenon
      <3> HIDE DEF c
      <3>3. c \in BankType
        BY <3>2 DEF BankType, P
      <3> QED BY <3>3 DEF c
    <2> QED BY <1>1, <2>1, <2>2 DEF Subfunction
  <1>3. TypeOK'
    BY <1>1, <1>2 DEF IInv, TypeOK, Subfunction
  <1>4. Stage'
    BY <1>1 DEF IInv, Stage, Absent, Bare, Down, Standing, Manned, Planning, Raising
  <1>5. Placed' /\ Blamed' /\ Swept'
    BY <1>1 DEF IInv, Placed, Even, Planned, Raising, Blamed, Swept
  <1>6. Staffed'
    <2>1. DOMAIN bank' = DOMAIN bank
      BY <1>1
    <2> QED BY <1>1, <2>1 DEF IInv, Staffed, NewWorker, PlacedBefore, NodeTotal
  <1> QED BY <1>3, <1>4, <1>5, <1>6 DEF IInv

LEMMA NewGameKeeps == ASSUME IInv, NewGame PROVE IInv'
  <1> DEFINE W == {worker[i] : i \in 0 .. count - 1}
  <1>1. /\ at = "rest" /\ count > 0 /\ bank' = Cleared(W) /\ fresh' = TRUE
        /\ UNCHANGED <<at, config, index, plan, pool, footprint, refused, failed>>
    BY DEF NewGame
  <1>2. DOMAIN worker = 0 .. count - 1
    BY <1>1 DEF IInv, Stage, Absent, Down, Standing, Manned
  <1>3. \A w \in W : w.total \in Nat \ {0} /\ w.place \in 0 .. w.total - 1 /\ w.node \in DOMAIN bank
    BY <1>2, WorkersPlaced DEF IInv
  <1> HIDE DEF W
  <1>4. /\ Subfunction(bank, Nodes, BankType)' /\ DOMAIN bank' = DOMAIN bank
        /\ \A n \in DOMAIN bank : bank'[n].pages = bank[n].pages
        /\ \A w \in W :
               /\ stripe(bank[w.node].pages, w.place, w.total) \subseteq bank'[w.node].clean
               /\ w.place = 0 => bank'[w.node].continuation
    <2>1. TypeOK /\ \A w \in W : w.total \in Nat \ {0} /\ w.place \in 0 .. w.total - 1
      BY <1>3 DEF IInv
    <2> QED BY <1>1, <1>3, <2>1, ClearedBanks DEF Subfunction
  <1>5. TypeOK'
    BY <1>1, <1>4 DEF IInv, TypeOK, Subfunction
  <1>6. Stage'
    BY <1>1 DEF IInv, Stage, Absent, Bare, Down, Standing, Manned, Planning, Raising
  <1>7. Placed' /\ Blamed'
    BY <1>1 DEF IInv, Placed, Even, Planned, Raising, Blamed
  <1>8. Staffed'
    BY <1>1, <1>4 DEF IInv, Staffed, NewWorker, PlacedBefore, NodeTotal
  <1>9. Swept'
    <2>1. \A i \in DOMAIN worker : worker[i] \in W
      BY <1>2 DEF W
    <2> QED BY <1>1, <1>3, <1>4, <2>1 DEF Swept, HasCleared
  <1> QED BY <1>5, <1>6, <1>7, <1>8, <1>9 DEF IInv

---------------------------------------------------------------------------
(* Taking the set down *)

LEMMA ReleaseKeeps == ASSUME IInv, Release PROVE IInv'
  <1>1. /\ at = "release" /\ at' = "clear" /\ slots' = NoSlots /\ count' = 0 /\ seams' = FALSE
        /\ UNCHANGED <<config, plan, pool, bank, footprint, refused, failed, fresh>>
    BY DEF Release
  <1>2. TypeOK'
    <2>1. count' \in 0 .. SEARCH_THREADS_MAX
      BY <1>1, TableAssumption
    <2> QED BY <1>1, <2>1 DEF IInv, TypeOK, AtType, Subfunction
  <1>3. Stage'
    BY <1>1 DEF Stage, Down, Planning, Raising
  <1>4. Placed' /\ Blamed' /\ Swept'
    BY <1>1 DEF IInv, Placed, Planned, Raising, Blamed, Swept
  <1>5. Staffed'
    BY <1>1 DEF IInv, Staffed, NewWorker, PlacedBefore, NodeTotal
  <1> QED BY <1>2, <1>3, <1>4, <1>5 DEF IInv

LEMMA DestroyKeeps == ASSUME IInv, ClearThread \/ UnwindThread PROVE IInv'
  <1> DEFINE i == Min(DOMAIN threads)
  <1>1. /\ at \in {"clear", "unwind"}
        /\ threads' = [j \in DOMAIN threads \ {i} |-> threads[j]]
        /\ worker' = [j \in DOMAIN worker \ {i} |-> worker[j]]
        /\ UNCHANGED <<at, config, index, plan, bank, footprint, refused, failed, fresh>>
    BY DEF ClearThread, UnwindThread, DestroyNextThread, Restrict
  <1> HIDE DEF i
  <1>2. TypeOK'
    <2>1. Subfunction(threads, Ids, Nodes \union {Unbound})' /\ Subfunction(worker, Ids, WorkerType)'
      BY <1>1 DEF IInv, TypeOK, Subfunction
    <2> QED BY <1>1, <2>1 DEF IInv, TypeOK, Subfunction
  <1>3. Stage'
    BY <1>1 DEF IInv, Stage, Down, Planning, Raising
  <1>4. Placed' /\ Blamed' /\ Swept'
    BY <1>1 DEF IInv, Placed, Planned, Raising, Blamed, Swept
  <1>5. Staffed'
    BY <1>1 DEF IInv, Staffed, NewWorker, PlacedBefore, NodeTotal
  <1> QED BY <1>2, <1>3, <1>4, <1>5 DEF IInv

LEMMA PoolClearedKeeps == ASSUME IInv, PoolCleared PROVE IInv'
  <1>1. /\ at = "clear" /\ DOMAIN threads = {} /\ footprint' = Empty
        /\ at' = IF cmd = "quit" THEN "free_banks" ELSE IF failed THEN "answer" ELSE "slots"
        /\ UNCHANGED <<config, index, plan, pool, bank, refused, failed, fresh>>
    BY DEF PoolCleared
  <1>2. threads = Empty /\ worker = Empty
    BY <1>1 DEF IInv, TypeOK, Subfunction, Staffed, Empty
  <1>3. Absent'
    BY <1>1, <1>2 DEF IInv, Stage, Absent, Bare, Down
  <1>4. at' \in {"free_banks", "answer", "slots"} /\ (at' = "answer" => failed) /\ (at' = "slots" => ~failed)
    BY <1>1
  <1>5. TypeOK'
    BY <1>1, <1>4 DEF IInv, TypeOK, AtType, Subfunction, Empty
  <1>6. Stage'
    BY <1>1, <1>3, <1>4 DEF Stage, Planning, Raising
  <1>7. Placed' /\ Blamed'
    BY <1>1, <1>4 DEF IInv, Placed, Planned, Raising, Blamed
  <1>8. Staffed' /\ Swept'
    BY <1>1, <1>2 DEF IInv, Staffed, Swept, Empty
  <1> QED BY <1>5, <1>6, <1>7, <1>8 DEF IInv

LEMMA FreeBanksKeeps == ASSUME IInv, FreeBanks PROVE IInv'
  <1>1. /\ at = "free_banks" /\ at' = "off" /\ bank' = Empty
        /\ UNCHANGED <<config, index, plan, pool, footprint, refused, failed, fresh>>
    BY DEF FreeBanks
  <1>2. Absent
    BY <1>1 DEF IInv, Stage
  <1>3. TypeOK'
    BY <1>1 DEF IInv, TypeOK, AtType, Subfunction, Empty
  <1>4. Stage'
    BY <1>1, <1>2 DEF Stage, Absent, Down, Bare, Planning, Raising
  <1>5. Placed' /\ Blamed' /\ Swept'
    BY <1>1 DEF IInv, Placed, Planned, Raising, Blamed, Swept
  <1>6. Staffed'
    BY <1>1, <1>2 DEF IInv, Staffed, Absent, Bare, Empty
  <1> QED BY <1>3, <1>4, <1>5, <1>6 DEF IInv

---------------------------------------------------------------------------
(* Building another *)

\* Wherever the building fails, what is there can be taken down.
LEMMA FailKeeps ==
  ASSUME IInv, at \in Planning \union Raising, at' \in {"release", "unwind", "aborted"},
         refused' = TRUE, failed' \in BOOLEAN,
         UNCHANGED <<config, index, plan, pool, bank, footprint, fresh>>
  PROVE  IInv'
  <1>1. TypeOK'
    BY DEF IInv, TypeOK, AtType, Subfunction
  <1>2. Stage'
    BY DEF IInv, Stage, Down, Planning, Raising
  <1>3. Placed' /\ Blamed' /\ Swept'
    BY DEF Placed, Planned, Planning, Raising, Blamed, Swept
  <1>4. Staffed'
    BY DEF IInv, Staffed, NewWorker, PlacedBefore, NodeTotal
  <1> QED BY <1>1, <1>2, <1>3, <1>4 DEF IInv

LEMMA AllocateSlotsKeeps == ASSUME IInv, AllocateSlots PROVE IInv'
  <1>1. /\ at = "slots"
        /\ \/ refused' = refused /\ slots' = {} /\ at' = "place" /\ failed' = failed
           \/ refused' = TRUE /\ failed' = TRUE /\ at' = "answer" /\ slots' = slots
        /\ UNCHANGED <<config, count, seams, plan, pool, bank, footprint, fresh>>
    BY DEF AllocateSlots, Fail, Refused
  <1>2. Absent /\ ~failed
    BY <1>1 DEF IInv, Stage
  <1>3. TypeOK'
    BY <1>1 DEF IInv, TypeOK, AtType, Subfunction
  <1>4. Stage'
    BY <1>1, <1>2 DEF Stage, Absent, Bare, Down, Planning, Raising
  <1>5. Placed' /\ Blamed'
    BY <1>1 DEF IInv, Placed, Planned, Raising, Blamed
  <1>6. Staffed' /\ Swept'
    BY <1>1, <1>2 DEF IInv, Staffed, Swept, Absent, Bare, Empty
  <1> QED BY <1>3, <1>4, <1>5, <1>6 DEF IInv

\* What a placement can be.
LEMMA Placeable ==
  ASSUME IInv, NEW p, \/ p \in Placements /\ IsPlacement(p)
                      \/ p = AllOnNodeZero(want) /\ Granted
  PROVE  /\ p \in [0 .. want - 1 -> DOMAIN topology.cpus] /\ DOMAIN p = 0 .. want - 1
         /\ Subfunction(p, Ids, Nodes)
         /\ refused' \in BOOLEAN /\ (refused => refused')
  <1>1. /\ topology \in Topologies /\ want \in 1 .. SEARCH_THREADS_MAX /\ refused \in BOOLEAN
    BY DEF IInv, TypeOK
  <1>2. refused' \in BOOLEAN /\ (refused => refused')
    BY <1>1 DEF IsPlacement, Refused
  <1>3. p \in [0 .. want - 1 -> DOMAIN topology.cpus]
    BY <1>1, NodesAreIds DEF Placements, AllOnNodeZero
  <1>4. 0 .. want - 1 \subseteq Ids
    BY <1>1, TableAssumption DEF Ids
  <1>5. DOMAIN topology.cpus \subseteq Nodes
    BY <1>1, NodesAreIds
  <1> QED BY <1>2, <1>3, <1>4, <1>5 DEF Subfunction

LEMMA PlaceKeeps == ASSUME IInv, Place PROVE IInv'
  <1>1. /\ at = "place" /\ binding' = Binds /\ at' = "plan"
        /\ UNCHANGED <<config, index, bindTo, pool, bank, footprint, failed, fresh>>
    BY DEF Place
  <1>2. /\ topology \in Topologies /\ want \in 1 .. SEARCH_THREADS_MAX
        /\ Down /\ Bare /\ slots = {} /\ ~failed
    BY <1>1 DEF IInv, TypeOK, Stage, Planning
  <1>3. PICK p : /\ \/ Binds /\ p \in Placements /\ IsPlacement(p)
                    \/ ~Binds /\ p = AllOnNodeZero(want) /\ Granted
                 /\ nodeOf' = p
    <2>1. CASE Binds
      <3>1. PICK p \in Placements : /\ IsPlacement(p)
                                    /\ nodeOf' = [i \in DOMAIN p |-> Indexable(p[i])]
        BY <2>1 DEF Place
      <3>2. p \in [0 .. want - 1 -> DOMAIN topology.cpus]
        BY DEF Placements
      <3>3. ASSUME NEW n \in DOMAIN topology.cpus PROVE Indexable(n) = n
        <4>1. n \in Ids
          BY <1>2, NodesAreIds
        <4> QED BY <4>1, TableAssumption DEF Ids, Indexable
      <3>4. nodeOf' = p
        BY <3>1, <3>2, <3>3
      <3> QED BY <2>1, <3>1, <3>4
    <2>2. CASE ~Binds
      BY <2>2 DEF Place
    <2> QED BY <2>1, <2>2
  <1>4. /\ p \in [0 .. want - 1 -> DOMAIN topology.cpus] /\ DOMAIN p = 0 .. want - 1
        /\ Subfunction(p, Ids, Nodes) /\ refused' \in BOOLEAN
    BY <1>3, Placeable
  <1>5. TypeOK'
    <2>1. Binds \in BOOLEAN
      BY DEF Binds, SuggestsBinding
    <2> QED BY <1>1, <1>3, <1>4, <2>1 DEF IInv, TypeOK, AtType, Subfunction
  <1>6. Stage'
    BY <1>1, <1>2 DEF Stage, Bare, Down, Planning, Raising
  <1>7. Placed'
    <2>1. DOMAIN nodeOf' = 0 .. want' - 1
      BY <1>1, <1>3, <1>4
    <2>2. binding' = Binds'
      BY <1>1 DEF Binds, SuggestsBinding
    <2>3. Even(nodeOf)'
      <3>1. ~refused' /\ binding' => IsDistribution(topology.cpus, p)
        BY <1>1, <1>3 DEF IsPlacement, Refused
      <3> QED BY <1>1, <1>3, <1>4, <3>1 DEF Even
    <2>4. (~refused /\ ~binding => nodeOf = AllOnNodeZero(want))'
      BY <1>1, <1>3
    <2> QED BY <1>1, <2>1, <2>2, <2>3, <2>4 DEF Placed, Planned, Raising
  <1>8. Blamed'
    BY <1>1, <1>2 DEF Blamed
  <1>9. Staffed' /\ Swept'
    <2>1. DOMAIN nodeOf' \in {0 .. k - 1 : k \in 0 .. SEARCH_THREADS_MAX}
      BY <1>2, <1>3, <1>4
    <2> QED BY <1>1, <1>2, <2>1 DEF Staffed, Swept, Bare, Empty, Raising
  <1> QED BY <1>5, <1>6, <1>7, <1>8, <1>9 DEF IInv

LEMMA PlanKeeps == ASSUME IInv, Plan PROVE IInv'
  <1>1. /\ at = "plan" /\ UNCHANGED <<config, index, binding, nodeOf, pool, footprint, fresh>>
        /\ \/ bank' = Empty /\ at' = "banks" /\ failed' = failed
           \/ /\ refused' = TRUE /\ failed' = TRUE /\ at' = "release"
              /\ bindTo' = bindTo /\ bank' = bank
    BY DEF Plan, Fail, Refused
  <1>2. CASE at' # "banks"
    BY <1>1, <1>2, FailKeeps DEF Planning
  <1>3. CASE at' = "banks"
    <2>1. PICK p : /\ \/ Binds /\ p \in Placements /\ IsPlacement(p)
                      \/ ~Binds /\ p = AllOnNodeZero(want) /\ Granted
                   /\ bindTo' = p
      BY <1>3 DEF Plan, Fail
    <2>2. bank' = Empty /\ failed' = failed
      BY <1>1, <1>3
    <2>3. /\ topology \in Topologies /\ want \in 1 .. SEARCH_THREADS_MAX
          /\ Down /\ Bare /\ slots = {} /\ ~failed
          /\ DOMAIN nodeOf = 0 .. want - 1 /\ binding = Binds /\ Even(nodeOf)
          /\ ~refused /\ ~binding => nodeOf = AllOnNodeZero(want)
      BY <1>1 DEF IInv, TypeOK, Stage, Planning, Placed
    <2>4. /\ p \in [0 .. want - 1 -> DOMAIN topology.cpus] /\ DOMAIN p = 0 .. want - 1
          /\ Subfunction(p, Ids, Nodes) /\ refused' \in BOOLEAN /\ (refused => refused')
      BY <2>1, Placeable
    <2>5. TypeOK'
      BY <1>1, <1>3, <2>1, <2>2, <2>4 DEF IInv, TypeOK, AtType, Subfunction, Empty
    <2>6. Stage'
      BY <1>1, <1>3, <2>2, <2>3 DEF Stage, Bare, Down, Planning, Raising
    <2>7. Placed'
      <3>1. ~refused' /\ binding => IsDistribution(topology.cpus, p)
        BY <2>1, <2>3 DEF IsPlacement, Refused
      <3>2. Even(bindTo)'
        BY <1>1, <2>1, <2>4, <3>1 DEF Even
      <3>3. ASSUME ~refused' PROVE nodeOf = p
        <4>1. CASE binding
          <5>1. /\ nodeOf \in [0 .. want - 1 -> DOMAIN topology.cpus]
                /\ IsDistribution(topology.cpus, nodeOf) /\ IsDistribution(topology.cpus, p)
            BY <2>3, <2>4, <3>1, <3>3, <4>1 DEF Even
          <5>2. want \in Nat /\ p \in [0 .. want - 1 -> DOMAIN topology.cpus]
            BY <2>3, <2>4, TableAssumption
          <5> QED BY <5>1, <5>2, DistributionIsUnique
        <4>2. CASE ~binding
          BY <2>1, <2>3, <2>4, <3>3, <4>2
        <4> QED BY <4>1, <4>2
      <3>4. DOMAIN nodeOf' = 0 .. want' - 1 /\ DOMAIN bindTo' = 0 .. want' - 1
        BY <1>1, <2>1, <2>3, <2>4
      <3>5. ~refused' => nodeOf' = bindTo'
        BY <1>1, <2>1, <3>3
      <3> QED BY <1>3, <3>2, <3>4, <3>5 DEF Placed, Planned, Raising
    <2>8. Blamed'
      BY <1>1, <1>3, <2>2, <2>3 DEF Blamed
    <2>9. Staffed' /\ Swept'
      <3>1. DOMAIN worker' = {} /\ threads' = threads /\ nodeOf' = nodeOf
        BY <1>1, <2>3 DEF Bare, Empty
      <3>2. DOMAIN nodeOf \in {0 .. k - 1 : k \in 0 .. SEARCH_THREADS_MAX}
        BY DEF IInv, Staffed
      <3> QED BY <3>1, <3>2 DEF Staffed, Swept
    <2> QED BY <2>5, <2>6, <2>7, <2>8, <2>9 DEF IInv
  <1> QED BY <1>2, <1>3

\* A bank is sized for the threads of its node, of which there are no more than 1024.
LEMMA BankSized ==
  ASSUME IInv, at = "banks", NEW n \in Range(bindTo)
  PROVE  next_power_of_two(Cardinality({i \in DOMAIN bindTo : bindTo[i] = n})) \in Powers
  <1>1. want \in 1 .. SEARCH_THREADS_MAX /\ DOMAIN bindTo = 0 .. want - 1
    BY DEF IInv, TypeOK, Placed, Planned
  <1>2. PICK i \in 0 .. want - 1 : bindTo[i] = n
    BY <1>1 DEF Range
  <1>3. want \in Nat /\ want <= 1024 /\ i \in Nat /\ i + 1 \in 0 .. want
    BY <1>1, TableAssumption
  <1>4. Cardinality({j \in DOMAIN bindTo : bindTo[j] = n}) = Count(bindTo, n, want)
    BY <1>1 DEF Count, Before
  <1>5. Count(bindTo, n, want) \in Nat /\ Count(bindTo, n, want) <= want
    BY <1>3, CountGrows
  <1>6. Count(bindTo, n, i + 1) = Count(bindTo, n, i) + 1 /\ Count(bindTo, n, i) \in Nat
    BY <1>2, <1>3, CountGrows
  <1>7. Count(bindTo, n, i + 1) <= Count(bindTo, n, want)
    BY <1>3, CountIsMonotone
  <1>8. Count(bindTo, n, want) \in 1 .. 1024
    BY <1>3, <1>5, <1>6, <1>7
  <1> QED BY <1>4, <1>8, BankSizeIsAPower

LEMMA InsertBankKeeps == ASSUME IInv, InsertBank PROVE IInv'
  <1> DEFINE missing == Range(bindTo) \ DOMAIN bank
             node    == Min(missing)
             size    == next_power_of_two(Cardinality({i \in DOMAIN bindTo : bindTo[i] = node}))
  <1>1. at = "banks" /\ missing # {} /\ UNCHANGED <<config, index, plan, pool, footprint, fresh>>
    BY DEF InsertBank
  <1>2. Down /\ Bare /\ slots = {} /\ ~failed
    BY <1>1 DEF IInv, Stage, Planning
  <1>3. node \in Range(bindTo) /\ node \in Nodes
    <2>1. \A n \in Range(bindTo) : n \in Nodes
      BY DEF IInv, TypeOK, Subfunction, Range
    <2>2. Nodes \subseteq Nat
      BY NodesAreIds, TopologyAssumption, TableAssumption DEF Ids
    <2>3. missing \in SUBSET Nat
      BY <2>1, <2>2
    <2> HIDE DEF missing
    <2>4. node \in missing
      BY <1>1, <2>3, MinIsLeast
    <2> QED BY <2>1, <2>4 DEF missing
  <1>4. size \in Powers
    BY <1>1, <1>3, BankSized
  <1>5. \/ /\ refused' = refused /\ at' = at /\ failed' = failed
           /\ bank' = [n \in DOMAIN bank \union {node} |->
                          IF n = node THEN NewBank(size) ELSE bank[n]]
        \/ /\ at' \in {"release", "aborted"} /\ refused' = TRUE /\ failed' \in {TRUE, failed}
           /\ bank' = bank
    BY <1>4 DEF InsertBank, Refused, Abort
  <1> HIDE DEF missing, node, size
  <1>6. CASE at' \in {"release", "aborted"}
    <2>1. refused' = TRUE /\ failed' \in {TRUE, failed} /\ bank' = bank
      BY <1>1, <1>5, <1>6
    <2>2. failed' \in BOOLEAN
      BY <2>1 DEF IInv, TypeOK
    <2> QED BY <1>1, <1>6, <2>1, <2>2, FailKeeps DEF Planning
  <1>7. CASE at' \notin {"release", "aborted"}
    <2>1. /\ refused' = refused /\ at' = at /\ failed' = failed
          /\ bank' = [n \in DOMAIN bank \union {node} |->
                         IF n = node THEN NewBank(size) ELSE bank[n]]
      BY <1>5, <1>7
    <2>2. NewBank(size) \in BankType
      <3> DEFINE P == {p * BankPages : p \in Powers}
      <3>1. size * BankPages \in P
        BY <1>4
      <3> HIDE DEF P
      <3>2. NewBank(size) \in [pages : P, clean : SUBSET Nat, continuation : BOOLEAN]
        BY <3>1 DEF NewBank
      <3>3. NewBank(size).clean = {}
        BY DEF NewBank
      <3> HIDE DEF NewBank
      <3> QED BY <3>2, <3>3 DEF BankType, P
    <2>3. Subfunction(bank, Nodes, BankType)'
      BY <1>3, <2>1, <2>2 DEF IInv, TypeOK, Subfunction
    <2>4. TypeOK'
      BY <1>1, <2>1, <2>3 DEF IInv, TypeOK, Subfunction
    <2>5. Stage'
      BY <1>1, <1>2, <2>1 DEF Stage, Bare, Down, Planning, Raising
    <2>6. Placed' /\ Blamed'
      BY <1>1, <2>1 DEF IInv, Placed, Even, Planned, Raising, Blamed
    <2>7. Staffed' /\ Swept'
      <3>1. DOMAIN worker' = {} /\ threads' = threads /\ nodeOf' = nodeOf
        BY <1>1, <1>2 DEF Bare, Empty
      <3>2. DOMAIN nodeOf \in {0 .. k - 1 : k \in 0 .. SEARCH_THREADS_MAX}
        BY DEF IInv, Staffed
      <3> QED BY <3>1, <3>2 DEF Staffed, Swept
    <2> QED BY <2>4, <2>5, <2>6, <2>7 DEF IInv
  <1> QED BY <1>6, <1>7

LEMMA BanksInsertedKeeps == ASSUME IInv, BanksInserted PROVE IInv'
  <1>1. /\ at = "banks" /\ Range(bindTo) \subseteq DOMAIN bank /\ at' = "list"
        /\ UNCHANGED <<config, index, plan, pool, bank, footprint, refused, failed, fresh>>
    BY DEF BanksInserted
  <1>2. TypeOK'
    BY <1>1 DEF IInv, TypeOK, AtType, Subfunction
  <1>3. Stage'
    BY <1>1 DEF IInv, Stage, Bare, Down, Planning, Raising
  <1>4. Placed' /\ Blamed' /\ Swept'
    BY <1>1 DEF IInv, Placed, Even, Planned, Raising, Blamed, Swept
  <1>5. Staffed'
    BY <1>1 DEF IInv, Staffed, NewWorker, PlacedBefore, NodeTotal
  <1> QED BY <1>2, <1>3, <1>4, <1>5 DEF IInv

\* The threads that run, counted.
LEMMA BuiltCounts ==
  ASSUME NEW k \in Nat
  PROVE  Cardinality(0 .. k - 1) = k
  BY FS_Interval

LEMMA AllocateListKeeps == ASSUME IInv, AllocateList PROVE IInv'
  <1>1. /\ at = "list" /\ UNCHANGED <<config, index, plan, pool, bank, footprint, fresh>>
        /\ \/ refused' = refused /\ at' = "spawn" /\ failed' = failed
           \/ refused' = TRUE /\ failed' = TRUE /\ at' = "release"
    BY DEF AllocateList, Fail, Refused
  <1>2. CASE at' = "release"
    BY <1>1, <1>2, FailKeeps DEF Planning
  <1>3. CASE at' = "spawn"
    <2>1. refused' = refused /\ failed' = failed
      BY <1>1, <1>3
    <2>2. Down /\ Bare /\ slots = {} /\ ~failed /\ want \in 1 .. SEARCH_THREADS_MAX
      BY <1>1 DEF IInv, TypeOK, Stage, Planning
    <2>3. DOMAIN threads = {} /\ DOMAIN worker = {}
      BY <2>2 DEF Bare, Empty
    <2>4. Built = 0 /\ 0 .. Built - 1 = {} /\ 0 \in 0 .. want
      BY <2>2, <2>3, FS_EmptySet, TableAssumption DEF Built
    <2>5. TypeOK'
      BY <1>1, <1>3, <2>1 DEF IInv, TypeOK, AtType, Subfunction
    <2>6. Stage'
      <3>1. Built' = 0 /\ Manned(0 .. Built - 1, 0 .. Built - 1)'
        BY <1>1, <2>2, <2>3, <2>4 DEF Built, Manned
      <3> QED BY <1>1, <1>3, <2>1, <2>2, <2>4, <3>1 DEF Stage, Bare, Down, Planning, Raising
    <2>7. Placed' /\ Blamed' /\ Swept'
      BY <1>1, <1>3, <2>1, <2>3 DEF IInv, Placed, Even, Planned, Raising, Blamed, Swept
    <2>8. Staffed'
      BY <1>1, <2>3 DEF IInv, Staffed
    <2> QED BY <2>5, <2>6, <2>7, <2>8 DEF IInv
  <1> QED BY <1>1, <1>2, <1>3

LEMMA SpawnKeeps == ASSUME IInv, Spawn PROVE IInv'
  <1>1. /\ at = "spawn" /\ Built < want
        /\ UNCHANGED <<config, index, plan, worker, bank, footprint, failed, fresh>>
        /\ \/ /\ refused' = refused /\ at' = IF binding THEN "bind" ELSE "build"
              /\ threads' = [i \in 0 .. Built |-> IF i = Built THEN Unbound ELSE threads[i]]
           \/ refused' = TRUE /\ at' = "unwind" /\ threads' = threads
    BY DEF Spawn, Refused
  <1>2. /\ Down /\ ~failed /\ Built \in 0 .. want /\ Manned(0 .. Built - 1, 0 .. Built - 1)
        /\ footprint = Empty /\ want \in 1 .. SEARCH_THREADS_MAX
    BY <1>1 DEF IInv, TypeOK, Stage, Raising
  <1>3. CASE at' = "unwind"
    <2>1. failed' \in BOOLEAN /\ refused' = TRUE /\ threads' = threads
      BY <1>1, <1>3 DEF IInv, TypeOK
    <2> QED BY <1>1, <1>3, <2>1, FailKeeps DEF Raising
  <1>4. CASE at' # "unwind"
    <2>1. /\ refused' = refused /\ at' = IF binding THEN "bind" ELSE "build"
          /\ threads' = [i \in 0 .. Built |-> IF i = Built THEN Unbound ELSE threads[i]]
      BY <1>1, <1>4
    <2> DEFINE k == Built
    <2>2. k \in Nat /\ k + 1 \in 1 .. want /\ 0 .. k \subseteq Ids
      <3>1. k \in 0 .. want /\ k < want /\ want \in 1 .. SEARCH_THREADS_MAX
        BY <1>1, <1>2
      <3> HIDE DEF k
      <3> QED BY <3>1, TableAssumption DEF Ids
    <2>3. Built' = k + 1
      <3>1. k + 1 \in Nat /\ 0 .. k = 0 .. (k + 1) - 1
        BY <2>2
      <3>2. DOMAIN threads' = 0 .. k
        BY <2>1
      <3> HIDE DEF k
      <3> QED BY <3>1, <3>2, BuiltCounts DEF Built
    <2>4. at' \in {"bind", "build"} /\ (at' = "build" => ~binding)
      BY <2>1
    <2>5. Manned(0 .. Built - 1, 0 .. Built - 2)'
      <3>1. 0 .. (k + 1) - 1 = 0 .. k /\ 0 .. (k + 1) - 2 = 0 .. k - 1
        BY <2>2
      <3>2. DOMAIN threads' = 0 .. k /\ DOMAIN worker' = 0 .. k - 1 /\ slots' = 0 .. k - 1
        BY <1>1, <1>2, <2>1 DEF Manned
      <3> HIDE DEF k
      <3> QED BY <2>3, <3>1, <3>2 DEF Manned
    <2>6. Subfunction(threads, Ids, Nodes \union {Unbound})'
      <3>1. DOMAIN threads = 0 .. k - 1 /\ threads \in [DOMAIN threads -> Nodes \union {Unbound}]
        BY <1>2 DEF Manned, IInv, TypeOK, Subfunction
      <3>2. ASSUME NEW i \in 0 .. k PROVE threads'[i] \in Nodes \union {Unbound}
        <4>1. i = k \/ i \in 0 .. k - 1
          BY <2>2
        <4> QED BY <2>1, <3>1, <4>1
      <3> QED BY <2>1, <2>2, <3>2 DEF Subfunction
    <2>7. TypeOK'
      BY <1>1, <2>1, <2>4, <2>6 DEF IInv, TypeOK, AtType, Subfunction
    <2>8. Stage'
      <3>1. Built' \in 1 .. want'
        BY <1>1, <2>2, <2>3
      <3> QED BY <1>1, <1>2, <2>4, <2>5, <3>1 DEF Stage, Down, Planning, Raising
    <2>9. Placed'
      <3>1. ASSUME binding, NEW i \in DOMAIN worker PROVE threads'[i] = bindTo[i]
        <4>1. i \in 0 .. k - 1 /\ i \in DOMAIN threads
          BY <1>2 DEF Manned
        <4>2. threads'[i] = threads[i]
          BY <2>1, <2>2, <4>1
        <4> QED BY <1>1, <3>1, <4>1, <4>2 DEF IInv, Placed, Raising
      <3> QED BY <1>1, <2>1, <2>4, <3>1 DEF IInv, Placed, Even, Planned, Raising
    <2>10. Blamed' /\ Swept'
      BY <1>1, <2>1, <2>4 DEF IInv, Blamed, Swept, HasCleared, Raising
    <2>11. Staffed'
      <3>1. DOMAIN worker' \subseteq DOMAIN threads'
        BY <1>1, <1>2, <2>1 DEF Manned
      <3> QED BY <1>1, <3>1 DEF IInv, Staffed, NewWorker, PlacedBefore, NodeTotal
    <2> QED BY <2>7, <2>8, <2>9, <2>10, <2>11 DEF IInv
  <1> QED BY <1>3, <1>4

LEMMA BindKeeps == ASSUME IInv, Bind PROVE IInv'
  <1>1. /\ at = "bind" /\ UNCHANGED <<config, index, plan, worker, bank, footprint, failed, fresh>>
        /\ \/ /\ refused' = refused /\ at' = "build"
              /\ threads' = [threads EXCEPT ![Built - 1] = bindTo[Built - 1]]
           \/ refused' = TRUE /\ at' = "aborted" /\ threads' = threads
    BY DEF Bind, Abort, Refused
  <1>2. /\ Down /\ ~failed /\ Built \in 1 .. want /\ Manned(0 .. Built - 1, 0 .. Built - 2)
        /\ footprint = Empty /\ want \in 1 .. SEARCH_THREADS_MAX
    BY <1>1 DEF IInv, TypeOK, Stage, Raising
  <1>3. CASE at' = "aborted"
    <2>1. failed' \in BOOLEAN /\ refused' = TRUE /\ threads' = threads
      BY <1>1, <1>3 DEF IInv, TypeOK
    <2> QED BY <1>1, <1>3, <2>1, FailKeeps DEF Raising
  <1>4. CASE at' = "build"
    <2>1. /\ refused' = refused /\ DOMAIN threads' = DOMAIN threads
          /\ threads' = [threads EXCEPT ![Built - 1] = bindTo[Built - 1]]
      BY <1>1, <1>4
    <2>2. Built' = Built
      BY <2>1 DEF Built
    <2> DEFINE k == Built
    <2>3. /\ k \in 1 .. want /\ want \in Nat /\ DOMAIN threads = 0 .. k - 1 /\ DOMAIN worker = 0 .. k - 2
          /\ DOMAIN bindTo = 0 .. want - 1 /\ threads' = [threads EXCEPT ![k - 1] = bindTo[k - 1]]
      BY <1>1, <1>2, <2>1, TableAssumption DEF Manned, IInv, Placed, Planned, Raising
    <2> HIDE DEF k
    <2>4. Subfunction(threads, Ids, Nodes \union {Unbound})'
      <3>1. k - 1 \in DOMAIN bindTo
        BY <2>3
      <3>2. bindTo[k - 1] \in Nodes
        BY <3>1 DEF IInv, TypeOK, Subfunction
      <3> QED BY <2>1, <2>3, <3>2 DEF IInv, TypeOK, Subfunction
    <2>5. TypeOK'
      BY <1>1, <1>4, <2>1, <2>4 DEF IInv, TypeOK, AtType, Subfunction
    <2>6. Stage'
      BY <1>1, <1>2, <1>4, <2>1, <2>2 DEF Stage, Manned, Down, Planning, Raising
    <2>7. Placed'
      <3>1. ASSUME binding, NEW i \in DOMAIN threads PROVE threads'[i] = bindTo[i]
        <4>1. CASE i = k - 1
          BY <2>3, <4>1
        <4>2. CASE i # k - 1
          <5>1. i \in DOMAIN worker /\ threads'[i] = threads[i]
            BY <2>3, <4>2
          <5> QED BY <1>1, <3>1, <5>1 DEF IInv, Placed, Raising
        <4> QED BY <4>1, <4>2
      <3> QED BY <1>1, <1>4, <2>1, <3>1 DEF IInv, Placed, Even, Planned, Raising
    <2>8. Blamed' /\ Swept'
      BY <1>1, <1>4, <2>1 DEF IInv, Blamed, Swept, HasCleared, Raising
    <2>9. Staffed'
      BY <1>1, <2>1 DEF IInv, Staffed, NewWorker, PlacedBefore, NodeTotal
    <2> QED BY <2>5, <2>6, <2>7, <2>8, <2>9 DEF IInv
  <1> QED BY <1>1, <1>3, <1>4

LEMMA BuildKeeps == ASSUME IInv, Build PROVE IInv'
  <1> DEFINE i == Built - 1
  <1>1. /\ at = "build" /\ UNCHANGED <<config, count, seams, plan, threads, footprint, failed, fresh>>
        /\ \/ /\ nodeOf[i] \in DOMAIN bank /\ refused' = refused
              /\ worker' = [j \in DOMAIN worker \union {i} |->
                               IF j = i THEN NewWorker(i) ELSE worker[j]]
              /\ bank' = Cleared({NewWorker(i)}) /\ slots' = slots \union {i} /\ at' = "spawn"
           \/ /\ nodeOf[i] \notin DOMAIN bank /\ refused' = refused /\ at' = "unwind"
              /\ UNCHANGED <<worker, bank, slots>>
           \/ refused' = TRUE /\ at' = "unwind" /\ UNCHANGED <<worker, bank, slots>>
    BY DEF Build, Refused
  <1>2. /\ Down /\ ~failed /\ Built \in 1 .. want /\ Manned(0 .. Built - 1, 0 .. Built - 2)
        /\ footprint = Empty /\ want \in 1 .. SEARCH_THREADS_MAX /\ refused \in BOOLEAN
        /\ DOMAIN nodeOf = 0 .. want - 1 /\ DOMAIN bindTo = 0 .. want - 1
        /\ (~refused => nodeOf = bindTo) /\ Range(bindTo) \subseteq DOMAIN bank
    BY <1>1 DEF IInv, TypeOK, Stage, Placed, Planned, Raising
  <1>3. /\ i \in 0 .. want - 1 /\ want \in Nat /\ DOMAIN threads = 0 .. i
        /\ DOMAIN worker = 0 .. i - 1 /\ slots = 0 .. i - 1
    <2> DEFINE k == Built
    <2>1. k \in 1 .. want /\ want \in 1 .. SEARCH_THREADS_MAX /\ Manned(0 .. k - 1, 0 .. k - 2)
      BY <1>2
    <2>2. i = k - 1
      OBVIOUS
    <2> HIDE DEF k, i
    <2> QED BY <2>1, <2>2, TableAssumption DEF Manned
  <1> HIDE DEF i
  <1>4. CASE at' = "unwind"
    <2>1. refused' = TRUE
      <3>1. CASE nodeOf[i] \notin DOMAIN bank
        <4>1. bindTo[i] \in Range(bindTo)
          BY <1>2, <1>3 DEF Range
        <4> QED BY <1>1, <1>2, <1>4, <3>1, <4>1
      <3>2. CASE nodeOf[i] \in DOMAIN bank
        BY <1>1, <1>4, <3>2
      <3> QED BY <3>1, <3>2
    <2>2. failed' \in BOOLEAN /\ UNCHANGED <<worker, bank, slots>>
      BY <1>1, <1>4 DEF IInv, TypeOK
    <2> QED BY <1>1, <1>4, <2>1, <2>2, FailKeeps DEF Raising
  <1>5. CASE at' = "spawn"
    <2> DEFINE w == NewWorker(i)
    <2>1. /\ nodeOf[i] \in DOMAIN bank /\ refused' = refused
          /\ worker' = [j \in DOMAIN worker \union {i} |-> IF j = i THEN w ELSE worker[j]]
          /\ bank' = Cleared({w}) /\ slots' = slots \union {i}
      BY <1>1, <1>5
    <2>2. w \in WorkerType /\ w.node = nodeOf[i] /\ w.total \in Nat \ {0} /\ w.place \in 0 .. w.total - 1
      BY <1>2, <1>3, NewWorkerPlaced DEF IInv
    <2> HIDE DEF w
    <2>3. /\ Subfunction(bank, Nodes, BankType)' /\ DOMAIN bank' = DOMAIN bank
          /\ \A n \in DOMAIN bank : /\ bank'[n].pages = bank[n].pages
                                    /\ bank[n].clean \subseteq bank'[n].clean
                                    /\ bank[n].continuation => bank'[n].continuation
          /\ stripe(bank[w.node].pages, w.place, w.total) \subseteq bank'[w.node].clean
          /\ w.place = 0 => bank'[w.node].continuation
      <3>1. TypeOK /\ \A v \in {w} : v.total \in Nat \ {0} /\ v.place \in 0 .. v.total - 1
        BY <2>2 DEF IInv
      <3>2. w.node \in DOMAIN bank
        BY <2>1, <2>2
      <3> DEFINE C == Cleared({w})
      <3>3. /\ Subfunction(C, Nodes, BankType) /\ DOMAIN C = DOMAIN bank
            /\ \A n \in DOMAIN bank : /\ C[n].pages = bank[n].pages
                                      /\ bank[n].clean \subseteq C[n].clean
                                      /\ bank[n].continuation => C[n].continuation
            /\ stripe(bank[w.node].pages, w.place, w.total) \subseteq C[w.node].clean
            /\ w.place = 0 => C[w.node].continuation
        BY <3>1, <3>2, ClearedBanks
      <3>4. bank' = C
        BY <2>1
      <3>5. Subfunction(bank, Nodes, BankType)'
        BY <3>3, <3>4 DEF Subfunction, Nodes, BankType
      <3> HIDE DEF C
      <3> QED BY <3>3, <3>4, <3>5
    <2>4. Built' = i + 1 /\ i + 1 \in 0 .. want
      <3>1. i + 1 \in Nat /\ 0 .. i = 0 .. (i + 1) - 1 /\ i + 1 \in 0 .. want
        BY <1>3
      <3>2. DOMAIN threads' = 0 .. i
        BY <1>1, <1>3
      <3> QED BY <3>1, <3>2, BuiltCounts DEF Built
    <2>5. DOMAIN worker' = 0 .. i /\ slots' = 0 .. i /\ 0 .. (i + 1) - 1 = 0 .. i
      BY <1>3, <2>1
    <2>6. TypeOK'
      <3>1. 0 .. i \subseteq Ids
        BY <1>2, <1>3, TableAssumption DEF Ids
      <3>2. Subfunction(worker, Ids, WorkerType)'
        BY <2>1, <2>2, <2>5, <3>1 DEF IInv, TypeOK, Subfunction
      <3> QED BY <1>1, <1>5, <2>1, <2>3, <2>5, <3>1, <3>2 DEF IInv, TypeOK, AtType, Subfunction
    <2>7. Stage'
      <3>1. (Built \in 0 .. want /\ Manned(0 .. Built - 1, 0 .. Built - 1))'
        BY <1>1, <1>3, <2>4, <2>5 DEF Manned
      <3> QED BY <1>1, <1>2, <1>5, <3>1 DEF Stage, Down, Planning, Raising
    <2>8. Placed'
      BY <1>1, <1>5, <2>1, <2>3 DEF IInv, Placed, Even, Planned, Raising
    <2>9. Blamed'
      BY <1>1, <1>5, <2>1 DEF IInv, Blamed
    <2>10. Staffed'
      <3>1. \A j \in DOMAIN nodeOf : NewWorker(j)' = NewWorker(j)
        BY <1>1 DEF NewWorker, PlacedBefore, NodeTotal
      <3>2. DOMAIN worker' \subseteq DOMAIN threads' /\ nodeOf' = nodeOf
        BY <1>1, <1>3, <2>5
      <3>3. ASSUME NEW j \in DOMAIN worker'
            PROVE  j \in DOMAIN nodeOf /\ worker'[j] = NewWorker(j) /\ nodeOf[j] \in DOMAIN bank
        <4>1. CASE j = i
          BY <1>2, <1>3, <2>1, <4>1 DEF w
        <4>2. CASE j # i
          <5>1. j \in DOMAIN worker /\ worker'[j] = worker[j]
            BY <2>1, <3>3, <4>2
          <5> QED BY <5>1 DEF IInv, Staffed
        <4> QED BY <4>1, <4>2
      <3>4. (DOMAIN nodeOf \in {0 .. k - 1 : k \in 0 .. SEARCH_THREADS_MAX})'
        BY <3>2 DEF IInv, Staffed
      <3>5. \A j \in DOMAIN worker' : /\ j \in DOMAIN nodeOf' /\ worker'[j] = NewWorker(j)'
                                      /\ nodeOf'[j] \in DOMAIN bank'
        BY <2>3, <3>1, <3>2, <3>3
      <3> QED BY <3>2, <3>4, <3>5 DEF Staffed
    <2>11. Swept'
      <3> SUFFICES ASSUME NEW j \in DOMAIN worker' PROVE HasCleared(worker[j])'
        BY DEF Swept
      <3>1. CASE j = i
        <4>1. worker'[j] = w
          BY <2>1, <3>1
        <4>2. bank'[w.node].pages = bank[w.node].pages
          BY <2>1, <2>2, <2>3
        <4> QED BY <2>3, <4>1, <4>2 DEF HasCleared
      <3>2. CASE j # i
        <4>1. j \in DOMAIN worker /\ worker'[j] = worker[j]
          BY <2>1, <3>2
        <4>2. worker[j].node \in DOMAIN bank /\ HasCleared(worker[j])
          BY <1>1, <4>1, WorkersPlaced DEF IInv, Swept, Raising
        <4> QED BY <2>3, <4>1, <4>2 DEF HasCleared
      <3> QED BY <3>1, <3>2
    <2> QED BY <2>6, <2>7, <2>8, <2>9, <2>10, <2>11 DEF IInv
  <1> QED BY <1>1, <1>4, <1>5

LEMMA UnwoundKeeps == ASSUME IInv, Unwound PROVE IInv'
  <1>1. /\ at = "unwind" /\ at' = "release" /\ failed' = TRUE
        /\ UNCHANGED <<config, index, plan, pool, bank, footprint, refused, fresh>>
    BY DEF Unwound
  <1>2. Down /\ refused
    BY <1>1 DEF IInv, Stage, Blamed
  <1>3. TypeOK'
    BY <1>1 DEF IInv, TypeOK, AtType, Subfunction
  <1>4. Stage'
    BY <1>1, <1>2 DEF Stage, Down, Planning, Raising
  <1>5. Placed' /\ Blamed' /\ Swept'
    BY <1>1, <1>2 DEF Placed, Planned, Raising, Blamed, Swept
  <1>6. Staffed'
    BY <1>1 DEF IInv, Staffed, NewWorker, PlacedBefore, NodeTotal
  <1> QED BY <1>3, <1>4, <1>5, <1>6 DEF IInv

LEMMA AllBuiltKeeps == ASSUME IInv, AllBuilt PROVE IInv'
  <1>1. /\ at = "spawn" /\ Built = want /\ at' = "footprint"
        /\ UNCHANGED <<config, index, plan, pool, bank, footprint, refused, failed, fresh>>
    BY DEF AllBuilt
  <1>2. TypeOK'
    BY <1>1 DEF IInv, TypeOK, AtType, Subfunction
  <1>3. Stage'
    BY <1>1 DEF IInv, Stage, Manned, Down, Planning, Raising
  <1>4. Placed' /\ Blamed' /\ Swept'
    BY <1>1 DEF IInv, Placed, Even, Planned, Raising, Blamed, Swept, HasCleared
  <1>5. Staffed'
    BY <1>1 DEF IInv, Staffed, NewWorker, PlacedBefore, NodeTotal
  <1> QED BY <1>2, <1>3, <1>4, <1>5 DEF IInv

LEMMA RecordFootprintKeeps == ASSUME IInv, RecordFootprint PROVE IInv'
  <1>1. /\ at = "footprint" /\ UNCHANGED <<config, index, plan, pool, bank, fresh>>
        /\ \/ /\ refused' = refused /\ footprint' = (IF binding THEN bindTo ELSE Empty)
              /\ at' = "install" /\ failed' = failed
           \/ refused' = TRUE /\ failed' = TRUE /\ at' = "unwind" /\ footprint' = footprint
    BY DEF RecordFootprint, Fail, Refused
  <1>2. CASE at' = "unwind"
    <2>1. failed' \in BOOLEAN /\ refused' = TRUE /\ footprint' = footprint
      BY <1>1, <1>2
    <2> QED BY <1>1, <1>2, <2>1, FailKeeps DEF Raising
  <1>3. CASE at' = "install"
    <2>1. refused' = refused /\ footprint' = (IF binding THEN bindTo ELSE Empty) /\ failed' = failed
      BY <1>1, <1>3
    <2>2. TypeOK'
      <3>1. Subfunction(footprint, Ids, Nodes)'
        <4>1. CASE binding
          BY <2>1, <4>1 DEF IInv, TypeOK, Subfunction
        <4>2. CASE ~binding
          BY <2>1, <4>2 DEF Subfunction, Empty
        <4> QED BY <4>1, <4>2
      <3> QED BY <1>1, <1>3, <2>1, <3>1 DEF IInv, TypeOK, AtType, Subfunction
    <2>3. Stage'
      BY <1>1, <1>3, <2>1 DEF IInv, Stage, Manned, Down, Planning, Raising
    <2>4. Placed' /\ Blamed' /\ Swept'
      BY <1>1, <1>3, <2>1 DEF IInv, Placed, Even, Planned, Raising, Blamed, Swept, HasCleared
    <2>5. Staffed'
      BY <1>1 DEF IInv, Staffed, NewWorker, PlacedBefore, NodeTotal
    <2> QED BY <2>2, <2>3, <2>4, <2>5 DEF IInv
  <1> QED BY <1>1, <1>2, <1>3

LEMMA InstallKeeps == ASSUME IInv, Install PROVE IInv'
  <1>1. /\ at = "install" /\ at' = "answer" /\ count' = want /\ seams' = TRUE /\ fresh' = TRUE
        /\ UNCHANGED <<config, slots, plan, pool, bank, footprint, refused, failed>>
    BY DEF Install
  <1>2. /\ Manned(0 .. want - 1, 0 .. want - 1) /\ ~failed /\ want \in 1 .. SEARCH_THREADS_MAX
        /\ DOMAIN nodeOf = 0 .. want - 1 /\ DOMAIN bindTo = 0 .. want - 1 /\ Even(bindTo)
        /\ footprint = (IF binding THEN bindTo ELSE Empty)
        /\ binding => \A i \in DOMAIN threads : threads[i] = bindTo[i]
    BY <1>1 DEF IInv, TypeOK, Stage, Placed, Planned, Raising
  <1>3. ASSUME binding PROVE threads = bindTo
    <2>1. threads = [i \in 0 .. want - 1 |-> threads[i]] /\ bindTo = [i \in 0 .. want - 1 |-> bindTo[i]]
      BY <1>2 DEF IInv, TypeOK, Subfunction, Manned
    <2> QED BY <1>2, <1>3, <2>1 DEF Manned
  <1>4. TypeOK'
    <2>1. want \in 0 .. SEARCH_THREADS_MAX
      BY <1>2, TableAssumption
    <2> QED BY <1>1, <2>1 DEF IInv, TypeOK, AtType, Subfunction
  <1>5. Stage'
    <2>1. want > 0
      BY <1>2, TableAssumption
    <2>2. footprint = IF binding THEN threads ELSE Empty
      BY <1>2, <1>3
    <2>3. Standing'
      BY <1>1, <1>2, <2>1, <2>2 DEF Standing, Manned
    <2> QED BY <1>1, <1>2, <2>3 DEF Stage, Planning, Raising
  <1>6. Placed'
    <2>1. Even(threads)'
      BY <1>1, <1>2, <1>3 DEF Even
    <2> QED BY <1>1, <2>1 DEF Placed, Planned, Raising
  <1>7. Blamed' /\ Swept'
    BY <1>1 DEF IInv, Blamed, Swept, HasCleared, Raising
  <1>8. Staffed'
    BY <1>1 DEF IInv, Staffed, NewWorker, PlacedBefore, NodeTotal
  <1> QED BY <1>4, <1>5, <1>6, <1>7, <1>8 DEF IInv

LEMMA AnswerKeeps == ASSUME IInv, Answer PROVE IInv'
  <1>1. /\ at = "answer" /\ cmd' \in {"quit", cmd} /\ at' \in {"release", "rest"}
        /\ at' = "release" => failed
        /\ UNCHANGED <<taken, option, mode, topology, want, index, plan, pool, bank, footprint,
                       refused, failed, fresh>>
    BY DEF Answer
  <1>2. IF failed THEN Absent ELSE Standing /\ Even(threads)
    BY <1>1 DEF IInv, Stage, Placed
  <1>3. TypeOK'
    BY <1>1 DEF IInv, TypeOK, AtType, Subfunction
  <1>4. Stage'
    BY <1>1, <1>2 DEF Stage, Absent, Bare, Standing, Manned, Down, Planning, Raising
  <1>5. Placed'
    BY <1>1, <1>2 DEF Placed, Even, Absent, Down, Planned, Raising
  <1>6. Blamed' /\ Swept'
    BY <1>1 DEF IInv, Blamed, Swept, HasCleared, Raising
  <1>7. Staffed'
    BY <1>1 DEF IInv, Staffed, NewWorker, PlacedBefore, NodeTotal
  <1> QED BY <1>3, <1>4, <1>5, <1>6, <1>7 DEF IInv

---------------------------------------------------------------------------
(* The invariant, and what follows from it *)

LEMMA InitHolds == ASSUME Init PROVE IInv
  <1>1. TypeOK
    <2>1. \A S, T : Subfunction(Empty, S, T)
      BY DEF Subfunction, Empty
    <2>2. 1 \in Counts /\ 1 \in 1 .. SEARCH_THREADS_MAX /\ 0 \in 0 .. SEARCH_THREADS_MAX
          /\ 0 \in 0 .. MaxCommands
      BY CountsAssumption, TableAssumption, CommandsAssumption
    <2> QED BY <2>1, <2>2 DEF Init, TypeOK, AtType
  <1>2. Stage /\ Placed /\ Blamed /\ Swept
    BY DEF Init, Stage, Absent, Bare, Down, Planning, Raising, Placed, Planned, Blamed, Swept, Empty
  <1>3. Staffed
    <2>1. DOMAIN worker = {} /\ DOMAIN nodeOf = {} /\ {} = 0 .. 0 - 1 /\ 0 \in 0 .. SEARCH_THREADS_MAX
      BY TableAssumption DEF Init, Empty
    <2> QED BY <2>1 DEF Staffed
  <1> QED BY <1>1, <1>2, <1>3 DEF IInv

LEMMA StutterKeeps == ASSUME IInv, UNCHANGED vars PROVE IInv'
  <1>1. TypeOK' /\ Stage'
    BY DEF vars, IInv, TypeOK, Subfunction, Stage, Absent, Bare, Standing, Manned, Down, Planning,
           Raising, Built
  <1>2. Placed'
    <2>1. UNCHANGED <<at, mode, topology, want, count, binding, nodeOf, bindTo, threads, worker, bank,
                      refused, failed>>
      BY DEF vars
    <2>2. Binds' = Binds
      BY <2>1 DEF Binds, SuggestsBinding
    <2>3. Even(nodeOf)' = Even(nodeOf) /\ Even(bindTo)' = Even(bindTo) /\ Even(threads)' = Even(threads)
      BY <2>1 DEF Even
    <2> QED BY <2>1, <2>2, <2>3 DEF IInv, Placed, Planned, Raising
  <1>3. Blamed' /\ Swept'
    BY DEF vars, IInv, Blamed, Swept, HasCleared, Raising
  <1>4. Staffed'
    BY DEF vars, IInv, Staffed, NewWorker, PlacedBefore, NodeTotal
  <1> QED BY <1>1, <1>2, <1>3, <1>4 DEF IInv

LEMMA StepKeeps == ASSUME IInv, [Next]_vars PROVE IInv'
  <1>1. CASE SetThreads \/ SetPolicy \/ BuildLazily
    BY <1>1, CommandsKeep
  <1>2. CASE Quit
    BY <1>2, QuitKeeps
  <1>3. CASE Search
    BY <1>3, SearchKeeps
  <1>4. CASE NewGame
    BY <1>4, NewGameKeeps
  <1>5. CASE Release
    BY <1>5, ReleaseKeeps
  <1>6. CASE ClearThread \/ UnwindThread
    BY <1>6, DestroyKeeps
  <1>7. CASE PoolCleared
    BY <1>7, PoolClearedKeeps
  <1>8. CASE FreeBanks
    BY <1>8, FreeBanksKeeps
  <1>9. CASE AllocateSlots
    BY <1>9, AllocateSlotsKeeps
  <1>10. CASE Place
    BY <1>10, PlaceKeeps
  <1>11. CASE Plan
    BY <1>11, PlanKeeps
  <1>12. CASE InsertBank
    BY <1>12, InsertBankKeeps
  <1>13. CASE BanksInserted
    BY <1>13, BanksInsertedKeeps
  <1>14. CASE AllocateList
    BY <1>14, AllocateListKeeps
  <1>15. CASE Spawn
    BY <1>15, SpawnKeeps
  <1>16. CASE Bind
    BY <1>16, BindKeeps
  <1>17. CASE Build
    BY <1>17, BuildKeeps
  <1>18. CASE Unwound
    BY <1>18, UnwoundKeeps
  <1>19. CASE AllBuilt
    BY <1>19, AllBuiltKeeps
  <1>20. CASE RecordFootprint
    BY <1>20, RecordFootprintKeeps
  <1>21. CASE Install
    BY <1>21, InstallKeeps
  <1>22. CASE Answer
    BY <1>22, AnswerKeeps
  <1>23. CASE Stopped \/ UNCHANGED vars
    BY <1>23, StutterKeeps DEF Stopped
  <1> QED
    BY <1>1, <1>2, <1>3, <1>4, <1>5, <1>6, <1>7, <1>8, <1>9, <1>10, <1>11, <1>12, <1>13, <1>14,
       <1>15, <1>16, <1>17, <1>18, <1>19, <1>20, <1>21, <1>22, <1>23 DEF Next

\* Every step of a rebuild, a search, a clear or an exit leaves the pool in a state that can
\* be built on or taken down: the stages of pool_resize_impl and thread_pool_reconfigure.
THEOREM RebuildsAreStaged == Spec => []IInv
  <1>1. Init => IInv
    BY InitHolds
  <1>2. IInv /\ [Next]_vars => IInv'
    BY StepKeeps
  <1> QED BY <1>1, <1>2, PTL DEF Spec

\* A rebuild ends in a whole set or in none, in none only if the host refused something, and
\* no hook reaches a worker that is not there on the way.
THEOREM SetsAreWhole == Spec => []SetIsWhole
  <1>1. ASSUME IInv PROVE SetIsWhole
    <2>1. WholeOrAbsent
      BY <1>1 DEF IInv, Stage, Absent, Bare, Standing, Manned, Down, WholeOrAbsent
    <2>2. SeamsReachLiveWorkers
      <3>1. CASE Down
        <4>1. 0 .. count - 1 = {}
          BY <3>1 DEF Down
        <4> QED BY <3>1, <4>1 DEF Down, SeamsReachLiveWorkers
      <3>2. CASE Standing
        BY <3>2 DEF Standing, Manned, SeamsReachLiveWorkers
      <3>3. Down \/ Standing
        BY <1>1 DEF IInv, TypeOK, AtType, Stage, Absent, Planning, Raising
      <3> QED BY <3>1, <3>2, <3>3
    <2>3. OnlyRefusalsFail
      BY <1>1 DEF IInv, Blamed, OnlyRefusalsFail
    <2> QED BY <2>1, <2>2, <2>3 DEF SetIsWhole
  <1> QED BY <1>1, RebuildsAreStaged, PTL

\* No worker outlives the bank it writes to, and nothing outlives the process.
THEOREM BanksComeLast == Spec => []BanksOutliveWorkers
  <1>1. ASSUME IInv PROVE BanksOutliveWorkers
    <2>1. BanksStay
      BY <1>1, WorkersPlaced DEF IInv, BanksStay
    <2>2. ExitFreesAll
      BY <1>1 DEF IInv, Stage, Absent, Bare, ExitFreesAll
    <2> QED BY <2>1, <2>2 DEF BanksOutliveWorkers
  <1> QED BY <1>1, RebuildsAreStaged, PTL

\* The entries of a bank, and whom they fall to.
LEMMA BankEntries ==
  ASSUME IInv, NEW i \in DOMAIN worker
  PROVE  /\ bank[worker[i].node].pages \in Nat
         /\ bank[worker[i].node].clean \subseteq 0 .. bank[worker[i].node].pages - 1
  <1> DEFINE P == {p * BankPages : p \in Powers}
             b == bank[worker[i].node]
  <1>1. b \in BankType
    BY WorkersPlaced DEF IInv, TypeOK, Subfunction
  <1>2. P \subseteq Nat
    BY TableAssumption DEF Powers
  <1> HIDE DEF P, b
  <1>3. b \in [pages : P, clean : SUBSET Nat, continuation : BOOLEAN] /\ b.clean \subseteq 0 .. b.pages - 1
    BY <1>1 DEF BankType, P
  <1>4. b.pages \in P
    BY <1>3
  <1> QED BY <1>2, <1>3, <1>4 DEF b

LEMMA SweptBanksAreClean == ASSUME IInv PROVE Cleaned
  <1> SUFFICES ASSUME at = "rest", fresh, NEW i \in DOMAIN worker
               PROVE  LET b == bank[worker[i].node]
                      IN  b.clean = 0 .. b.pages - 1 /\ b.continuation
    BY DEF Cleaned
  <1> DEFINE n     == worker[i].node
             pages == bank[n].pages
             total == worker[i].total
  <1>1. Standing
    BY DEF IInv, Stage, Absent, Bare, Empty
  <1>2. /\ DOMAIN worker = 0 .. count - 1 /\ DOMAIN nodeOf = 0 .. count - 1 /\ count \in Nat
        /\ TypeOK /\ Staffed
    BY <1>1 DEF Standing, Manned, IInv, TypeOK
  <1>3. \A j \in DOMAIN worker : worker[j] = NewWorker(j) /\ HasCleared(worker[j])
    BY DEF IInv, Staffed, Swept
  <1>4. \A j \in DOMAIN worker : worker[j].node = nodeOf[j] /\ worker[j].place = Count(nodeOf, nodeOf[j], j)
    BY <1>2, <1>3, NewWorkerPlaced
  <1>5. total \in Nat \ {0} /\ total = Count(nodeOf, n, count)
    BY <1>2, <1>3, NewWorkerPlaced
  <1>6. pages \in Nat /\ bank[n].clean \subseteq 0 .. pages - 1
    BY BankEntries
  <1> HIDE DEF n, pages, total
  <1>7. ASSUME NEW p \in 0 .. total - 1
        PROVE  \E j \in DOMAIN worker : worker[j].node = n /\ worker[j].place = p /\ worker[j].total = total
    <2>1. PICK j \in 0 .. count - 1 : nodeOf[j] = n /\ Count(nodeOf, n, j) = p
      BY <1>2, <1>5, PlacesFilled
    <2>2. worker[j].total = Count(nodeOf, nodeOf[j], count)
      BY <1>2, <1>3, NewWorkerPlaced
    <2> QED BY <1>2, <1>4, <1>5, <2>1, <2>2
  <1>8. ASSUME NEW p \in 0 .. total - 1
        PROVE  stripe(pages, p, total) \subseteq bank[n].clean /\ (p = 0 => bank[n].continuation)
    BY <1>3, <1>7 DEF HasCleared, pages
  <1>9. ASSUME NEW x \in 0 .. pages - 1 PROVE x \in bank[n].clean
    <2>1. PICK p \in 0 .. total - 1 : x \in stripe(pages, p, total)
      BY <1>5, <1>6, StripesCover
    <2> QED BY <1>8, <2>1
  <1>10. bank[n].continuation
    <2>1. 0 \in 0 .. total - 1
      BY <1>5
    <2> QED BY <1>8, <2>1
  <1> QED BY <1>6, <1>9, <1>10 DEF n, pages

LEMMA WorkersClearApart == ASSUME IInv PROVE StripesDisjoint
  <1>1. PICK k \in 0 .. SEARCH_THREADS_MAX : DOMAIN nodeOf = 0 .. k - 1
    BY DEF IInv, Staffed
  <1>2. ASSUME NEW i \in DOMAIN worker
        PROVE  /\ i \in Nat /\ worker[i].node = nodeOf[i]
               /\ worker[i].place = Count(nodeOf, nodeOf[i], i)
               /\ worker[i].total = Count(nodeOf, nodeOf[i], k) /\ worker[i].total \in Nat \ {0}
               /\ worker[i].place \in 0 .. worker[i].total - 1
    <2>1. i \in DOMAIN nodeOf /\ worker[i] = NewWorker(i) /\ k \in Nat
      BY <1>1, TableAssumption DEF IInv, Staffed
    <2> QED BY <1>1, <2>1, NewWorkerPlaced DEF IInv
  <1>3. ASSUME NEW i \in DOMAIN worker, NEW j \in DOMAIN worker, i < j, worker[i].node = worker[j].node
        PROVE  worker[i].place # worker[j].place /\ worker[i].total = worker[j].total
    <2>1. i \in 0 .. j - 1 /\ j \in Nat
      BY <1>2, <1>3
    <2>2. worker[i].place < worker[j].place
      BY <1>2, <1>3, <2>1, PlacesApart
    <2>3. worker[i].place \in Int /\ worker[j].place \in Int
      BY <1>2
    <2> QED BY <1>2, <1>3, <2>2, <2>3
  <1>4. ASSUME NEW i \in DOMAIN worker, NEW j \in DOMAIN worker, i # j, worker[i].node = worker[j].node
        PROVE  worker[i].place # worker[j].place /\ worker[i].total = worker[j].total
    <2>1. i < j \/ j < i
      BY <1>2, <1>4
    <2> QED BY <1>3, <1>4, <2>1
  <1>5. ASSUME NEW i \in DOMAIN worker, NEW j \in DOMAIN worker, i # j, worker[i].node = worker[j].node,
               NEW pages, pages = bank[worker[i].node].pages
        PROVE  stripe(pages, worker[i].place, worker[i].total)
                  \intersect stripe(pages, worker[j].place, worker[j].total) = {}
    <2>1. pages \in Nat
      BY <1>5, BankEntries
    <2>2. /\ worker[i].place # worker[j].place /\ worker[i].total = worker[j].total
          /\ worker[i].total \in Nat \ {0}
          /\ worker[i].place \in 0 .. worker[i].total - 1 /\ worker[j].place \in 0 .. worker[i].total - 1
      BY <1>2, <1>4, <1>5
    <2> QED BY <2>1, <2>2, StripesApart
  <1> QED BY <1>5 DEF StripesDisjoint

LEMMA EvenIsBalanced == ASSUME IInv PROVE PlacementBalanced
  <1> DEFINE cpus    == topology.cpus
             load(n) == Cardinality({j \in DOMAIN threads : threads[j] = n})
  <1> SUFFICES ASSUME at = "rest", binding, ~refused, NEW i \in DOMAIN threads,
                      NEW m \in DOMAIN cpus \ {threads[i]}
               PROVE  load(threads[i]) * cpus[m] <= (load(m) + 1) * cpus[threads[i]]
    BY DEF PlacementBalanced
  <1>1. Standing
    BY DEF IInv, Stage, Absent, Bare, Empty
  <1>2. /\ count \in Nat /\ DOMAIN threads = 0 .. count - 1 /\ topology \in Topologies
        /\ IsDistribution(cpus, threads) /\ threads \in [0 .. count - 1 -> DOMAIN cpus]
    BY <1>1 DEF Standing, Manned, IInv, TypeOK, Placed, Even
  <1>3. PICK N \in 1 .. SEARCH_THREADS_MAX : cpus \in [0 .. N - 1 -> Nat \ {0}]
    BY <1>2, TopologyAssumption
  <1>4. N \in Nat \ {0} /\ DOMAIN cpus = 0 .. N - 1
    BY <1>3, TableAssumption
  <1>5. \A n : load(n) = Count(threads, n, count)
    BY <1>2 DEF Count, Before
  <1> HIDE DEF cpus, load
  <1>6. Count(threads, threads[i], count) * cpus[m] <= (Count(threads, m, count) + 1) * cpus[threads[i]]
    BY <1>2, <1>3, <1>4, DistributionIsBalanced
  <1> QED BY <1>5, <1>6

\* After a build or `ucinewgame` every entry of every bank in use has its initial value and no
\* entry was cleared twice, and the bound threads are spread as evenly as their nodes allow.
THEOREM BanksAreCleared == Spec => []BanksCleared
  <1>1. IInv => BanksCleared
    BY SweptBanksAreClean, WorkersClearApart, EvenIsBalanced DEF BanksCleared
  <1> QED BY <1>1, RebuildsAreStaged, PTL

=============================================================================
