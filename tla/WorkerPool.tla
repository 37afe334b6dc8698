------------------------------- MODULE WorkerPool -------------------------------
(***************************************************************************)
(* The worker set (platform/worker_pool.c over platform/thread_pool.c): a  *)
(* resize takes the set down and builds another in many steps, each of     *)
(* which the host may refuse, on NUMA nodes that own a shared history bank *)
(* each.  Everything here runs on the UCI thread while no search does      *)
(* (SearchSession, NobodyInTheWay); the threads only run the binding.    *)
(***************************************************************************)
EXTENDS NumaPlacement, Functions

CONSTANTS Counts,             \* values `setoption name Threads` may carry
          SEARCH_THREADS_MAX, \* the size of the pool's tables
          Topologies,         \* what the policies may find: [mode, cpus, custom]
          BankPages,          \* entries of a bank's table per thread of its node
          Refusals,           \* what the host may refuse
          MaxCommands         \* bound: commands taken

RefusalType == {"slots", "distribution", "plan", "bank", "list", "thread", "worker",
                "footprint", "affinity", "topology"}

ASSUME CountsAssumption == Counts \subseteq Nat \ {0} /\ 1 \in Counts
ASSUME TableAssumption == SEARCH_THREADS_MAX \in 1 .. 1024 /\ BankPages \in Nat \ {0}
ASSUME TopologyAssumption ==
    /\ Topologies # {}
    /\ \A t \in Topologies :
          /\ t.mode \in {"none", "auto", "explicit"} /\ t.custom \in BOOLEAN
          /\ \E n \in 1 .. SEARCH_THREADS_MAX : t.cpus \in [0 .. n - 1 -> Nat \ {0}]
ASSUME RefusalAssumption == Refusals \subseteq RefusalType
ASSUME CommandsAssumption == MaxCommands \in Nat

VARIABLES
    at,        \* where the UCI thread is
    cmd,       \* what it rebuilds the set for
    taken,     \* commands taken
    option,    \* the Threads option
    mode, topology,  \* Policy and the context's NumaConfig
    want,      \* pool_resize_impl's count
    slots,     \* Workers: the filled entries, NoSlots for no array
    count,     \* WorkerCount
    seams,     \* PoolCounters and TTClearPool are installed
    binding,   \* BoundInEffect
    nodeOf,    \* NodeOfThread
    bindTo,    \* thread_pool_reconfigure's own bound_nodes
    threads,   \* the pool's threads, with the node each is bound to
    worker,    \* the live worker blocks, by thread
    bank,      \* the live history banks, by node
    footprint, \* pool->bound_nodes
    refused,   \* history: the host refused something during this command
    failed,    \* pool_resize_impl is returning false
    fresh      \* history: nothing searched since the tables were last cleared

vars == <<at, cmd, taken, option, mode, topology, want, slots, count, seams, binding, nodeOf,
          bindTo, threads, worker, bank, footprint, refused, failed, fresh>>

config == <<cmd, taken, option, mode, topology, want>>
index  == <<slots, count, seams>>
plan   == <<binding, nodeOf, bindTo>>
pool   == <<threads, worker>>

NoSlots == {-1}
Unbound == -1
Empty == [x \in {} |-> 0]

Ids == 0 .. SEARCH_THREADS_MAX - 1
Nodes == UNION {DOMAIN t.cpus : t \in Topologies}
Subfunction(f, S, T) == DOMAIN f \subseteq S /\ f \in [DOMAIN f -> T]

AtType == {"rest", "release", "clear", "slots", "place", "plan", "banks", "list", "spawn", "bind",
           "build", "unwind", "footprint", "install", "answer", "free_banks", "off", "aborted"}
WorkerType == [node : Nodes, place : Ids, total : 1 .. SEARCH_THREADS_MAX, home : {Unbound}]
BankType == {b \in [pages : {p * BankPages : p \in Powers}, clean : SUBSET Nat, continuation : BOOLEAN] :
                 b.clean \subseteq 0 .. b.pages - 1}

TypeOK ==
    /\ at \in AtType /\ cmd \in {"threads", "policy", "lazy", "quit"}
    /\ taken \in 0 .. MaxCommands /\ option \in Counts
    /\ mode \in {"none", "auto", "explicit"} /\ topology \in Topologies
    /\ want \in 1 .. SEARCH_THREADS_MAX
    /\ slots = NoSlots \/ slots \subseteq Ids
    /\ count \in 0 .. SEARCH_THREADS_MAX /\ seams \in BOOLEAN
    /\ binding \in BOOLEAN
    /\ Subfunction(nodeOf, Ids, Nodes) /\ Subfunction(bindTo, Ids, Nodes)
    /\ Subfunction(threads, Ids, Nodes \union {Unbound})
    /\ Subfunction(worker, Ids, WorkerType)
    /\ Subfunction(bank, Nodes, BankType)
    /\ Subfunction(footprint, Ids, Nodes)
    /\ refused \in BOOLEAN /\ failed \in BOOLEAN /\ fresh \in BOOLEAN

Init ==
    /\ at = "rest" /\ cmd = "lazy" /\ taken = 0 /\ option = 1
    /\ topology \in Topologies /\ mode = "auto" /\ topology.mode = "auto"
    /\ want = 1 /\ slots = NoSlots /\ count = 0 /\ seams = FALSE
    /\ binding = FALSE /\ nodeOf = Empty /\ bindTo = Empty
    /\ threads = Empty /\ worker = Empty /\ bank = Empty /\ footprint = Empty
    /\ refused = FALSE /\ failed = FALSE /\ fresh = TRUE

Go(next) == at' = next

\* One step the host may refuse.
Granted == UNCHANGED refused
Refused(what) == what \in Refusals /\ refused' = TRUE

-------------------------------------------------------------------------------
(* The commands *)

Clamped(n) == Min({n, SEARCH_THREADS_MAX})

Rebuild(c, n) ==
    /\ at = "rest" /\ taken < MaxCommands
    /\ taken' = taken + 1
    /\ cmd' = c
    /\ want' = Clamped(n)
    /\ failed' = FALSE
    /\ Go("release")
    /\ UNCHANGED <<index, plan, pool, bank, footprint, fresh>>

\* on_threads
SetThreads == \E n \in Counts :
    /\ Rebuild("threads", n)
    /\ option' = n /\ refused' = FALSE
    /\ UNCHANGED <<mode, topology>>

\* on_numa_policy: an unreadable topology leaves the one before in place, under
\* the new mode.
SetPolicy == \E t \in Topologies :
    /\ Rebuild("policy", option)
    /\ mode' = t.mode
    /\ \/ topology' = t /\ refused' = FALSE
       \/ topology' = topology /\ Refused("topology")
    /\ UNCHANGED option

\* search_worker_main, from `go` or `ucinewgame`: a missing set is built for one.
BuildLazily ==
    /\ count = 0
    /\ Rebuild("lazy", 1)
    /\ refused' = FALSE
    /\ UNCHANGED <<option, mode, topology>>

Quit ==
    /\ at = "rest"
    /\ cmd' = "quit" /\ failed' = FALSE
    /\ Go("release")
    /\ UNCHANGED <<taken, option, mode, topology, want, index, plan, pool, bank, footprint, refused, fresh>>

\* A search writes all over the banks.
Search ==
    /\ at = "rest" /\ count > 0
    /\ bank' = [n \in DOMAIN bank |-> [bank[n] EXCEPT !.clean = {}, !.continuation = FALSE]]
    /\ fresh' = FALSE
    /\ UNCHANGED <<at, config, index, plan, pool, footprint, refused, failed>>

\* history_clear, by every worker of W: its stripe of its node's bank, and the
\* continuation block if it is the node's first.
Cleared(W) ==
    [n \in DOMAIN bank |->
        LET mine == {w \in W : w.node = n}
        IN  [bank[n] EXCEPT
               !.clean = @ \union UNION {stripe(bank[n].pages, w.place, w.total) : w \in mine},
               !.continuation = @ \/ \E w \in mine : w.place = 0]]

\* pool_clear_impl, from `ucinewgame` and Clear Hash.
NewGame ==
    /\ at = "rest" /\ count > 0
    /\ bank' = Cleared({worker[i] : i \in 0 .. count - 1})
    /\ fresh' = TRUE
    /\ UNCHANGED <<at, config, index, plan, pool, footprint, refused, failed>>

-------------------------------------------------------------------------------
(* pool_resize_impl and pool_shutdown_impl: taking the set down *)

\* Fault: the banks are freed before the workers that read them.
ReleaseWithBanks ==
    /\ at = "release"
    /\ slots' = NoSlots /\ count' = 0 /\ seams' = FALSE /\ bank' = Empty
    /\ Go("clear")
    /\ UNCHANGED <<config, plan, pool, footprint, refused, failed, fresh>>

\* workers_release
Release ==
    /\ at = "release"
    /\ slots' = NoSlots /\ count' = 0 /\ seams' = FALSE
    /\ Go("clear")
    /\ UNCHANGED <<config, plan, pool, bank, footprint, refused, failed, fresh>>

\* destroy_thread: the thread is joined, then its worker block is freed.
DestroyNextThread ==
    LET i == Min(DOMAIN threads) IN
    /\ threads' = Restrict(threads, DOMAIN threads \ {i})
    /\ worker' = Restrict(worker, DOMAIN worker \ {i})

\* thread_pool_clear
ClearThread ==
    /\ at = "clear" /\ DOMAIN threads # {}
    /\ DestroyNextThread
    /\ UNCHANGED <<at, config, index, plan, bank, footprint, refused, failed, fresh>>

PoolCleared ==
    /\ at = "clear" /\ DOMAIN threads = {}
    /\ footprint' = Empty
    /\ Go(IF cmd = "quit" THEN "free_banks" ELSE IF failed THEN "answer" ELSE "slots")
    /\ UNCHANGED <<config, index, plan, pool, bank, refused, failed, fresh>>

FreeBanks ==
    /\ at = "free_banks"
    /\ bank' = Empty
    /\ Go("off")
    /\ UNCHANGED <<config, index, plan, pool, footprint, refused, failed, fresh>>

-------------------------------------------------------------------------------
(* pool_resize_impl and thread_pool_reconfigure: building another *)

\* The set is taken down again, whatever of it was built.
Fail(what, then) ==
    /\ Refused(what)
    /\ failed' = TRUE
    /\ Go(then)

AllocateSlots ==
    /\ at = "slots"
    /\ \/ Granted /\ slots' = {} /\ Go("place") /\ UNCHANGED failed
       \/ Fail("slots", "answer") /\ UNCHANGED slots
    /\ UNCHANGED <<config, count, seams, plan, pool, bank, footprint, fresh>>

\* numa_distribute_threads_among_nodes: the threads' nodes, all node 0 for want
\* of memory.
IsPlacement(nodes) ==
    \/ Granted /\ IsDistribution(topology.cpus, nodes)
    \/ /\ Cardinality(DOMAIN topology.cpus) > 1
       /\ Refused("distribution") /\ nodes = AllOnNodeZero(want)

Placements == [0 .. want - 1 -> DOMAIN topology.cpus]

Binds == mode = "explicit" \/ (mode = "auto" /\ SuggestsBinding(topology, want))

Indexable(n) == IF n < SEARCH_THREADS_MAX THEN n ELSE 0

\* The pool's own placement, for the builder.
Place ==
    /\ at = "place"
    /\ binding' = Binds
    /\ IF Binds
       THEN \E p \in Placements : /\ IsPlacement(p)
                                  /\ nodeOf' = [i \in DOMAIN p |-> Indexable(p[i])]
       ELSE nodeOf' = AllOnNodeZero(want) /\ Granted
    /\ Go("plan")
    /\ UNCHANGED <<config, index, bindTo, pool, bank, footprint, failed, fresh>>

\* thread_pool_reconfigure's placement, for the banks and the binding; then the
\* banks of the set before are freed.
Plan ==
    /\ at = "plan"
    /\ \/ /\ IF Binds THEN \E p \in Placements : IsPlacement(p) /\ bindTo' = p
                      ELSE bindTo' = AllOnNodeZero(want) /\ Granted
          /\ bank' = Empty
          /\ Go("banks") /\ UNCHANGED failed
       \/ Fail("plan", "release") /\ UNCHANGED <<bindTo, bank>>
    /\ UNCHANGED <<config, index, binding, nodeOf, pool, footprint, fresh>>

NewBank(multiplier) == [pages |-> multiplier * BankPages, clean |-> {}, continuation |-> FALSE]

\* The process exits when a thread cannot be bound.
Abort == /\ binding /\ Refused("affinity")
         /\ Go("aborted")

\* One bank per node with a thread, in node order; the size must be a power of
\* two.  A bound bank is built by a throwaway thread on its node.
InsertBank ==
    LET missing == Range(bindTo) \ DOMAIN bank
        node    == Min(missing)
        size    == next_power_of_two(Cardinality({i \in DOMAIN bindTo : bindTo[i] = node}))
    IN  /\ at = "banks" /\ missing # {}
        /\ \/ /\ size \in Powers /\ Granted
              /\ bank' = [n \in DOMAIN bank \union {node} |->
                             IF n = node THEN NewBank(size) ELSE bank[n]]
              /\ UNCHANGED <<at, failed>>
           \/ /\ IF size \in Powers THEN Refused("bank") ELSE Granted
              /\ failed' = TRUE
              /\ Go("release") /\ UNCHANGED bank
           \/ Abort /\ UNCHANGED <<bank, failed>>
        /\ UNCHANGED <<config, index, plan, pool, footprint, fresh>>

BanksInserted ==
    /\ at = "banks" /\ Range(bindTo) \subseteq DOMAIN bank
    /\ Go("list")
    /\ UNCHANGED <<config, index, plan, pool, bank, footprint, refused, failed, fresh>>

AllocateList ==
    /\ at = "list"
    /\ \/ Granted /\ Go("spawn") /\ UNCHANGED failed
       \/ Fail("list", "release")
    /\ UNCHANGED <<config, index, plan, pool, bank, footprint, fresh>>

Built == Cardinality(DOMAIN threads)

Spawn ==
    /\ at = "spawn" /\ Built < want
    /\ \/ /\ Granted
          /\ threads' = [i \in 0 .. Built |-> IF i = Built THEN Unbound ELSE threads[i]]
          /\ Go(IF binding THEN "bind" ELSE "build")
       \/ Refused("thread") /\ Go("unwind") /\ UNCHANGED threads
    /\ UNCHANGED <<config, index, plan, worker, bank, footprint, failed, fresh>>

\* bind_job, on the new thread, which the caller waits for.
Bind ==
    /\ at = "bind"
    /\ \/ /\ Granted
          /\ threads' = [threads EXCEPT ![Built - 1] = bindTo[Built - 1]]
          /\ Go("build")
       \/ Abort /\ UNCHANGED threads
    /\ UNCHANGED <<config, index, plan, worker, bank, footprint, failed, fresh>>

\* PerNodePlaced and PerNodeTotal of thread i's node when i is built.
PlacedBefore(i) == Cardinality({j \in 0 .. i - 1 : nodeOf[j] = nodeOf[i]})

NodeTotal(i) == Cardinality({j \in DOMAIN nodeOf : nodeOf[j] = nodeOf[i]})

\* worker_create is called by the thread that resizes, which is bound to no node.
NewWorker(i) == [node |-> nodeOf[i], place |-> PlacedBefore(i), total |-> NodeTotal(i),
                 home |-> Unbound]

\* Fault: the worker is not given to the set.
BuildUnlisted ==
    LET i == Built - 1 IN
    /\ at = "build" /\ nodeOf[i] \in DOMAIN bank
    /\ Granted
    /\ worker' = [j \in DOMAIN worker \union {i} |-> IF j = i THEN NewWorker(i) ELSE worker[j]]
    /\ bank' = Cleared({NewWorker(i)})
    /\ Go("spawn")
    /\ UNCHANGED <<config, index, plan, threads, footprint, failed, fresh>>

\* builder_build: the worker clears its part of the bank as it is made.
Build ==
    LET i == Built - 1 IN
    /\ at = "build"
    /\ \/ /\ nodeOf[i] \in DOMAIN bank
          /\ Granted
          /\ worker' = [j \in DOMAIN worker \union {i} |->
                           IF j = i THEN NewWorker(i) ELSE worker[j]]
          /\ bank' = Cleared({NewWorker(i)})
          /\ slots' = slots \union {i}
          /\ Go("spawn")
       \/ nodeOf[i] \notin DOMAIN bank /\ Granted /\ Go("unwind") /\ UNCHANGED <<worker, bank, slots>>
       \/ Refused("worker") /\ Go("unwind") /\ UNCHANGED <<worker, bank, slots>>
    /\ UNCHANGED <<config, count, seams, plan, threads, footprint, failed, fresh>>

\* thread_pool_set gives back what it built, or reconfigure what set() built.
UnwindThread ==
    /\ at = "unwind" /\ DOMAIN threads # {}
    /\ DestroyNextThread
    /\ UNCHANGED <<at, config, index, plan, bank, footprint, refused, failed, fresh>>

Unwound ==
    /\ at = "unwind" /\ DOMAIN threads = {}
    /\ failed' = TRUE
    /\ Go("release")
    /\ UNCHANGED <<config, index, plan, pool, bank, footprint, refused, fresh>>

AllBuilt ==
    /\ at = "spawn" /\ Built = want
    /\ Go("footprint")
    /\ UNCHANGED <<config, index, plan, pool, bank, footprint, refused, failed, fresh>>

\* thread_pool_bound_nodes_assign
RecordFootprint ==
    /\ at = "footprint"
    /\ \/ /\ Granted
          /\ footprint' = IF binding THEN bindTo ELSE Empty
          /\ Go("install") /\ UNCHANGED failed
       \/ binding /\ Fail("footprint", "unwind") /\ UNCHANGED footprint
    /\ UNCHANGED <<config, index, plan, pool, bank, fresh>>

Install ==
    /\ at = "install"
    /\ count' = want /\ seams' = TRUE /\ fresh' = TRUE
    /\ Go("answer")
    /\ UNCHANGED <<config, slots, plan, pool, bank, footprint, refused, failed>>

\* on_threads shuts the engine down on a failure; on_numa_policy reports, and
\* search_worker_main's caller does without.
Answer ==
    /\ at = "answer"
    /\ IF failed /\ cmd = "threads" THEN cmd' = "quit" /\ Go("release")
                                    ELSE cmd' = cmd /\ Go("rest")
    /\ UNCHANGED <<taken, option, mode, topology, want, index, plan, pool, bank, footprint,
                   refused, failed, fresh>>

-------------------------------------------------------------------------------

Stopped == at \in {"off", "aborted"} /\ UNCHANGED vars

Next ==
    \/ SetThreads \/ SetPolicy \/ BuildLazily \/ Quit \/ Search \/ NewGame
    \/ Release \/ ClearThread \/ PoolCleared \/ FreeBanks
    \/ AllocateSlots \/ Place \/ Plan \/ InsertBank \/ BanksInserted \/ AllocateList
    \/ Spawn \/ Bind \/ Build \/ UnwindThread \/ Unwound \/ AllBuilt
    \/ RecordFootprint \/ Install \/ Answer
    \/ Stopped

Spec == Init /\ [][Next]_vars

-------------------------------------------------------------------------------

(* Between commands the set is whole or absent: every thread has a listed  *)
(* worker and the totals and the table clear can reach them all, or        *)
(* nothing is left of it.                                                  *)
WholeOrAbsent ==
    at = "rest" =>
        IF count = 0
        THEN slots = NoSlots /\ ~seams /\ threads = Empty /\ worker = Empty /\ footprint = Empty
        ELSE /\ DOMAIN threads = 0 .. count - 1 /\ DOMAIN worker = DOMAIN threads
             /\ slots = DOMAIN threads /\ seams
             /\ footprint = IF binding THEN threads ELSE Empty

(* The totals, the table clear and the vote never reach a worker that is   *)
(* not there, in the middle of a rebuild neither.                          *)
SeamsReachLiveWorkers ==
    /\ seams => count > 0
    /\ 0 .. count - 1 \subseteq slots \intersect DOMAIN worker

(* A bank outlives every worker that points into it.                       *)
BanksStay == \A i \in DOMAIN worker : worker[i].node \in DOMAIN bank

(* What is not refused by the host succeeds: the sizes and the placement   *)
(* by themselves never make a rebuild fail.                                *)
OnlyRefusalsFail == at = "answer" /\ failed => refused

(* A rebuild ends in a whole set or in none, and in none only if the host   *)
(* refused something, with no hook into a dead worker on the way.           *)
SetIsWhole == WholeOrAbsent /\ SeamsReachLiveWorkers /\ OnlyRefusalsFail

(* After a build or `ucinewgame` every entry of every bank in use has its  *)
(* initial value, whatever the number of workers that share it.            *)
Cleaned ==
    at = "rest" /\ fresh =>
        \A i \in DOMAIN worker : LET b == bank[worker[i].node]
                                 IN  b.clean = 0 .. b.pages - 1 /\ b.continuation

(* No two workers clear the same entry (history.c:125-126).                *)
StripesDisjoint ==
    \A i, j \in DOMAIN worker :
        i # j /\ worker[i].node = worker[j].node =>
            LET pages == bank[worker[i].node].pages
                part(w) == stripe(pages, w.place, w.total)
            IN  part(worker[i]) \intersect part(worker[j]) = {}

(* Moving a bound thread to another node would not leave it emptier.       *)
PlacementBalanced ==
    at = "rest" /\ binding /\ ~refused =>
        LET cpus    == topology.cpus
            load(n) == Cardinality({i \in DOMAIN threads : threads[i] = n})
        IN  \A i \in DOMAIN threads : \A m \in DOMAIN cpus \ {threads[i]} :
               load(threads[i]) * cpus[m] <= (load(m) + 1) * cpus[threads[i]]

(* The threads share the nodes evenly, and those of a node share the        *)
(* clearing of its bank: every entry falls to exactly one of them.          *)
BanksCleared == PlacementBalanced /\ StripesDisjoint /\ Cleaned

(* An orderly exit gives back every thread, worker and bank.               *)
ExitFreesAll ==
    at = "off" => threads = Empty /\ worker = Empty /\ bank = Empty /\ slots = NoSlots

(* No worker outlives the bank it writes to, and the process neither.       *)
BanksOutliveWorkers == BanksStay /\ ExitFreesAll

=================================================================================
