# TLA+ models of fcfish

fcfish is a UCI chess engine in C: a port of Stockfish whose search runs on a
pool of worker threads that share a transposition table, per-node history banks
and a handful of flags. These modules model the parts of it that are hard to
test: what several threads do to one another, what a failed allocation leaves
behind, what a stop at the wrong moment reports, the state that is kept
incrementally and must equal what a scan would give, and the arithmetic at the
boundaries. All source paths below are relative to `src/src/`.

Three kinds of evidence stand side by side. TLC explores every behaviour of small
instances (the runs). TLAPS checks theorems for every value of the constants (the
modules that end in `Proofs`). And for each property of a run `PROJECT.json`
names a mutant: a plausible mistake in the code with which that run fails.

## 1. Inventory

| Component | State it keeps | Operations | What is hard about it | What makes it correct | Here |
|---|---|---|---|---|---|
| Thread handshake `platform/thread.c` | `searching`, `exit`, the job slot, one condition variable | spawn, start_job, wait_for_search_finished, join, idle loop | two submitters, broadcasts after the unlock, spurious wake-ups, an exit that races a job | no job lost or run twice, no wake-up missed, a wait drains, a join runs everything first | modelled, proved |
| Search session and UCI loop `engine/search/search.c`, `search_control.c`, `shell/uci.c`, `shell/engine.c`, `shell/benchmark.c` | running, unbounded, ponder and stop flags, each worker's root list | the UCI commands, `search_go_start`, `run_main_search`, `sibling_search`, `check_time` | commands wait for worker 0 alone; late stops; ponder; set-ups that fail half way | nothing changes under a search, no stop is stale, one answer for each `go` in order, stops and limits end a search | partly: no parsing or printing; safety proved |
| Iterative deepening `engine/search/search_id.c`, `search_emit.c`, `worker_set.c` | depth, root moves, aspiration window, last mate | the depth loop, MultiPV lines, roll-back, report, vote | scores of this iteration, the last and mere bounds side by side when the stop comes | no unproven loss is answered, a mate is kept, the reported line is played | modelled; safety proved |
| Search tree `engine/search/search_main.c`, `search_qsearch.c`, `search_setup.c` | a frame per ply, `nmp_min_ply`, excluded moves, lines | alpha-beta and quiescence nodes with every shortcut | many exits of a node, frames written from below, a line left by a cut search | a mate or table win claimed is there, lines can be played, frames are put back | modelled over abstract games |
| Move ordering `engine/search/movepick.c` | stage, two cursors, one array | next move, sorts, skip quiets, see_ge | losing captures and quiets share the array | each move once, hash move first | modelled |
| History tables `engine/search/history.c`, `search_common.c` | nine tables, four of them shared | gravity updates at every kind of node end, clears, ageing | updates that overwrite one another, 16-bit entries, unguarded products | entries keep their bands | modelled, bands proved |
| Worker pool `platform/worker_pool.c`, `thread_pool.c`, `shell/engine_options.c` | slots, threads, workers, banks, bound nodes, hooks | resize, reconfigure, bind, clear, shutdown | a dozen steps the host may refuse, order of tear-down | whole or absent, nothing dangles, banks outlive workers and are cleared | modelled, proved |
| NUMA placement `platform/numa.c`, `numa_replication.c` | topology and policy | distribute, suggests_binding | ratio arithmetic, fall-backs | balanced; every computation of it agrees | partly: no reading of the host; proved |
| Transposition table `engine/search/tt.c`, `tt.h` | clusters of racy entries, a generation | probe, save, penalize, new_search | writers without a lock, a writer kept across nodes, 5-bit ages, saturation | whole unless raced, ages exact, the least entry replaced | partly: one cluster, no resize; proved |
| Time management `engine/search/timeman.c` | budgets | init, elapsed | arithmetic, nodes as time | never negative | only as a stop at any moment |
| Board and move generation `engine/board` | board, keys, masks, state chain | make, unmake, generate, legality, see, FEN | incremental state over castling, en passant, promotion, Chess960 | equals a scan; undo restores; moves are those of the rules | modelled |
| Repetition `engine/board/repetition.c`, `state_list.c` | marks, table of reversible moves | append, upcoming repetition, draw tests | a signed distance, the root splits the game | foreseen exactly | modelled |
| NNUE accumulators `engine/eval/nnue/nnue_accumulator.c`, `engine/eval/evaluate.c` | a stack of lazily updated sums, a refresh cache | push, pop, evaluate | updated from whichever ply was computed last | equals a fresh one | modelled |
| Syzygy registry `platform/syzygy/registry.c` | tables, ready flags, list of mappings | set path, lazy map, release | first use by several threads, two mutexes, refused allocations | no half-read record, one mapping per file | modelled, proved |
| Syzygy probing and ranking `platform/syzygy/probe.c`, `wdl.c`, `engine/search/root_move_build.c`, `syzygy_pv.c` | nothing between calls | probe, rank the root, extend a line | values the files do not hold, rounding, the fifty-move edge | a won root is won, a held one held | modelled |
| UCI options `shell/ucioption.c`, `engine_options.c` | option values | setoption | callbacks that fail after the value is set | (in the pool) | partly |
| NNUE network, Syzygy decoding, output and log, memory and clock | | | sequential arithmetic, text, thin wrappers | goldens and tests | not modelled |

`PROJECT.json` lists the same components with their modules and a note each, and
39 hazards: what is hard to test in this code, each at its line, with the
properties that would notice.

How the parts interact. The UCI thread executes one command at a time. `go` fills
the session and queues `run_main_search` on worker 0's thread; that job queues
`sibling_search` on every other worker's thread, searches itself, raises the stop
flag, waits for the siblings, votes, prints `bestmove` and lowers `running` last.
`stop`, `ponderhit` and `isready` are answered at once; every other command first
calls `engine_end_search`, which stops an unbounded search and waits for worker 0.
`setoption` for `Threads` and `NumaPolicy` rebuilds the pool, and `ucinewgame`
clears the banks and the table, all on the UCI thread. Inside a search each worker
walks the tree on a position, an accumulator stack and history tables of its own,
and shares with the others the transposition table, its node's history bank, the
tablebase registry and the flags.

## 2. Modules

| Module | Models | Extends or composes |
|---|---|---|
| `JobSlot` | what `thread.h` promises: a single-slot job server (abstract) | |
| `Thread` | the handshake of `thread.c`, critical section by critical section | instances `JobSlot` as a refinement |
| `UciProtocol` | what a GUI sees: asks, answers, changes between searches (abstract) | |
| `SearchSession` | the UCI thread, worker 0's job, the siblings' jobs and the shared flags | a thread is `JobSlot`'s slot; instances `UciProtocol` |
| `IterativeDeepening` | one worker's depth loop, what it reports, the vote | the tree is an oracle bound by what `SearchTree` checks |
| `SearchTree` | one worker's nodes over abstract games | |
| `MovePicker` | stages, sorts, the exchange threshold | `MoveGen` |
| `Histories` | every update of the history tables | the life of the shared banks is in `WorkerPool` |
| `TranspositionTable` | one cluster under workers that probe and save with no lock | |
| `NumaPlacement` | the pool's arithmetic as operators | |
| `WorkerPool` | rebuild, shutdown and clear of the worker set | `NumaPlacement` |
| `Attacks`, `Threats`, `Position`, `MakeMove`, `MoveGen`, `Fen` | the board, each extending the one before | |
| `Accumulator` | the accumulator stack | `MoveGen` |
| `Game` | a worker making, taking back and evaluating moves from a root | `Fen`, `Accumulator`, `MovePicker` |
| `TbRegistry` | the tablebase registry under the threads that use it | |
| `TbProbe` | what a probe answers, by playing moves | |
| `TbRanking` | root ranking and line extension, a game played with them | `TbProbe` |
| `ThreadProofs`, `SearchSessionProofs`, `IterativeDeepeningProofs`, `HistoriesProofs`, `TranspositionTableProofs`, `NumaPlacementProofs`, `WorkerPoolProofs`, `TbRegistryProofs` | the theorems | the module they are about; `WorkerPoolProofs` also `NumaPlacementProofs` |
| `MC...` | the instances TLC checks | |

Each variable's comment names what it stands for, and `PROJECT.json` ("map")
gives the lines of every definition. Definitions whose comment begins with *Fault*
or *Slip* are plausible mistakes in the operation they stand before; no next-state
relation uses them, and each serves to show that a property notices the mistake.

### Thread
A critical section under the thread's mutex is one action. The waits on the
condition variable and the broadcasts, which the submitters make after they
unlocked, are actions of their own: `blocked` is who is asleep, a broadcast
empties it, and `SpuriousWakeup` removes anyone at any time. Clients are the
owner (the UCI thread, which spawns and joins) and worker 0, which drives its
siblings; a job has an identity of its own, so that losing one can be told from
running another. The owner joins only when nobody else is inside a call, as
`thread_pool_clear` makes sure of by waiting for thread 0 first.

### SearchSession
The UCI thread's place is `ui`: reading, between the test and the stop of
`engine_end_search`, waiting, then in the command. All the state the searches read
is one version number, `board`. Worker 0's job is `at`, each worker's depth loop
is `phase`. `running` and the stop flag are atomics and are read and written in
separate steps wherever the code does. The clock, the movetime and the node budget
are one flag, `timeUp`, that may come up whenever a search runs; whether an
iteration completes or finds a mate is nondeterministic. A `go` with a depth, or one
played with a handicap, skips the vote, as in the code, and a set-up may fail at each
of its allocations. A vote that meets a sibling without root moves reads through a
null pointer: the process dies (`ui` is `crashed`), and nothing happens any more.

### IterativeDeepening
One worker's loop over the root move list, whose order the code sorts stably and
partially. The tree below a root move answers any value, except that a decisive
one it claims is true of the move: that is what `SearchTree` checks. The stop may
rise between any two steps. An aborted line, a roll-back to the last mate, the
handicap's exchange of lines and what is emitted are as in the code, with a line
abstracted to its move and the score it was found with. After a line the flag is loaded
three times, before the repair of an aborted line, before the report and after it
(`EndLine`, `ShowLine`, `LeaveLine`), and the stop may come between any two. With the
root in the tablebases a report shows the table's score unless the move's own is a
mate, carries no mark, and `syzygy_extend_pv` may keep the line, cut it, walk on along
the tables or meet a draw and take the score back (`Reported`, `Walks`); what it makes
of the line stays in the list (`Written`). Which of the four it does is open here, and
what it may do is asked in `TbRanking`. A root node may also be cut by ProbCut before
any move is searched (`CutNode`). The vote goes through the
workers once, as in the code. Each sibling brings any first line its own copy of this
loop could have ended with: a move of the top rank, whose exact loss is one all of that
rank suffers, as `Settled` says of the list of this worker (see 4).

### SearchTree
A game is a small graph of positions with checks, captures, static values, null
moves and tabled results. A node goes through the steps of `search_main` in their
order; whether a margin or a reduction applies is a choice within the guard the
code gives it, of which at most `MaxTricks` may be made against the default. The
depths from which a step applies are lowered to fit the small games (`From`). The
stop may rise at any moment.

### MovePicker and the board
Squares are indices and bitboards are sets of them; magics and hyperbolas answer
what the ray cast answers, so that is what is written. A position carries the
board, the piece sets, castling rights, the state chain with keys (as sets of the
tokens that are combined by exclusive or), checkers, pins, captured piece and
repetition mark; making a move changes them one by one as `pos_do_move` does.
Generation, legality, `gives_check`, static exchange, FEN and move text follow the
code. `Game` walks trees of moves from chosen roots, with an accumulator pushed and
popped around each move and evaluated at any node, and asks at every position
whether the incremental state is what a scan gives. An accumulator is the bag of
the feature rows that were added to it: two equal bags are equal sums whatever the
weights. The picker is run at every position with several hash moves and at
several points of giving up on the quiets.

### Histories
What selects a row (a side, a key, the page of a stack frame) is a page; what
selects the entry in it is a move. A node end queues the updates the code makes
for its kind; updates of a worker's own tables are one step, those of a shared
table a load and a later store. Bonuses, scales and divisions are the code's
numbers with C's truncation.

### TranspositionTable
Which cluster a position goes to is not modelled, so `Keys` are the positions that
share one, and two of them may have the same low sixteen bits. The fields of an
entry are relaxed atomics: each store is a step, and the four stores of a save come
in any order, as the memory model allows. `open` is the stack of nodes a worker has
entered, each with what its probe gave it, so that a save may go to an entry
another position took meanwhile. The table starts cleared or with one entry a node
already left has saved (`Earlier`), so that a run can spend its saves on the race. A score is the number of the save it came from,
which lets a property ask whether fields belong together, and whether it is a
proven result. The loads of a copy are one step: properties about copies are stated
only where a worker is alone. `raced` is a history variable: entries two workers
were writing to at the same time.

### WorkerPool and NumaPlacement
All of it runs on the UCI thread; the actions are its steps, because each may be
refused by the host (`Refusals`) and what is left behind is the point. A bank is
its number of entries and those that are clean, so that what the stripes leave out
can be seen. The fill ratios of `numa_config_distribute_threads` are compared
exactly. An invalid `NumaPolicy` string changes nothing and is not an action.

### TbRegistry, TbProbe, TbRanking
`TbRegistry` follows each thread from the test of `ready` through the mutex, the
mapping and the records to the publication; a directory's file may be absent,
corrupt or unparsable. `TbProbe` and `TbRanking` take an endgame as a graph of
positions with its true values and ask what the probes make of files that hold less
than the truth, and what becomes of a game whose root moves are ranked by them,
against any opponent and any preference of the search among the top rank.

## 3. What is checked

| Run | Instance | What it shows |
|---|---|---|
| `thread` | two clients, three jobs, spurious wake-ups at any time, repeated and refused spawns, joins | `NoLostJob`, `NoMissedWakeup`, `WaitDrains`, `JoinRunsEverything`; under fairness `Progress` (jobs run, calls return); the handshake implements `JobSlot` (`SlotSpec`) |
| `session` | one sibling, eight kinds of `go` line, one of them with a handicap, two `go`, one change of position, any allocation of a set-up refused | `NobodyInTheWay`, `StopIsFresh`, the session implements the safety of `UciProtocol` (`ProtocolSafety`); under fairness, and but for a vote that ends the process, `SearchesEnd`, `CommandsReturn` |
| `pool` | one to five threads asked for, four slots, machines of one, two and three nodes, three commands, every refusal | `SetIsWhole`, `BanksOutliveWorkers`, `BanksCleared` |
| `tt_race` | three workers, one entry, cleared or taken, two positions, three probes, two saves, searches over a generation that wraps | `WholeUnlessRaced`, `AgeIsExact`, `DepthNeverInvented`, `SaveSticks` |
| `tt_alone` | one worker, a cluster of three, three positions of which two share their low bits, nested nodes, three saves | `HitIsOneSave`, `VictimIsWorthLeast` |
| `game` | roots for castling, Chess960, en passant, pins, promotion, cycles and king walks, each with its mirror image | `BoardIsExact`, `MovesAreExact`, `CycleIsExact`, `AccumulatorIsRefreshed`, `OrderingIsExact` |
| `histories` | two workers, one page and one move, two node ends, from cleared, lowest and highest entries | `WithinLimits`, `NoProductOverflows`, `RewardsNeverPunish` |
| `tree` | four games of ten positions, four plies, two choices against the default, a stop at any moment | `DecisiveIsReal`, `PvIsALine`, `UnwindsClean` |
| `root` | two or three root moves, one or two lines, roots in the tablebases with one and two ranks, a handicap, `go mate`, a sibling at the vote, a stop at any moment | `ExactLossIsProven`, `ReportedIsPlayed`, `MateIsKept`; under fairness `DeepeningEnds` |
| `registry` | two tables, two directories, three threads, the path set twice, one refused allocation | `NothingHalfRead`, `MappedOnce` |
| `tables` | endgames of two rings, over every kind of file and option, at and beyond the hundredth ply | `ProbesExact`, `RootHolds`, `LineIsWon` |
| `threefold` | one of these endgames, reached by ten moves the engine did not choose | a violation of `WonIsWon`: the finding below |

**The finding.** `root_moves_build` ranks the root moves on a scratch board set up
from a FEN (`engine/search/root_move_build.c:393-412`), which has no history, so its
two repetition tests (lines 141 and 212) never see a position of the game. The
comment at 209-210 says "A repetition is a draw under either setting". In the run
`threefold` a won root keeps a top-ranked move that repeats, and the game is
repeated into a draw.

**Other disagreements** between a comment and the code that were met while
modelling. The models follow the code; no run is kept for them.

- An infinite search "has no deadline of its own" (`search.c:572-573`); `go infinite
  depth 1` answers by itself (`search_id.c:196`).
- After `ponderhit` a search still counts as unbounded (`search.c:582`; compare
  `search.c:327-328` and `uci.c:629-630`), so the next command cuts it short.
- A root list that cannot be allocated leaves a `go` without `bestmove`
  (`search.c:531`), although the caller is to have "something playable" (529-530).
- A sibling whose set-up failed has no root list. "The vote skips it"
  (`search.c:541-543`), but the vote reads the first root move of every worker
  (`worker_set.c:195`). The run `session` reaches it: `LostToTheVote` is that state, and
  without it as an exception both liveness properties of the run are violated.
- The last report may claim more than the answer: a stop that comes while the last line
  is printed (`search_id.c:339`) leaves `uci_pv_sent` up, lines 372-393 may then mark the
  first move's loss as a bound, and `run_main_search` does not report again
  (`search.c:401`). `ReportedIsPlayed` allows it for a loss that was proven when shown.
- "Build ON this thread: the pool has already bound it" (`worker_pool.c:136-137`):
  worker blocks are built by the resizing thread (`thread_pool.c:131`).
- After a refused rebuild `NumaPolicy` still reports the threads there were
  (`engine_options.c:133`, `80`).
- The list of mappings is pushed to under two different mutexes
  (`registry.c:603-604`), although it is to hold "every allocation and every mapping"
  (lines 37-38): two pushes at once can lose an entry, which the next path then does
  not release.
- The raw key is to be adjusted for the fifty-move counter "at each reader"
  (`fen.c:80-82`), as the tree does (`search_main.c:134`); the look for a reply to
  ponder on probes with the raw one (`search.c:218`).
- The bonus "at the two nearest frames" (`search_common.c:638`) goes to the nearest
  alone: `(i < 2)` at line 663 counts from one.

**Bounds and why they are enough.** `thread`: a third job is needed for a submitter
to wait behind another that waits; a second client for the shared condition to have
waiters of both kinds. `session`: two `go` are the fewest for a flag of one search
to meet the next; one sibling is the fewest that can be late, and the proofs are for
any number; `MAX_PLY` 3 lets both a depth limit and the ceiling end the loop.
`pool`: three commands build, rebuild, and rebuild over a failure; four slots and
counts to five reach the clamp; nodes of unequal size make ties and ratios matter;
three entries per thread make the stripes' divisions inexact. `tt_race`: a depth
underflows only if one worker stores the lowest depth while two others stand between
their decision to lower the entry and the load, so there are three workers, a probe for
each, and an entry a deep, proven bound may hold from the start, which leaves two saves
and the penalties for the race; with a subtraction that wraps the run fails. One entry
is the fewest that is raced for, two generations wrap; the results are chosen so that
each condition under which an entry is overwritten, kept or aged decides a case. The
workers are interchangeable, and the run's view leaves out what no property and no
step looks at any more: a probe's copy once its node goes on, and the number of a save
that is over. The proofs are for any numbers. `tt_alone`: three entries make the running
choice differ from the first. Bounds on nodes and saves end every behaviour, so the
two do not look for deadlock, and nothing in the table blocks. `game`: every kind of
move, one or two plies deep with every legal move, six for cycles, where the fifty-move
counter and the root's place matter; the stack of eight and hybrid updates from six
men let each way of computing an accumulator occur. `histories`: entries start at the
ends of their bands, where an update could leave them, and node ends are at the ends
of their ranges. `tree`: ten positions hold a mate, a stalemate, a capture, a cycle
and a tabled position at once; four plies reach every step of the node with the
lowered depths. `root`: three moves are the fewest for a line to be aborted between a
finished and an unsearched one; roots in the tablebases have a rank below another, and
a mate beside a move the tables call won. `registry`: three threads are a ranking thread, a
worker in the tree and one more who asks for the same file. `tables`: rings of two and
three moves let each kind of probe occur; rings of fifty and fifty-one stand at the two
sides of the hundredth ply. Runs that end at a bound or with an answer say
`CHECK_DEADLOCK FALSE`; `thread`, `session` and `pool` look for deadlock.

**Fairness.** `Thread`: weak fairness of the idle loop and of each client's call in
progress: the scheduler runs a runnable thread and jobs return; no call is ever owed.
`SearchSession`: while the process lives, weak fairness of each thread's own steps, of
the passing of time and of `check_time`, which the tree comes to again and again; a
process that died owes nothing, so that the behaviours in which it dies are fair, and
what the two liveness properties say of them is their exception, `LostToTheVote`. The
GUI owes nothing, and
the end of an iteration is owed only under a depth limit, so that no result rests on
an iteration that happens to finish. `IterativeDeepening`: weak fairness of the
loop's own steps. No strong fairness anywhere.

## 4. What is proved

Each theorem holds for every value of the constants. The assumptions are those
named `...Assumption` in the modules; TLC evaluates them in the runs. Two deserve a
word: `SEARCH_THREADS_MAX` is at most 1024, which is its value in the code, so that
the size of a bank fits the code's doubling loop; and a machine has no more nodes
than the pool has slots, because the code counts a thread on a node beyond that as
node 0's, whose bank may then not exist.

**`ThreadProofs`**, for any clients and jobs: `TypeCorrect`; `NoJobLost`,
`NoWakeupMissed`, `WaitsDrain` and `JoinsRunEverything`, the invariants and action
properties of the run `thread`; `ImplementsJobSlot`, the safety half of the
refinement. That a submitter finds the slot free when `searching` is down needs to
know that the flag is up exactly while the loop has something to do. `ThreadInv` is
`TypeOK`, `Lifetime`, `Slotted` (where a job can be for each place of the loop),
`Leaving` (what an exit flag implies), `Submitted`, `Accounted` (how often each
accepted job has run) and `Sleeping` (the missed wake-up condition). The lemma
`Parked` is the fact everything turns on: a call that finds `searching` down finds
the thread asleep with an empty slot.

**`SearchSessionProofs`**, for any number of siblings, any limits and any failing
allocations: `NobodyIsEverInTheWay` (nothing changes under a search and nobody
writes what the vote reads), `StopsAreFresh`, and `ImplementsProtocol`: every step of
the session is a step of `UciProtocol` or leaves its variables alone. The invariant
follows each thread: where worker 0 is decides what the siblings may be doing
(`MainInPlace`, `SiblingsInPlace`), where the UCI thread is what is running
(`UciInPlace`), each `go` is answered, refused or on its way (`Accounted`), and a
stop flag that is up was raised since the last `go` (`Fresh`).

**`IterativeDeepeningProofs`**, for any moves, values, table ranks, numbers of lines
and siblings, whenever the stop comes and however often a window is reopened.
`DeepeningAssumption` asks of the constants that a value is 0 or decisive, as a value in
between proves nothing, that mates fit below `VALUE_INFINITE` and that a window is at
least three wide, so that a failed one grows. `DeepeningInvariant` is the invariant:
`Lists` and `Ranked` (each move once, ranks never rising along the list), `Segment` (the
lines under way are the whole of one rank's stretch), `Window` and `Node` (what the
node's best value inside the window has proven so far), `Completed` and `Remembered`
(the entries of finished lines, the last mate), `Sent` (what stands on the wire while
it counts as sent), `Settled` (what the list is worth between iterations), `Answered`.
From it follow `ReportsPlayed`, `AnsweredLossIsProven` and the action property
`FoundMateIsKept`. `ReportsPlayed` says what the wire may be held to: an unmarked report
ends in its own score, or is the table's score or a mate where the tables ranked the
root, or a line the tables met a draw on; and the answer is what was reported, marked
when it is a bound. The two exceptions are the code's: a table's score is shown without
a mark, and a loss may be marked after it was shown, when the stop comes during the
report; of that loss it says that it is proven all the same. A line's showing turns on
`Showable` (its moves and its score belong together), which sorting, repairing, rolling
back and writing the tables' lines into the list all keep. A table's score is assumed to
be no mate, as the ranking never gives one. A loss is proven only by all moves of its
rank, and the argument is that a line searched to its end has searched every move left
of its stretch, while one cut short leaves a score that is either marked as a bound or
rolled back. The sorts are defined by counting, and the lemmas `CountingNumbers` and `SortRearranges`, from the
cardinality theorems of the library, show that they rearrange and order what they are
given; that a winner of the vote has an exact decisive line if any voter had one takes
the least worker at which it would fail.

**`TranspositionTableProofs`**, for any workers, positions, results, cluster size and
number of generations. Three layers. `TableInv` (`TypeOK`, `Placed`, `Numbered`,
`DepthsSaved`) gives `TypeCorrect` and `NoDepthInvented`, whatever races: a worker
that lowers a depth holds one it read before, so `DepthsSaved` speaks of what was read
as well. `RaceInv` adds what is true of an entry nobody raced for: at most one worker
writes to it (`Alone`), it is whole when nobody does (`Rested`), what its one writer
may have left of it at each place of a save or a penalty (`UnderWay`, with `Halfway`),
and that the generation counts searches (`Dated`). It gives `WholeWithoutRaces`,
`AgesAreExact` (with lemmas on the packed byte's arithmetic) and the action property
`SavesStick`. `LoneInv`, under the hypothesis `Lone` that there is one worker, adds
that nothing was ever torn, entries not yet saved are cleared (`Blank`), copies are of
one save (`Copies`), and the running choice is the least so far (`Choosing`); it gives
`HitsAreSaves` and the action property `VictimsAreWorthLeast`. With more workers both
are false, as a copy may be torn and a victim changed while it is chosen.

**`HistoriesProofs`**, for any workers, pages, moves and node ends:
`UpdatesAreTyped`, the invariant, and from it `EntriesKeepTheirBand`, `ProductsFit` and
`RewardsOnlyRaise`. An update that is stored late was computed from an older entry: it
stays in the band because the gravity update keeps any entry of the band in it for any
bonus clamped to the band, so `IInv` says of each worker under way only that what it
holds is in the band (`UnderWay`). The walks over continuation tables leave the clamp
out; the lemmas about their scales show that the bonus is in the band all the same. No
product overflows because of a chain through several tables: the entries bound the
score of a move (`Scores`), the score the bonus of the node end that follows it
(`WalkMost`), and the frames behind the one a walk has come to its count; 65520 times
32776 leaves 127 to spare. That rewards only raise needs a second layer, `RewardInv`: a
worker holds no less than where the table stood (`HeldIsNoLess`), so that what it
stores over another's update, losing it, is no less either; and a clear finds no update
under way. Both need that a node ends with a depth of at least one (`Depths`): at depth
zero a fail low would punish the move it is to reward.

**`NumaPlacementProofs`**, about the operators: a bank's size is a power of two that
holds an entry for each thread (`BankSizeIsAPower`); the stripes of a node's workers
are disjoint and cover the bank for every size (`StripesApart`, `StripesCover`, with
`StripesInside`); counting a node's threads before each gives each place once
(`PlacesApart`, `PlacesFilled`); the distribution is determined by its rule, so the
pool and the reconfiguration agree (`DistributionIsUnique`), and moving a thread would
not leave its node less full (`DistributionIsBalanced`). Where the code counts up, the
argument takes a least counterexample, since induction over an operator is not
available.

**`WorkerPoolProofs`**, for any counts, machines, policies and refusals:
`RebuildsAreStaged` is the invariant (`Stage` says for each place of a rebuild which
slots, threads, workers and banks exist; `Placed` which node each thread was counted
on; `Blamed` that an absent set was refused; `Staffed` and `Swept` which bank entries
are clean); `SetsAreWhole`, `BanksComeLast` and `BanksAreCleared` are the three
invariants of the run `pool`.

**`TbRegistryProofs`**, for any tables, disks, paths and threads: `RegistryIsLocked`
(the invariant: who holds which mutex, and what a slot, its fields and the mappings say
of one another), `NoProbeReadsHalf`, `FilesAreMappedOnce`.

**Only model-checked**, and why. Liveness (`Progress`, `SearchesEnd`,
`CommandsReturn`, `DeepeningEnds`): fairness and `ENABLED` are beyond the prover. The
properties of `tree` and `tables` and what rests on them: `SearchTree`, `TbProbe` and
`TbRanking` use recursive operators, with which the prover loses its SMT backend, and
what a recursion computes needs an induction it cannot do. The properties of `game`
compare two computations over a board of 64 squares; a proof would be one about chess.

## 5. What is not modelled

The NNUE network's kernels and the decoding of a tablebase file: sequential
arithmetic, compared with known numbers by the goldens. Margins, reductions and move
scores of the search: abstract choices and an abstract score. The time budget's
arithmetic and nodes as time: a stop may come at any moment. The table's resize, its
parallel clear and `hashfull`; the choice of a cluster. Text: the parsing of commands,
options and NUMA strings, and everything printed. The host: page allocation, affinity
calls and files appear only as steps that may be refused. Tests, tools and build
scripts.

## 6. Plan

1. The table across a resize that fails, and the parallel clear with its spans.
2. Time management: the nodes-as-time bank over several moves.
