---------------------------- MODULE SearchSession ----------------------------
(***************************************************************************)
(* One UCI session: the UCI thread (shell/uci.c, shell/engine.c) that      *)
(* reads commands, worker 0's thread that runs a search (engine/search/    *)
(* search.c) and drives the siblings' threads, and the flags they share.   *)
(* A thread is the job slot of JobSlot.tla, which Thread.tla implements:   *)
(* a job is queued, runs, and leaves the slot idle.                        *)
(***************************************************************************)
EXTENDS Integers, FiniteSets

CONSTANTS SiblingCount,  \* workers besides worker 0
          MAX_PLY,       \* the depth loop's ceiling
          Limits,        \* the limits a `go` line may carry
          BenchLimits,   \* those a `bench` line may carry
          Failures,      \* which allocations may fail while a `go` is set up
          MaxGos,        \* bound: `go` commands
          MaxBoards      \* bound: commands that change what a search reads

Workers == 0 .. SiblingCount
Siblings == 1 .. SiblingCount

\* What go_line makes of a `go` line, and whether the options then set handicap the
\* search.  movetime and nodes are one limit here: check_time enforces both alike.
LimitType == [infinite : BOOLEAN, ponder : BOOLEAN, depth : 0 .. MAX_PLY,
              cap : BOOLEAN, clock : BOOLEAN, mate : BOOLEAN, skill : BOOLEAN]
FailureType == {"worker", "root_list", "main_setup", "sibling_setup"}

ASSUME CountAssumption == SiblingCount \in Nat
ASSUME PlyAssumption == MAX_PLY \in Nat \ {0}
ASSUME LimitsAssumption == Limits \subseteq LimitType /\ BenchLimits \subseteq Limits
ASSUME FailuresAssumption == Failures \subseteq FailureType
ASSUME BoundsAssumption == MaxGos \in Nat /\ MaxBoards \in Nat

VARIABLES
    ui,         \* where the UCI thread is
    cmd,        \* the command it is executing
    board,      \* version of the position, options and tables
    stop,       \* the pool's stop flag
    stopFor,    \* history: the `go` during which the flag was last raised
    running,    \* Session.running
    unbounded,  \* Session.unbounded
    ponder,     \* SearchManager.ponder
    armed,      \* SearchManager.stop_on_ponderhit
    limits,     \* the limits of the current `go`
    timeUp,     \* the clock, the movetime or the node budget is spent
    slot,       \* each worker thread's job slot
    at,         \* where worker 0's run_main_search is
    next,       \* the sibling its start and wait loops have come to
    phase,      \* where each worker's depth loop is
    depth,      \* SearchCtx.root_depth
    ready,      \* the worker has a root move list
    asked,      \* history: `go` commands taken
    lost,       \* history: those of them that memory was refused for
    answered    \* history: `bestmove` lines printed

vars == <<ui, cmd, board, stop, stopFor, running, unbounded, ponder, armed, limits,
          timeUp, slot, at, next, phase, depth, ready, asked, lost, answered>>

flags == <<stop, stopFor>>
session == <<running, unbounded, limits, ready, asked, lost>>
uciVars == <<ui, cmd, board>>

UciAt == {"read", "end_stop", "drain", "apply", "go", "bench", "quit", "off", "crashed"}
Commands == {"apply", "go", "bench", "quit"}
MainAt == {"out", "start", "search", "raise", "collect", "report", "publish", "return"}
PhaseAt == {"out", "head", "node", "arm", "expire"}

TypeOK ==
    /\ ui \in UciAt /\ cmd \in Commands /\ board \in 0 .. MaxBoards
    /\ stop \in BOOLEAN /\ stopFor \in 0 .. MaxGos
    /\ running \in BOOLEAN /\ unbounded \in BOOLEAN /\ ponder \in BOOLEAN /\ armed \in BOOLEAN
    /\ limits \in LimitType /\ timeUp \in BOOLEAN
    /\ slot \in [Workers -> {"idle", "queued", "running"}]
    /\ at \in MainAt /\ next \in 1 .. SiblingCount + 1
    /\ phase \in [Workers -> PhaseAt]
    /\ depth \in [Workers -> 0 .. MAX_PLY - 1]
    /\ ready \in [Workers -> BOOLEAN]
    /\ asked \in 0 .. MaxGos /\ lost \in 0 .. MaxGos /\ answered \in 0 .. MaxGos

NoLimits == [infinite |-> FALSE, ponder |-> FALSE, depth |-> 0,
             cap |-> FALSE, clock |-> FALSE, mate |-> FALSE, skill |-> FALSE]

Init ==
    /\ ui = "read" /\ cmd = "apply" /\ board = 0
    /\ stop = FALSE /\ stopFor = 0
    /\ running = FALSE /\ unbounded = FALSE /\ ponder = FALSE /\ armed = FALSE
    /\ limits = NoLimits /\ timeUp = FALSE
    /\ slot = [w \in Workers |-> "idle"]
    /\ at = "out" /\ next = 1
    /\ phase = [w \in Workers |-> "out"]
    /\ depth = [w \in Workers |-> 0]
    /\ ready = [w \in Workers |-> FALSE]
    /\ asked = 0 /\ lost = 0 /\ answered = 0

Raise == stop' = TRUE /\ stopFor' = IF stop THEN stopFor ELSE asked

-------------------------------------------------------------------------------
(* The UCI thread: execute() *)

\* `stop` is answered without waiting for the search.
Stop ==
    /\ ui = "read"
    /\ Raise
    /\ UNCHANGED <<uciVars, session, ponder, armed, timeUp, slot, at, next, phase, depth, answered>>

\* search_ponderhit does nothing unless a search is running.
PonderHit ==
    /\ ui = "read" /\ running
    /\ ponder' = FALSE
    /\ UNCHANGED <<uciVars, flags, session, armed, timeUp, slot, at, next, phase, depth, answered>>

\* Every command but stop, ponderhit and isready begins with engine_end_search,
\* which looks at `running` first and raises the flag afterwards.
Command(c) ==
    /\ ui = "read"
    /\ c = "apply" => board < MaxBoards
    /\ c \in {"go", "bench"} => asked < MaxGos
    /\ cmd' = c
    /\ ui' = IF running /\ unbounded THEN "end_stop" ELSE "drain"
    /\ UNCHANGED <<board, flags, session, ponder, armed, timeUp, slot, at, next, phase, depth, answered>>

EndSearchStops ==
    /\ ui = "end_stop"
    /\ Raise
    /\ ui' = "drain"
    /\ UNCHANGED <<cmd, board, session, ponder, armed, timeUp, slot, at, next, phase, depth, answered>>

\* Fault: the command runs without waiting for the search.
EndSearchReturnsEarly ==
    /\ ui = "drain"
    /\ ui' = IF cmd = "bench" THEN "go" ELSE cmd
    /\ UNCHANGED <<cmd, board, flags, session, ponder, armed, timeUp, slot, at, next, phase,
                   depth, answered>>

\* search_wait waits for worker 0's thread, and for no other.
EndSearchReturns ==
    /\ ui = "drain" /\ slot[0] = "idle"
    /\ ui' = IF cmd = "bench" THEN "go" ELSE cmd
    /\ UNCHANGED <<cmd, board, flags, session, ponder, armed, timeUp, slot, at, next, phase,
                   depth, answered>>

\* position, setoption, ucinewgame and flip change what a search reads; d, eval and
\* a perft only read it.
Apply ==
    /\ ui = "apply"
    /\ board' \in {board, board + 1} /\ ui' = "read"
    /\ UNCHANGED <<cmd, flags, session, ponder, armed, timeUp, slot, at, next, phase, depth, answered>>

\* A position that cannot be set up, or a number in a `go` line that does not fit its
\* field, is a critical error: it ends the process.
Reject ==
    /\ ui \in {"apply", "go"}
    /\ Raise
    /\ ui' = "quit"
    /\ UNCHANGED <<cmd, board, session, ponder, armed, timeUp, slot, at, next, phase, depth, answered>>

\* engine_shutdown and search_shutdown: the tables are freed, the threads joined.
Shutdown ==
    /\ ui = "quit" /\ slot[0] = "idle"
    /\ ui' = "off"
    /\ UNCHANGED <<cmd, board, flags, session, ponder, armed, timeUp, slot, at, next, phase,
                   depth, answered>>

BenchWaits ==
    /\ ui = "bench" /\ slot[0] = "idle"
    /\ ui' = "read"
    /\ UNCHANGED <<cmd, board, flags, session, ponder, armed, timeUp, slot, at, next, phase,
                   depth, answered>>

-------------------------------------------------------------------------------
(* search_go_start, on the UCI thread *)

\* Fault: the flag of the search before is left up.
KeepStop == stop' = stop

ClearStop == stop' = FALSE

\* What every `go` does before it knows whether there is anything to search.
GoBegins(l) ==
    /\ ui = "go" /\ slot[0] = "idle"
    /\ l \in IF cmd = "bench" THEN BenchLimits ELSE Limits
    /\ ClearStop
    /\ asked' = asked + 1
    /\ limits' = l
    /\ timeUp' = FALSE
    /\ ui' = IF cmd = "bench" THEN "bench" ELSE "read"
    /\ UNCHANGED <<cmd, board, stopFor, at, next, phase>>

ResetPonder(l) == ponder' = l.ponder /\ armed' = FALSE

\* No worker could be built: nothing is printed.
GoWithoutWorker(l) ==
    /\ "worker" \in Failures
    /\ GoBegins(l) /\ lost' = lost + 1
    /\ UNCHANGED <<running, unbounded, ponder, armed, slot, depth, ready, answered>>

\* Mate or stalemate at the root: every worker gets the empty list, and the
\* answer is printed here.
GoWithoutMoves(l) ==
    /\ GoBegins(l) /\ ResetPonder(l)
    /\ depth' = [w \in Workers |-> 0]
    /\ ready' = [w \in Workers |-> FALSE]
    /\ answered' = answered + 1
    /\ UNCHANGED <<running, unbounded, lost, slot>>

\* The root move list cannot be built: nothing is printed.
GoWithoutRootList(l) ==
    /\ "root_list" \in Failures
    /\ GoBegins(l) /\ ResetPonder(l) /\ lost' = lost + 1
    /\ UNCHANGED <<running, unbounded, slot, depth, ready, answered>>

\* The workers whose worker_root_setup may fail together.
FailedSetups == {F \in SUBSET Workers : /\ 0 \in F => "main_setup" \in Failures
                                        /\ F \cap Siblings # {} => "sibling_setup" \in Failures}

SetUpWorkers(F) == /\ ready' = [w \in Workers |-> w \notin F]
                   /\ depth' = [w \in Workers |-> 0]

\* Worker 0 has no root list: nothing is printed.
GoWithoutMain(l, F) ==
    /\ 0 \in F
    /\ GoBegins(l) /\ ResetPonder(l) /\ lost' = lost + 1
    /\ SetUpWorkers(F)
    /\ UNCHANGED <<running, unbounded, slot, answered>>

\* Fault: a bare `go` counted as bounded (search.c:577-581).
UnboundedButBare(l) == l.infinite \/ l.ponder

Unbounded(l) == l.infinite \/ l.ponder \/ (l.depth = 0 /\ ~l.cap /\ ~l.clock)

GoDispatches(l, F) ==
    /\ 0 \notin F
    /\ GoBegins(l) /\ ResetPonder(l)
    /\ SetUpWorkers(F)
    /\ unbounded' = Unbounded(l)
    /\ running' = TRUE
    /\ slot' = [slot EXCEPT ![0] = "queued"]
    /\ UNCHANGED <<lost, answered>>

Go == \E l \in Limits :
         \/ GoWithoutWorker(l) \/ GoWithoutMoves(l) \/ GoWithoutRootList(l)
         \/ \E F \in FailedSetups : GoWithoutMain(l, F) \/ GoDispatches(l, F)

Uci == \/ Stop \/ PonderHit \/ \E c \in Commands : Command(c)
       \/ EndSearchStops \/ EndSearchReturns \/ Apply \/ Reject \/ Shutdown \/ BenchWaits \/ Go

-------------------------------------------------------------------------------
(* run_main_search, on worker 0's thread *)

MainBegins ==
    /\ slot[0] = "queued"
    /\ slot' = [slot EXCEPT ![0] = "running"]
    /\ at' = "start" /\ next' = 1
    /\ UNCHANGED <<uciVars, flags, session, ponder, armed, timeUp, phase, depth, answered>>

\* thread_start_job waits for the sibling's slot.
StartSibling ==
    /\ at = "start" /\ next \in Siblings
    /\ slot[next] = "idle"
    /\ slot' = [slot EXCEPT ![next] = "queued"]
    /\ next' = next + 1
    /\ UNCHANGED <<uciVars, flags, session, ponder, armed, timeUp, at, phase, depth, answered>>

MainSearches ==
    /\ at = "start" /\ next \notin Siblings
    /\ at' = "search"
    /\ phase' = [phase EXCEPT ![0] = "head"]
    /\ UNCHANGED <<uciVars, flags, session, ponder, armed, timeUp, slot, next, depth, answered>>

RaiseStop ==
    /\ at = "raise"
    /\ Raise
    /\ at' = "collect" /\ next' = 1
    /\ UNCHANGED <<uciVars, session, ponder, armed, timeUp, slot, phase, depth, answered>>

\* Fault: the join of the siblings is left out.
CollectNobody ==
    /\ at = "collect" /\ next \in Siblings
    /\ next' = next + 1
    /\ UNCHANGED <<uciVars, flags, session, ponder, armed, timeUp, slot, at, phase, depth, answered>>

CollectSibling ==
    /\ at = "collect" /\ next \in Siblings
    /\ slot[next] = "idle"
    /\ next' = next + 1
    /\ UNCHANGED <<uciVars, flags, session, ponder, armed, timeUp, slot, at, phase, depth, answered>>

\* A search limited in depth or handicapped takes no vote.
Votes == limits.depth = 0 /\ ~limits.skill

\* The vote reads every worker's first root move; only worker 0's list is
\* tested for NULL.
Vote ==
    /\ at = "collect" /\ next \notin Siblings
    /\ at' = "report"
    /\ ui' = IF Votes /\ \E w \in Siblings : ~ready[w] THEN "crashed" ELSE ui
    /\ UNCHANGED <<cmd, board, flags, session, ponder, armed, timeUp, slot, next, phase, depth,
                   answered>>

Report ==
    /\ at = "report"
    /\ answered' = answered + 1
    /\ at' = "publish"
    /\ UNCHANGED <<uciVars, flags, session, ponder, armed, timeUp, slot, next, phase, depth>>

Publish ==
    /\ at = "publish"
    /\ running' = FALSE
    /\ at' = "return"
    /\ UNCHANGED <<uciVars, flags, unbounded, limits, ready, asked, lost, ponder, armed, timeUp, slot,
                   next, phase, depth, answered>>

MainReturns ==
    /\ at = "return"
    /\ slot' = [slot EXCEPT ![0] = "idle"]
    /\ at' = "out"
    /\ UNCHANGED <<uciVars, flags, session, ponder, armed, timeUp, next, phase, depth, answered>>

Main == \/ MainBegins \/ StartSibling \/ MainSearches \/ RaiseStop \/ CollectSibling
        \/ Vote \/ Report \/ Publish \/ MainReturns

\* sibling_search refuses a worker without a root list.
SiblingBegins(w) ==
    /\ slot[w] = "queued"
    /\ slot' = [slot EXCEPT ![w] = IF ready[w] THEN "running" ELSE "idle"]
    /\ phase' = [phase EXCEPT ![w] = IF ready[w] THEN "head" ELSE "out"]
    /\ UNCHANGED <<uciVars, flags, session, ponder, armed, timeUp, at, next, depth, answered>>

-------------------------------------------------------------------------------
(* iterative_deepening, on every worker's thread *)

DepthReached(w) == \/ depth[w] + 1 >= MAX_PLY
                   \/ w = 0 /\ limits.depth # 0 /\ depth[w] >= limits.depth

Deepen(w) ==
    /\ phase[w] = "head"
    /\ ~stop /\ ~DepthReached(w)
    /\ depth' = [depth EXCEPT ![w] = @ + 1]
    /\ phase' = [phase EXCEPT ![w] = "node"]
    /\ UNCHANGED <<uciVars, flags, session, ponder, armed, timeUp, slot, at, next, answered>>

DepthLoopEnds(w) ==
    /\ phase[w] = "head"
    /\ stop \/ DepthReached(w)
    /\ phase' = [phase EXCEPT ![w] = "out"]
    /\ IF w = 0 THEN at' = "raise" /\ UNCHANGED slot
                ELSE slot' = [slot EXCEPT ![w] = "idle"] /\ UNCHANGED at
    /\ UNCHANGED <<uciVars, flags, session, ponder, armed, timeUp, next, depth, answered>>

\* check_time, from inside worker 0's tree.
CheckTime ==
    /\ phase[0] = "node"
    /\ ~ponder
    /\ \/ limits.clock /\ (timeUp \/ armed)
       \/ limits.cap /\ timeUp
    /\ Raise
    /\ UNCHANGED <<uciVars, session, ponder, armed, timeUp, slot, at, next, phase, depth, answered>>

\* An aspiration window that fails low takes the ponderhit stop back.
FailLow ==
    /\ phase[0] = "node" /\ ~stop /\ armed
    /\ armed' = FALSE
    /\ UNCHANGED <<uciVars, flags, session, ponder, timeUp, slot, at, next, phase, depth, answered>>

\* Fault: only worker 0 looks at the flag inside its tree.
UnwindMain(w) ==
    /\ phase[w] = "node" /\ stop /\ w = 0
    /\ phase' = [phase EXCEPT ![w] = "head"]
    /\ UNCHANGED <<uciVars, flags, session, ponder, armed, timeUp, slot, at, next, depth, answered>>

\* The tree unwinds on the stop flag: the mate limit and the clock are not
\* looked at.
Unwind(w) ==
    /\ phase[w] = "node" /\ stop
    /\ phase' = [phase EXCEPT ![w] = "head"]
    /\ UNCHANGED <<uciVars, flags, session, ponder, armed, timeUp, slot, at, next, depth, answered>>

\* Any worker that finds the mate of `go mate` stops them all.
FindMate(w) ==
    /\ phase[w] = "node" /\ ~stop
    /\ limits.mate
    /\ Raise
    /\ phase' = [phase EXCEPT ![w] = "head"]
    /\ UNCHANGED <<uciVars, session, ponder, armed, timeUp, slot, at, next, depth, answered>>

\* An iteration completes.  Worker 0 manages the time: past the optimum, or with
\* a mate found, it reads `ponder` and then acts on what it read.
Complete(w) ==
    /\ phase[w] = "node" /\ ~stop
    /\ \/ /\ w = 0 /\ limits.clock /\ ~armed
          /\ phase' = [phase EXCEPT ![w] = IF ponder THEN "arm" ELSE "expire"]
       \/ /\ ~(w = 0 /\ limits.clock /\ ~armed /\ timeUp)
          /\ phase' = [phase EXCEPT ![w] = "head"]
    /\ UNCHANGED <<uciVars, flags, session, ponder, armed, timeUp, slot, at, next, depth, answered>>

ArmPonderStop ==
    /\ phase[0] = "arm"
    /\ armed' = TRUE
    /\ phase' = [phase EXCEPT ![0] = "head"]
    /\ UNCHANGED <<uciVars, flags, session, ponder, timeUp, slot, at, next, depth, answered>>

Expire ==
    /\ phase[0] = "expire"
    /\ Raise
    /\ phase' = [phase EXCEPT ![0] = "head"]
    /\ UNCHANGED <<uciVars, session, ponder, armed, timeUp, slot, at, next, depth, answered>>

TimePasses ==
    /\ running /\ ~timeUp
    /\ timeUp' = TRUE
    /\ UNCHANGED <<uciVars, flags, session, ponder, armed, slot, at, next, phase, depth, answered>>

\* What a worker's thread does by itself: its loop ends only through a limit or
\* the flag, so completing an iteration is not among the steps it must take.
Obey(w) == Deepen(w) \/ DepthLoopEnds(w) \/ Unwind(w)

Search(w) == Obey(w) \/ FindMate(w) \/ Complete(w)

-------------------------------------------------------------------------------

Alive == ui # "crashed"
Exited == ui \in {"off", "crashed"} /\ UNCHANGED vars

Next == \/ /\ Alive
           /\ \/ Uci \/ Main \/ \E w \in Siblings : SiblingBegins(w)
              \/ \E w \in Workers : Search(w)
              \/ CheckTime \/ FailLow \/ ArmPonderStop \/ Expire \/ TimePasses
        \/ Exited

Spec == Init /\ [][Next]_vars

(* While the process lives every runnable thread runs, time passes,        *)
(* check_time is reached again and again inside a tree, and a tree unwinds *)
(* once it sees the flag.  The GUI owes nothing.  An iteration is only     *)
(* owed an end under a depth limit, where the trees are small: without one *)
(* it may outlast any clock.  A dead process owes nothing either, so the   *)
(* behaviours in which it dies are fair.                                   *)
Fairness ==
    /\ WF_vars(EndSearchStops) /\ WF_vars(EndSearchReturns) /\ WF_vars(BenchWaits)
    /\ WF_vars(Apply) /\ WF_vars(Go) /\ WF_vars(Shutdown)
    /\ WF_vars(Alive /\ Main) /\ WF_vars(Alive /\ TimePasses)
    /\ WF_vars(Alive /\ CheckTime)
    /\ WF_vars(Alive /\ ArmPonderStop) /\ WF_vars(Alive /\ Expire)
    /\ \A w \in Siblings : WF_vars(Alive /\ SiblingBegins(w))
    /\ \A w \in Workers : WF_vars(Alive /\ Obey(w))
    /\ WF_vars(Alive /\ limits.depth # 0 /\ Complete(0))

FairSpec == Spec /\ Fairness

-------------------------------------------------------------------------------

(* While the UCI thread changes the position, the options or the tables,   *)
(* sets up the next search or tears the process down, no worker thread has *)
(* a job, although it waited for worker 0's alone (search.c:595).          *)
QuietWhileChanging ==
    ui \in {"apply", "go", "quit", "off"} => \A w \in Workers : slot[w] = "idle"

(* A search is only ever stopped by a stop raised since its own `go`: a    *)
(* late `stop`, or the flag worker 0 raised to end the search before,      *)
(* never aborts it.                                                        *)
StopIsFresh == (stop /\ at \in {"start", "search"}) => stopFor = asked

(* The vote and the report read root lists nobody is writing any more.     *)
VoteIsQuiet == at \in {"report", "publish"} => \A w \in Siblings : slot[w] = "idle"

(* Nobody writes what another is reading: neither under a command nor under *)
(* the vote.                                                                *)
NobodyInTheWay == QuietWhileChanging /\ VoteIsQuiet

(* The one way the process dies: search.c:541-543 has the vote skip a      *)
(* worker whose set-up failed, but the vote reads root_moves[0] of every   *)
(* worker (worker_set.c:194-196), NULL in such a one.                      *)
LostToTheVote == ~Alive /\ Votes /\ \E w \in Siblings : ~ready[w]

(* `stop` ends whatever search it meets, or the vote after it the process. *)
StopEnds == running /\ stop ~> ~running \/ LostToTheVote

Enforced == limits.depth # 0 \/ ((limits.cap \/ limits.clock) /\ ~ponder)

(* A search under a limit ends by itself; a pondering one does so from     *)
(* ponderhit on, even if its time was spent while it pondered.             *)
LimitsEnd == running /\ Enforced ~> ~running \/ LostToTheVote

(* Every search that is told to end, or has a limit, ends; only a vote     *)
(* among workers of which one has no root moves keeps it from that.        *)
SearchesEnd == StopEnds /\ LimitsEnd

(* No command wedges the UCI thread: in particular none waits for a search *)
(* that has no limit of its own (uci.c:626-632).  The vote above excepted, *)
(* every command returns.                                                  *)
CommandsReturn == ui \notin {"read", "off"} ~> ui \in {"read", "off"} \/ LostToTheVote

(* The session implements the protocol of UciProtocol.tla: each `go` there *)
(* was memory for is answered once, in order, and nothing changes before.  *)
Protocol == INSTANCE UciProtocol WITH asked <- asked - lost, live <- ui # "off"
ProtocolSafety == Protocol!ProtocolSafety
===============================================================================
