-------------------------------- MODULE Thread --------------------------------
(***************************************************************************)
(* src/platform/thread.c: one OS thread and the idle-loop handshake that   *)
(* feeds it work.  `searching`, `exit` and `job_fn` are guarded by the     *)
(* thread's mutex, so a critical section is one action; what interleaves   *)
(* is the waits on the condition variable and the broadcasts, which the    *)
(* submitters make after they unlocked.  pthread_cond_wait may return      *)
(* without a broadcast, and then the predicate is tested again.            *)
(*                                                                         *)
(* Clients are the threads that call in: the UCI thread, which spawns and  *)
(* joins (Owner), and worker 0's thread, which drives its siblings.  A     *)
(* client's job is its own, so a job is submitted at most once.            *)
(***************************************************************************)
EXTENDS Integers, FiniteSets

CONSTANTS Clients,  \* threads that submit jobs and wait for them
          Owner,    \* the client that spawns and joins the thread
          Self,     \* the thread itself, as a waiter on its own condition
          Jobs, NoJob

ASSUME OwnerAssumption == Owner \in Clients
ASSUME SelfAssumption == Self \notin Clients
ASSUME JobAssumption == NoJob \notin Jobs

VARIABLES started,    \* Thread.started
          searching,  \* Thread.searching, the predicate every wait tests
          exit,       \* Thread.exit
          job,        \* Thread.job_fn and job_ctx
          blocked,    \* who is asleep in pthread_cond_wait
          loop,       \* where the idle loop is
          cur,        \* the job the idle loop took and is running
          pc,         \* where each client is in its call
          arg,        \* the job each client is submitting
          accepted,   \* history: jobs stored in the slot
          runs        \* history: how often each job ran

vars == <<started, searching, exit, job, blocked, loop, cur, pc, arg, accepted, runs>>
threadVars == <<started, searching, exit, job, loop, cur, runs>>

LoopAt == {"none", "park", "wait", "run", "dead"}
InCall == {"submit", "wake_job", "finished", "drain", "exit", "wake_exit", "os_join"}
InJoin == {"drain", "exit", "wake_exit", "os_join"}
Procs  == Clients \cup {Self}

TypeOK == /\ started \in BOOLEAN /\ searching \in BOOLEAN /\ exit \in BOOLEAN
          /\ job \in Jobs \cup {NoJob} /\ cur \in Jobs \cup {NoJob}
          /\ blocked \subseteq Procs
          /\ loop \in LoopAt
          /\ pc \in [Clients -> InCall \cup {"idle"}]
          /\ arg \in [Clients -> Jobs \cup {NoJob}]
          /\ accepted \subseteq Jobs
          /\ runs \in [Jobs -> Nat]

Init == /\ started = FALSE /\ searching = FALSE /\ exit = FALSE
        /\ job = NoJob /\ cur = NoJob
        /\ blocked = {}
        /\ loop = "none"
        /\ pc = [c \in Clients |-> "idle"]
        /\ arg = [c \in Clients |-> NoJob]
        /\ accepted = {}
        /\ runs = [j \in Jobs |-> 0]

(* The pool joins a thread only when nobody else is calling into it:       *)
(* thread_pool_clear has waited for thread 0, whose job is the only other  *)
(* caller there is.                                                        *)
Callable == started /\ pc[Owner] \notin InJoin

-------------------------------------------------------------------------------
(* The idle loop *)

\* Fault: parks without the broadcast that thread.c:20 makes.
IdleParkSilent ==
    /\ loop = "park"
    /\ searching' = FALSE
    /\ loop' = IF exit THEN "dead" ELSE "wait"
    /\ blocked' = IF exit THEN blocked ELSE blocked \cup {Self}
    /\ UNCHANGED <<started, exit, job, cur, pc, arg, accepted, runs>>

\* Top of the loop: clear `searching`, wake everybody who waits for that, and
\* go to sleep unless the exit flag is already up.
IdlePark ==
    /\ loop = "park"
    /\ searching' = FALSE
    /\ loop' = IF exit THEN "dead" ELSE "wait"
    /\ blocked' = IF exit THEN {} ELSE {Self}
    /\ UNCHANGED <<started, exit, job, cur, pc, arg, accepted, runs>>

\* `while (!searching && !exit)`: a wake-up that finds neither sleeps again.
IdleSleepAgain ==
    /\ loop = "wait" /\ Self \notin blocked
    /\ ~searching /\ ~exit
    /\ blocked' = blocked \cup {Self}
    /\ UNCHANGED <<threadVars, pc, arg, accepted>>

IdleExit ==
    /\ loop = "wait" /\ Self \notin blocked
    /\ exit
    /\ loop' = "dead"
    /\ UNCHANGED <<started, searching, exit, job, blocked, cur, pc, arg, accepted, runs>>

IdleTakeJob ==
    /\ loop = "wait" /\ Self \notin blocked
    /\ searching /\ ~exit
    /\ cur' = job
    /\ job' = NoJob
    /\ loop' = "run"
    /\ UNCHANGED <<started, searching, exit, blocked, pc, arg, accepted, runs>>

\* The job itself, outside the mutex.
IdleRunJob ==
    /\ loop = "run"
    /\ runs' = [j \in Jobs |-> IF j = cur THEN runs[j] + 1 ELSE runs[j]]
    /\ cur' = NoJob
    /\ loop' = "park"
    /\ UNCHANGED <<started, searching, exit, job, blocked, pc, arg, accepted>>

IdleLoop == IdlePark \/ IdleSleepAgain \/ IdleExit \/ IdleTakeJob \/ IdleRunJob

-------------------------------------------------------------------------------
(* thread_spawn *)

\* Fault: created with `searching` down, so the wait does not wait.
SpawnDown ==
    /\ ~started /\ pc[Owner] = "idle" /\ loop = "none"
    /\ started' = TRUE
    /\ searching' = FALSE
    /\ exit' = FALSE
    /\ job' = NoJob
    /\ loop' = "park"
    /\ pc' = [pc EXCEPT ![Owner] = "finished"]
    /\ UNCHANGED <<blocked, cur, arg, accepted, runs>>

\* The thread is created with `searching` up, so that the wait at the end of
\* thread_spawn cannot return before the idle loop has parked.
Spawn ==
    /\ ~started /\ pc[Owner] = "idle" /\ loop = "none"
    /\ started' = TRUE
    /\ searching' = TRUE
    /\ exit' = FALSE
    /\ job' = NoJob
    /\ loop' = "park"
    /\ pc' = [pc EXCEPT ![Owner] = "finished"]
    /\ UNCHANGED <<blocked, cur, arg, accepted, runs>>

\* pthread_create refuses: the thread is discarded without a join.
SpawnRefused ==
    /\ ~started /\ pc[Owner] = "idle" /\ loop = "none"
    /\ searching' = FALSE
    /\ exit' = FALSE
    /\ job' = NoJob
    /\ UNCHANGED <<started, blocked, loop, cur, pc, arg, accepted, runs>>

-------------------------------------------------------------------------------
(* thread_start_job *)

CallStartJob(c, j) ==
    /\ Callable /\ pc[c] = "idle"
    /\ j \notin accepted /\ \A d \in Clients : arg[d] # j
    /\ pc' = [pc EXCEPT ![c] = "submit"]
    /\ arg' = [arg EXCEPT ![c] = j]
    /\ UNCHANGED <<threadVars, blocked, accepted>>

StartJobWaits(c) ==
    /\ pc[c] = "submit" /\ c \notin blocked
    /\ searching
    /\ blocked' = blocked \cup {c}
    /\ UNCHANGED <<threadVars, pc, arg, accepted>>

\* Fault: does not wait for the job before it.
StoreJobEarly(c) ==
    /\ pc[c] = "submit" /\ c \notin blocked
    /\ job' = arg[c]
    /\ searching' = TRUE
    /\ accepted' = accepted \cup {arg[c]}
    /\ arg' = [arg EXCEPT ![c] = NoJob]
    /\ pc' = [pc EXCEPT ![c] = "wake_job"]
    /\ UNCHANGED <<started, exit, blocked, loop, cur, runs>>

StoreJob(c) ==
    /\ pc[c] = "submit" /\ c \notin blocked
    /\ ~searching
    /\ job' = arg[c]
    /\ searching' = TRUE
    /\ accepted' = accepted \cup {arg[c]}
    /\ arg' = [arg EXCEPT ![c] = NoJob]
    /\ pc' = [pc EXCEPT ![c] = "wake_job"]
    /\ UNCHANGED <<started, exit, blocked, loop, cur, runs>>

\* Fault: signals one waiter, which need not be the idle loop.
WakeForJobSignal(c) ==
    /\ pc[c] = "wake_job"
    /\ IF blocked = {} THEN blocked' = {} ELSE \E p \in blocked : blocked' = blocked \ {p}
    /\ pc' = [pc EXCEPT ![c] = "idle"]
    /\ UNCHANGED <<threadVars, arg, accepted>>

\* The broadcast comes after the unlock.
WakeForJob(c) ==
    /\ pc[c] = "wake_job"
    /\ blocked' = {}
    /\ pc' = [pc EXCEPT ![c] = "idle"]
    /\ UNCHANGED <<threadVars, arg, accepted>>

-------------------------------------------------------------------------------
(* thread_wait_for_search_finished, called directly, by spawn and by join *)

CallWait(c) ==
    /\ Callable /\ pc[c] = "idle"
    /\ pc' = [pc EXCEPT ![c] = "finished"]
    /\ UNCHANGED <<threadVars, blocked, arg, accepted>>

WaitSleeps(c) ==
    /\ pc[c] \in {"finished", "drain"} /\ c \notin blocked
    /\ searching
    /\ blocked' = blocked \cup {c}
    /\ UNCHANGED <<threadVars, pc, arg, accepted>>

WaitReturns(c) ==
    /\ pc[c] \in {"finished", "drain"} /\ c \notin blocked
    /\ ~searching
    /\ pc' = [pc EXCEPT ![c] = IF pc[c] = "drain" THEN "exit" ELSE "idle"]
    /\ UNCHANGED <<threadVars, blocked, arg, accepted>>

-------------------------------------------------------------------------------
(* thread_join *)

\* Fault: raises the exit flag without the drain of thread.c:124.
CallJoinUndrained ==
    /\ started
    /\ \A c \in Clients : pc[c] = "idle"
    /\ pc' = [pc EXCEPT ![Owner] = "exit"]
    /\ UNCHANGED <<threadVars, blocked, arg, accepted>>

CallJoin ==
    /\ started
    /\ \A c \in Clients : pc[c] = "idle"
    /\ pc' = [pc EXCEPT ![Owner] = "drain"]
    /\ UNCHANGED <<threadVars, blocked, arg, accepted>>

RaiseExit ==
    /\ pc[Owner] = "exit"
    /\ exit' = TRUE
    /\ searching' = TRUE
    /\ pc' = [pc EXCEPT ![Owner] = "wake_exit"]
    /\ UNCHANGED <<started, job, blocked, loop, cur, arg, accepted, runs>>

WakeForExit ==
    /\ pc[Owner] = "wake_exit"
    /\ blocked' = {}
    /\ pc' = [pc EXCEPT ![Owner] = "os_join"]
    /\ UNCHANGED <<threadVars, arg, accepted>>

\* pthread_join returns once the idle loop has, and the primitives are freed.
JoinReturns ==
    /\ pc[Owner] = "os_join" /\ loop = "dead"
    /\ started' = FALSE
    /\ loop' = "none"
    /\ pc' = [pc EXCEPT ![Owner] = "idle"]
    /\ UNCHANGED <<searching, exit, job, blocked, cur, arg, accepted, runs>>

-------------------------------------------------------------------------------

SpuriousWakeup(p) ==
    /\ p \in blocked
    /\ blocked' = blocked \ {p}
    /\ UNCHANGED <<threadVars, pc, arg, accepted>>

\* The steps a client takes by itself once it has made a call.
Proceed(c) ==
    \/ StartJobWaits(c) \/ StoreJob(c) \/ WakeForJob(c)
    \/ WaitSleeps(c) \/ WaitReturns(c)
    \/ c = Owner /\ (RaiseExit \/ WakeForExit \/ JoinReturns)

Next ==
    \/ IdleLoop
    \/ Spawn \/ SpawnRefused \/ CallJoin
    \/ \E c \in Clients : \/ CallWait(c)
                          \/ Proceed(c)
                          \/ \E j \in Jobs : CallStartJob(c, j)
    \/ \E p \in Procs : SpuriousWakeup(p)

Spec == Init /\ [][Next]_vars

(* The scheduler runs every runnable thread, and a job returns.  Nobody    *)
(* has to call anything, and wake-ups out of nowhere are never owed.       *)
FairSpec == Spec /\ WF_vars(IdleLoop) /\ \A c \in Clients : WF_vars(Proceed(c))

-------------------------------------------------------------------------------

Pending(j) == j \in accepted /\ runs[j] = 0

(* A job handed to thread_start_job is never dropped and never taken       *)
(* twice: until it has run, it is in the slot or in the idle loop's hands, *)
(* and it runs once.  The slot is overwritten if a submitter does not wait *)
(* for the job before it.                                                  *)
NoLostJob == \A j \in Jobs : /\ Pending(j) => (job = j \/ cur = j)
                             /\ runs[j] <= 1

(* Nobody sleeps on a condition that has already come true, unless the     *)
(* broadcast that will wake it is still to be made: the waiters test       *)
(* `searching`, the idle loop tests `searching` and `exit`, and the        *)
(* broadcasts happen after the unlock.                                     *)
NoMissedWakeup ==
    /\ blocked \cap Clients # {} => searching
    /\ Self \in blocked /\ (searching \/ exit)
         => \E c \in Clients : pc[c] \in {"wake_job", "wake_exit"}

(* thread_spawn, thread_wait_for_search_finished and the drain of          *)
(* thread_join return only when the thread is parked and every job         *)
(* accepted so far has run.                                                *)
WaitDrains ==
    [][\A c \in Clients : WaitReturns(c) => loop = "wait" /\ \A j \in Jobs : ~Pending(j)]_vars

(* The exit flag and a job never meet: a job queued just before the join   *)
(* runs before the idle loop leaves (`go ...; quit` back to back).         *)
JoinRunsEverything ==
    [][loop' = "dead" /\ loop # "dead" => \A j \in Jobs : ~Pending(j)]_vars

(* Every accepted job runs.                                                *)
JobsRun == \A j \in Jobs : j \in accepted ~> runs[j] > 0

(* Every call returns, so a spawn, a wait and a join all come to an end.   *)
CallsReturn == \A c \in Clients : pc[c] # "idle" ~> pc[c] = "idle"

(* Nothing handed over is forgotten, by the thread or by its callers.       *)
Progress == JobsRun /\ CallsReturn

(* The handshake implements the single-slot job server of thread.h.        *)
Slot == INSTANCE JobSlot WITH open <- loop \notin {"none", "dead"},
                              slot <- IF job # NoJob THEN job ELSE cur,
                              done <- {j \in Jobs : runs[j] > 0}
SlotSpec == Slot!SlotSpec
===============================================================================
