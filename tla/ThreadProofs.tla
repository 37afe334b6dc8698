----------------------------- MODULE ThreadProofs -----------------------------
(***************************************************************************)
(* Proofs about the idle-loop handshake of src/platform/thread.c, for any  *)
(* number of clients and jobs: the type invariant, that no job is lost,    *)
(* that no wake-up is missed, that a wait and a join drain the thread, and *)
(* that the handshake implements the single-slot job server.               *)
(***************************************************************************)
EXTENDS Thread, TLAPS

(* A thread that is not started is called by nobody, and exists exactly    *)
(* when its idle loop does.                                                *)
Lifetime == /\ started <=> loop # "none"
            /\ ~started => /\ \A c \in Clients : pc[c] = "idle"
                           /\ job = NoJob

(* `searching` is down only while the idle loop is parked with an empty    *)
(* slot, and up while there is a job to take.                              *)
Slotted == /\ cur # NoJob <=> loop = "run"
           /\ job # NoJob => loop = "wait" /\ searching
           /\ loop \in {"park", "run"} => searching
           /\ loop = "wait" /\ searching /\ ~exit => job # NoJob

(* The exit flag is up only after the drain, when nobody else is calling,  *)
(* so it never meets a job.                                                *)
Leaving == /\ pc[Owner] \in InJoin => \A c \in Clients \ {Owner} : pc[c] = "idle"
           /\ \A c \in Clients \ {Owner} : pc[c] \notin InJoin
           /\ pc[Owner] = "exit" => ~searching /\ loop = "wait" /\ ~exit
           /\ started => (exit <=> pc[Owner] \in {"wake_exit", "os_join"})
           /\ exit => job = NoJob /\ loop \in {"wait", "dead", "none"}
           /\ loop = "dead" => exit

(* A job is submitted by one client, once.                                 *)
Submitted == /\ \A c \in Clients : (arg[c] \in Jobs <=> pc[c] = "submit")
             /\ \A c, d \in Clients : arg[c] = arg[d] /\ arg[c] # NoJob => c = d
             /\ \A c \in Clients : arg[c] \notin accepted

(* A job is pending exactly while it is in the slot or being run.          *)
Accounted == /\ \A j \in Jobs : Pending(j) <=> (job = j \/ cur = j)
             /\ \A j \in Jobs : runs[j] <= 1
             /\ \A j \in Jobs : runs[j] > 0 => j \in accepted

(* Whoever sleeps is at a wait of the code, and a sleeping client waits    *)
(* for `searching` to fall.                                                *)
Sleeping == /\ \A c \in blocked \cap Clients : pc[c] \in {"submit", "finished", "drain"}
            /\ Self \in blocked => loop = "wait"
            /\ NoMissedWakeup

ThreadInv == TypeOK /\ Lifetime /\ Slotted /\ Leaving /\ Submitted /\ Accounted /\ Sleeping

-------------------------------------------------------------------------------

USE OwnerAssumption, SelfAssumption, JobAssumption

LEMMA Initially == Init => ThreadInv
  <1> SUFFICES ASSUME Init PROVE ThreadInv
      OBVIOUS
  <1> USE DEF Init
  <1>1. TypeOK
      BY DEF TypeOK, LoopAt, InCall, Procs
  <1>2. Lifetime
      BY DEF Lifetime
  <1>3. Slotted
      BY DEF Slotted
  <1>4. Leaving
      BY DEF Leaving, InJoin
  <1>5. Submitted
      BY DEF Submitted
  <1>6. Accounted
      BY DEF Accounted, Pending
  <1>7. Sleeping
      BY DEF Sleeping, NoMissedWakeup
  <1> QED
      BY <1>1, <1>2, <1>3, <1>4, <1>5, <1>6, <1>7 DEF ThreadInv

(* A call that finds `searching` down finds the thread parked and idle.    *)
LEMMA Parked ==
    ASSUME ThreadInv, NEW c \in Clients, pc[c] \in {"submit", "finished", "drain"}, ~searching
    PROVE  loop = "wait" /\ ~exit /\ job = NoJob /\ cur = NoJob
  <1> USE DEF ThreadInv, TypeOK, Lifetime, Slotted, Leaving, LoopAt, InJoin
  <1>1. started
      OBVIOUS
  <1>2. ~exit
      BY <1>1
  <1>3. loop = "wait"
      BY <1>1, <1>2
  <1> QED
      BY <1>2, <1>3

LEMMA StepTypeOK == ThreadInv /\ [Next]_vars => TypeOK'
  <1> SUFFICES ASSUME ThreadInv, [Next]_vars PROVE TypeOK'
      OBVIOUS
  <1> USE DEF ThreadInv, TypeOK, LoopAt, InCall, Procs, Submitted, vars, threadVars
  <1>1. CASE IdlePark
      BY <1>1 DEF IdlePark
  <1>2. CASE IdleSleepAgain
      BY <1>2 DEF IdleSleepAgain
  <1>3. CASE IdleExit
      BY <1>3 DEF IdleExit
  <1>4. CASE IdleTakeJob
      BY <1>4 DEF IdleTakeJob
  <1>5. CASE IdleRunJob
      BY <1>5 DEF IdleRunJob
  <1>6. CASE Spawn
      BY <1>6 DEF Spawn
  <1>7. CASE SpawnRefused
      BY <1>7 DEF SpawnRefused
  <1>8. CASE CallJoin
      BY <1>8 DEF CallJoin
  <1>9. CASE RaiseExit
      BY <1>9 DEF RaiseExit
  <1>10. CASE WakeForExit
      BY <1>10 DEF WakeForExit
  <1>11. CASE JoinReturns
      BY <1>11 DEF JoinReturns
  <1>12. ASSUME NEW c \in Clients, CallWait(c) PROVE TypeOK'
      BY <1>12 DEF CallWait
  <1>13. ASSUME NEW c \in Clients, StartJobWaits(c) PROVE TypeOK'
      BY <1>13 DEF StartJobWaits
  <1>14. ASSUME NEW c \in Clients, StoreJob(c) PROVE TypeOK'
      BY <1>14 DEF StoreJob
  <1>15. ASSUME NEW c \in Clients, WakeForJob(c) PROVE TypeOK'
      BY <1>15 DEF WakeForJob
  <1>16. ASSUME NEW c \in Clients, WaitSleeps(c) PROVE TypeOK'
      BY <1>16 DEF WaitSleeps
  <1>17. ASSUME NEW c \in Clients, WaitReturns(c) PROVE TypeOK'
      BY <1>17 DEF WaitReturns
  <1>18. ASSUME NEW c \in Clients, NEW j \in Jobs, CallStartJob(c, j) PROVE TypeOK'
      BY <1>18 DEF CallStartJob
  <1>19. ASSUME NEW p \in Procs, SpuriousWakeup(p) PROVE TypeOK'
      BY <1>19 DEF SpuriousWakeup
  <1>20. CASE UNCHANGED vars
      BY <1>20
  <1> QED
      BY <1>1, <1>2, <1>3, <1>4, <1>5, <1>6, <1>7, <1>8, <1>9, <1>10, <1>11, <1>12, <1>13, <1>14, <1>15, <1>16, <1>17, <1>18, <1>19, <1>20 DEF Next, IdleLoop, Proceed

LEMMA StepLifetime == ThreadInv /\ [Next]_vars => Lifetime'
  <1> SUFFICES ASSUME ThreadInv, [Next]_vars PROVE Lifetime'
      OBVIOUS
  <1> USE DEF ThreadInv, Lifetime, Leaving, Slotted, InJoin, InCall, Callable, TypeOK, vars, threadVars
  <1>1. CASE IdlePark
      BY <1>1 DEF IdlePark
  <1>2. CASE IdleSleepAgain
      BY <1>2 DEF IdleSleepAgain
  <1>3. CASE IdleExit
      BY <1>3 DEF IdleExit
  <1>4. CASE IdleTakeJob
      BY <1>4 DEF IdleTakeJob
  <1>5. CASE IdleRunJob
      BY <1>5 DEF IdleRunJob
  <1>6. CASE Spawn
      BY <1>6 DEF Spawn
  <1>7. CASE SpawnRefused
      BY <1>7 DEF SpawnRefused
  <1>8. CASE CallJoin
      BY <1>8 DEF CallJoin
  <1>9. CASE RaiseExit
      BY <1>9 DEF RaiseExit
  <1>10. CASE WakeForExit
      BY <1>10 DEF WakeForExit
  <1>11. CASE JoinReturns
      BY <1>11 DEF JoinReturns
  <1>12. ASSUME NEW c \in Clients, CallWait(c) PROVE Lifetime'
      BY <1>12 DEF CallWait
  <1>13. ASSUME NEW c \in Clients, StartJobWaits(c) PROVE Lifetime'
      BY <1>13 DEF StartJobWaits
  <1>14. ASSUME NEW c \in Clients, StoreJob(c) PROVE Lifetime'
      BY <1>14 DEF StoreJob
  <1>15. ASSUME NEW c \in Clients, WakeForJob(c) PROVE Lifetime'
      BY <1>15 DEF WakeForJob
  <1>16. ASSUME NEW c \in Clients, WaitSleeps(c) PROVE Lifetime'
      BY <1>16 DEF WaitSleeps
  <1>17. ASSUME NEW c \in Clients, WaitReturns(c) PROVE Lifetime'
      BY <1>17 DEF WaitReturns
  <1>18. ASSUME NEW c \in Clients, NEW j \in Jobs, CallStartJob(c, j) PROVE Lifetime'
      BY <1>18 DEF CallStartJob
  <1>19. ASSUME NEW p \in Procs, SpuriousWakeup(p) PROVE Lifetime'
      BY <1>19 DEF SpuriousWakeup
  <1>20. CASE UNCHANGED vars
      BY <1>20
  <1> QED
      BY <1>1, <1>2, <1>3, <1>4, <1>5, <1>6, <1>7, <1>8, <1>9, <1>10, <1>11, <1>12, <1>13, <1>14, <1>15, <1>16, <1>17, <1>18, <1>19, <1>20 DEF Next, IdleLoop, Proceed

LEMMA StepSlotted == ThreadInv /\ [Next]_vars => Slotted'
  <1> SUFFICES ASSUME ThreadInv, [Next]_vars PROVE Slotted'
      OBVIOUS
  <1> USE DEF ThreadInv, Slotted, Leaving, Lifetime, Submitted, InJoin, Callable, TypeOK, vars, threadVars
  <1>1. CASE IdlePark
      BY <1>1 DEF IdlePark
  <1>2. CASE IdleSleepAgain
      BY <1>2 DEF IdleSleepAgain
  <1>3. CASE IdleExit
      BY <1>3 DEF IdleExit
  <1>4. CASE IdleTakeJob
      BY <1>4 DEF IdleTakeJob
  <1>5. CASE IdleRunJob
      BY <1>5 DEF IdleRunJob
  <1>6. CASE Spawn
      BY <1>6 DEF Spawn
  <1>7. CASE SpawnRefused
      BY <1>7 DEF SpawnRefused
  <1>8. CASE CallJoin
      BY <1>8 DEF CallJoin
  <1>9. CASE RaiseExit
      BY <1>9 DEF RaiseExit
  <1>10. CASE WakeForExit
      BY <1>10 DEF WakeForExit
  <1>11. CASE JoinReturns
      BY <1>11 DEF JoinReturns
  <1>12. ASSUME NEW c \in Clients, CallWait(c) PROVE Slotted'
      BY <1>12 DEF CallWait
  <1>13. ASSUME NEW c \in Clients, StartJobWaits(c) PROVE Slotted'
      BY <1>13 DEF StartJobWaits
  <1>14. ASSUME NEW c \in Clients, StoreJob(c) PROVE Slotted'
    <2>1. loop = "wait" /\ ~exit /\ cur = NoJob /\ arg[c] # NoJob
        BY <1>14, Parked DEF StoreJob
    <2> QED
        BY <1>14, <2>1 DEF StoreJob
  <1>15. ASSUME NEW c \in Clients, WakeForJob(c) PROVE Slotted'
      BY <1>15 DEF WakeForJob
  <1>16. ASSUME NEW c \in Clients, WaitSleeps(c) PROVE Slotted'
      BY <1>16 DEF WaitSleeps
  <1>17. ASSUME NEW c \in Clients, WaitReturns(c) PROVE Slotted'
      BY <1>17 DEF WaitReturns
  <1>18. ASSUME NEW c \in Clients, NEW j \in Jobs, CallStartJob(c, j) PROVE Slotted'
      BY <1>18 DEF CallStartJob
  <1>19. ASSUME NEW p \in Procs, SpuriousWakeup(p) PROVE Slotted'
      BY <1>19 DEF SpuriousWakeup
  <1>20. CASE UNCHANGED vars
      BY <1>20
  <1> QED
      BY <1>1, <1>2, <1>3, <1>4, <1>5, <1>6, <1>7, <1>8, <1>9, <1>10, <1>11, <1>12, <1>13, <1>14, <1>15, <1>16, <1>17, <1>18, <1>19, <1>20 DEF Next, IdleLoop, Proceed

LEMMA StepLeaving == ThreadInv /\ [Next]_vars => Leaving'
  <1> SUFFICES ASSUME ThreadInv, [Next]_vars PROVE Leaving'
      OBVIOUS
  <1> USE DEF ThreadInv, Leaving, Slotted, Lifetime, InJoin, InCall, Callable, TypeOK, vars, threadVars
  <1>1. CASE IdlePark
      BY <1>1 DEF IdlePark
  <1>2. CASE IdleSleepAgain
      BY <1>2 DEF IdleSleepAgain
  <1>3. CASE IdleExit
      BY <1>3 DEF IdleExit
  <1>4. CASE IdleTakeJob
      BY <1>4 DEF IdleTakeJob
  <1>5. CASE IdleRunJob
      BY <1>5 DEF IdleRunJob
  <1>6. CASE Spawn
      BY <1>6 DEF Spawn
  <1>7. CASE SpawnRefused
      BY <1>7 DEF SpawnRefused
  <1>8. CASE CallJoin
      BY <1>8 DEF CallJoin
  <1>9. CASE RaiseExit
      BY <1>9 DEF RaiseExit
  <1>10. CASE WakeForExit
      BY <1>10 DEF WakeForExit
  <1>11. CASE JoinReturns
      BY <1>11 DEF JoinReturns
  <1>12. ASSUME NEW c \in Clients, CallWait(c) PROVE Leaving'
      BY <1>12 DEF CallWait
  <1>13. ASSUME NEW c \in Clients, StartJobWaits(c) PROVE Leaving'
      BY <1>13 DEF StartJobWaits
  <1>14. ASSUME NEW c \in Clients, StoreJob(c) PROVE Leaving'
      BY <1>14 DEF StoreJob
  <1>15. ASSUME NEW c \in Clients, WakeForJob(c) PROVE Leaving'
      BY <1>15 DEF WakeForJob
  <1>16. ASSUME NEW c \in Clients, WaitSleeps(c) PROVE Leaving'
      BY <1>16 DEF WaitSleeps
  <1>17. ASSUME NEW c \in Clients, WaitReturns(c) PROVE Leaving'
    <2>1. loop = "wait" /\ ~exit
        BY <1>17, Parked DEF WaitReturns
    <2>2. pc[c] = "drain" => c = Owner
        OBVIOUS
    <2>3. pc[Owner] \in {"wake_exit", "os_join"} <=> pc'[Owner] \in {"wake_exit", "os_join"}
        BY <1>17 DEF WaitReturns
    <2> QED
        BY <1>17, <2>1, <2>2, <2>3 DEF WaitReturns
  <1>18. ASSUME NEW c \in Clients, NEW j \in Jobs, CallStartJob(c, j) PROVE Leaving'
      BY <1>18 DEF CallStartJob
  <1>19. ASSUME NEW p \in Procs, SpuriousWakeup(p) PROVE Leaving'
      BY <1>19 DEF SpuriousWakeup
  <1>20. CASE UNCHANGED vars
      BY <1>20
  <1> QED
      BY <1>1, <1>2, <1>3, <1>4, <1>5, <1>6, <1>7, <1>8, <1>9, <1>10, <1>11, <1>12, <1>13, <1>14, <1>15, <1>16, <1>17, <1>18, <1>19, <1>20 DEF Next, IdleLoop, Proceed

LEMMA StepSubmitted == ThreadInv /\ [Next]_vars => Submitted'
  <1> SUFFICES ASSUME ThreadInv, [Next]_vars PROVE Submitted'
      OBVIOUS
  <1> USE DEF ThreadInv, Submitted, Lifetime, Leaving, InJoin, Callable, TypeOK, vars, threadVars
  <1>1. CASE IdlePark
      BY <1>1 DEF IdlePark
  <1>2. CASE IdleSleepAgain
      BY <1>2 DEF IdleSleepAgain
  <1>3. CASE IdleExit
      BY <1>3 DEF IdleExit
  <1>4. CASE IdleTakeJob
      BY <1>4 DEF IdleTakeJob
  <1>5. CASE IdleRunJob
      BY <1>5 DEF IdleRunJob
  <1>6. CASE Spawn
      BY <1>6 DEF Spawn
  <1>7. CASE SpawnRefused
      BY <1>7 DEF SpawnRefused
  <1>8. CASE CallJoin
      BY <1>8 DEF CallJoin
  <1>9. CASE RaiseExit
      BY <1>9 DEF RaiseExit
  <1>10. CASE WakeForExit
      BY <1>10 DEF WakeForExit
  <1>11. CASE JoinReturns
      BY <1>11 DEF JoinReturns
  <1>12. ASSUME NEW c \in Clients, CallWait(c) PROVE Submitted'
      BY <1>12 DEF CallWait
  <1>13. ASSUME NEW c \in Clients, StartJobWaits(c) PROVE Submitted'
      BY <1>13 DEF StartJobWaits
  <1>14. ASSUME NEW c \in Clients, StoreJob(c) PROVE Submitted'
      BY <1>14 DEF StoreJob
  <1>15. ASSUME NEW c \in Clients, WakeForJob(c) PROVE Submitted'
      BY <1>15 DEF WakeForJob
  <1>16. ASSUME NEW c \in Clients, WaitSleeps(c) PROVE Submitted'
      BY <1>16 DEF WaitSleeps
  <1>17. ASSUME NEW c \in Clients, WaitReturns(c) PROVE Submitted'
      BY <1>17 DEF WaitReturns
  <1>18. ASSUME NEW c \in Clients, NEW j \in Jobs, CallStartJob(c, j) PROVE Submitted'
      BY <1>18 DEF CallStartJob
  <1>19. ASSUME NEW p \in Procs, SpuriousWakeup(p) PROVE Submitted'
      BY <1>19 DEF SpuriousWakeup
  <1>20. CASE UNCHANGED vars
      BY <1>20
  <1> QED
      BY <1>1, <1>2, <1>3, <1>4, <1>5, <1>6, <1>7, <1>8, <1>9, <1>10, <1>11, <1>12, <1>13, <1>14, <1>15, <1>16, <1>17, <1>18, <1>19, <1>20 DEF Next, IdleLoop, Proceed

LEMMA StepAccounted == ThreadInv /\ [Next]_vars => Accounted'
  <1> SUFFICES ASSUME ThreadInv, [Next]_vars PROVE Accounted'
      OBVIOUS
  <1> USE DEF ThreadInv, Accounted, Pending, Submitted, Slotted, Leaving, Lifetime, InJoin, Callable, TypeOK, vars, threadVars
  <1>1. CASE IdlePark
      BY <1>1 DEF IdlePark
  <1>2. CASE IdleSleepAgain
      BY <1>2 DEF IdleSleepAgain
  <1>3. CASE IdleExit
      BY <1>3 DEF IdleExit
  <1>4. CASE IdleTakeJob
      BY <1>4 DEF IdleTakeJob
  <1>5. CASE IdleRunJob
      BY <1>5 DEF IdleRunJob
  <1>6. CASE Spawn
      BY <1>6 DEF Spawn
  <1>7. CASE SpawnRefused
      BY <1>7 DEF SpawnRefused
  <1>8. CASE CallJoin
      BY <1>8 DEF CallJoin
  <1>9. CASE RaiseExit
      BY <1>9 DEF RaiseExit
  <1>10. CASE WakeForExit
      BY <1>10 DEF WakeForExit
  <1>11. CASE JoinReturns
      BY <1>11 DEF JoinReturns
  <1>12. ASSUME NEW c \in Clients, CallWait(c) PROVE Accounted'
      BY <1>12 DEF CallWait
  <1>13. ASSUME NEW c \in Clients, StartJobWaits(c) PROVE Accounted'
      BY <1>13 DEF StartJobWaits
  <1>14. ASSUME NEW c \in Clients, StoreJob(c) PROVE Accounted'
      BY <1>14 DEF StoreJob
  <1>15. ASSUME NEW c \in Clients, WakeForJob(c) PROVE Accounted'
      BY <1>15 DEF WakeForJob
  <1>16. ASSUME NEW c \in Clients, WaitSleeps(c) PROVE Accounted'
      BY <1>16 DEF WaitSleeps
  <1>17. ASSUME NEW c \in Clients, WaitReturns(c) PROVE Accounted'
      BY <1>17 DEF WaitReturns
  <1>18. ASSUME NEW c \in Clients, NEW j \in Jobs, CallStartJob(c, j) PROVE Accounted'
      BY <1>18 DEF CallStartJob
  <1>19. ASSUME NEW p \in Procs, SpuriousWakeup(p) PROVE Accounted'
      BY <1>19 DEF SpuriousWakeup
  <1>20. CASE UNCHANGED vars
      BY <1>20
  <1> QED
      BY <1>1, <1>2, <1>3, <1>4, <1>5, <1>6, <1>7, <1>8, <1>9, <1>10, <1>11, <1>12, <1>13, <1>14, <1>15, <1>16, <1>17, <1>18, <1>19, <1>20 DEF Next, IdleLoop, Proceed

LEMMA StepSleeping == ThreadInv /\ [Next]_vars => Sleeping'
  <1> SUFFICES ASSUME ThreadInv, [Next]_vars PROVE Sleeping'
      OBVIOUS
  <1> USE DEF ThreadInv, Sleeping, NoMissedWakeup, Slotted, Leaving, Lifetime, InJoin, InCall, Procs, TypeOK, Callable, vars, threadVars
  <1>1. CASE IdlePark
      BY <1>1 DEF IdlePark
  <1>2. CASE IdleSleepAgain
      BY <1>2 DEF IdleSleepAgain
  <1>3. CASE IdleExit
      BY <1>3 DEF IdleExit
  <1>4. CASE IdleTakeJob
      BY <1>4 DEF IdleTakeJob
  <1>5. CASE IdleRunJob
      BY <1>5 DEF IdleRunJob
  <1>6. CASE Spawn
      BY <1>6 DEF Spawn
  <1>7. CASE SpawnRefused
      BY <1>7 DEF SpawnRefused
  <1>8. CASE CallJoin
      BY <1>8 DEF CallJoin
  <1>9. CASE RaiseExit
      BY <1>9 DEF RaiseExit
  <1>10. CASE WakeForExit
      BY <1>10 DEF WakeForExit
  <1>11. CASE JoinReturns
      BY <1>11 DEF JoinReturns
  <1>12. ASSUME NEW c \in Clients, CallWait(c) PROVE Sleeping'
      BY <1>12 DEF CallWait
  <1>13. ASSUME NEW c \in Clients, StartJobWaits(c) PROVE Sleeping'
      BY <1>13 DEF StartJobWaits
  <1>14. ASSUME NEW c \in Clients, StoreJob(c) PROVE Sleeping'
      BY <1>14 DEF StoreJob
  <1>15. ASSUME NEW c \in Clients, WakeForJob(c) PROVE Sleeping'
      BY <1>15 DEF WakeForJob
  <1>16. ASSUME NEW c \in Clients, WaitSleeps(c) PROVE Sleeping'
      BY <1>16 DEF WaitSleeps
  <1>17. ASSUME NEW c \in Clients, WaitReturns(c) PROVE Sleeping'
      BY <1>17 DEF WaitReturns
  <1>18. ASSUME NEW c \in Clients, NEW j \in Jobs, CallStartJob(c, j) PROVE Sleeping'
      BY <1>18 DEF CallStartJob
  <1>19. ASSUME NEW p \in Procs, SpuriousWakeup(p) PROVE Sleeping'
      BY <1>19 DEF SpuriousWakeup
  <1>20. CASE UNCHANGED vars
      BY <1>20
  <1> QED
      BY <1>1, <1>2, <1>3, <1>4, <1>5, <1>6, <1>7, <1>8, <1>9, <1>10, <1>11, <1>12, <1>13, <1>14, <1>15, <1>16, <1>17, <1>18, <1>19, <1>20 DEF Next, IdleLoop, Proceed

-------------------------------------------------------------------------------
(* Theorems *)

LEMMA Invariant == Spec => []ThreadInv
  <1>1. ThreadInv /\ [Next]_vars => ThreadInv'
      BY StepTypeOK, StepLifetime, StepSlotted, StepLeaving, StepSubmitted, StepAccounted,
         StepSleeping DEF ThreadInv
  <1> QED
      BY Initially, <1>1, PTL DEF Spec

(* The variables of thread.c keep their types, whatever calls arrive.      *)
THEOREM TypeCorrect == Spec => []TypeOK
  BY Invariant, PTL DEF ThreadInv

(* thread_start_job never drops a job and the idle loop never runs one     *)
(* twice, for any number of submitters and jobs.                           *)
THEOREM NoJobLost == Spec => []NoLostJob
  <1>1. ThreadInv => NoLostJob
      BY DEF ThreadInv, Accounted, NoLostJob
  <1> QED
      BY Invariant, <1>1, PTL

(* Broadcasting after the unlock loses no wake-up: a sleeper whose         *)
(* condition holds is owed a broadcast.                                    *)
THEOREM NoWakeupMissed == Spec => []NoMissedWakeup
  BY Invariant, PTL DEF ThreadInv, Sleeping

(* thread_wait_for_search_finished returns only once all accepted jobs ran. *)
THEOREM WaitsDrain == Spec => WaitDrains
  <1> DEFINE P == \A c \in Clients : WaitReturns(c) => loop = "wait" /\ \A j \in Jobs : ~Pending(j)
  <1>1. ThreadInv => P
    <2> SUFFICES ASSUME ThreadInv, NEW c \in Clients, WaitReturns(c)
                 PROVE loop = "wait" /\ \A j \in Jobs : ~Pending(j)
        OBVIOUS
    <2>1. loop = "wait" /\ job = NoJob /\ cur = NoJob
        BY Parked DEF WaitReturns
    <2> QED
        BY <2>1 DEF ThreadInv, Accounted
  <1>2. ThreadInv => [P]_vars
      BY <1>1
  <1> QED
      BY Invariant, <1>2, PTL DEF WaitDrains

(* thread_join runs a job queued just before it (thread.c:119-123).        *)
THEOREM JoinsRunEverything == Spec => JoinRunsEverything
  <1> DEFINE P == loop' = "dead" /\ loop # "dead" => \A j \in Jobs : ~Pending(j)
  <1>1. ThreadInv /\ [Next]_vars => P
    <2> SUFFICES ASSUME ThreadInv, [Next]_vars, loop' = "dead", loop # "dead"
                 PROVE \A j \in Jobs : ~Pending(j)
        OBVIOUS
    <2>1. exit
        BY DEF Next, IdleLoop, IdlePark, IdleSleepAgain, IdleExit, IdleTakeJob, IdleRunJob,
               Spawn, SpawnRefused, CallJoin, Proceed, CallWait, CallStartJob, StartJobWaits,
               StoreJob, WakeForJob, WaitSleeps, WaitReturns, RaiseExit, WakeForExit,
               JoinReturns, SpuriousWakeup, vars, threadVars
    <2>2. job = NoJob /\ cur = NoJob
        BY <2>1 DEF ThreadInv, Leaving, Slotted
    <2> QED
        BY <2>2 DEF ThreadInv, Accounted
  <1>2. ThreadInv /\ [Next]_vars => [P]_vars
      BY <1>1
  <1> QED
      BY Invariant, <1>2, PTL DEF Spec, JoinRunsEverything

-------------------------------------------------------------------------------
(* The handshake implements the single-slot job server of JobSlot.tla      *)
(* (safety half; that the accepted job finishes is left to TLC).           *)
LEMMA SlotInitially == Init => Slot!SlotInit
  BY DEF Init, Slot!SlotInit

\* Steps the job server does not see.
LEMMA SlotStutters ==
    ASSUME ThreadInv, UNCHANGED <<job, cur, runs>>,
           loop' \notin {"none", "dead"} <=> loop \notin {"none", "dead"}
    PROVE  UNCHANGED Slot!slotVars
  BY DEF Slot!slotVars

LEMMA SlotStep == ThreadInv /\ [Next]_vars => [Slot!SlotNext]_(Slot!slotVars)
  <1> SUFFICES ASSUME ThreadInv, [Next]_vars PROVE [Slot!SlotNext]_(Slot!slotVars)
      OBVIOUS
  <1> DEFINE isOpen == loop \notin {"none", "dead"}
             theSlot == IF job # NoJob THEN job ELSE cur
             isDone == {j \in Jobs : runs[j] > 0}
  <1> USE DEF ThreadInv, TypeOK
  <1>1. CASE IdlePark
    <2>1. ~exit
        BY <1>1 DEF IdlePark, Leaving
    <2> QED
        BY <1>1, <2>1, SlotStutters DEF IdlePark
  <1>2. CASE IdleSleepAgain
      BY <1>2, SlotStutters DEF IdleSleepAgain, threadVars
  <1>3. CASE IdleExit
    <2>1. isOpen /\ theSlot = NoJob
        BY <1>3 DEF IdleExit, Leaving, Slotted
    <2>2. ~isOpen' /\ UNCHANGED <<theSlot, isDone>>
        BY <1>3 DEF IdleExit
    <2> QED
        BY <2>1, <2>2 DEF Slot!SlotNext, Slot!Close
  <1>4. CASE IdleTakeJob
    <2>1. UNCHANGED <<isOpen, theSlot, isDone>>
        BY <1>4, JobAssumption DEF IdleTakeJob, Slotted
    <2> QED
        BY <2>1 DEF Slot!slotVars
  <1>5. CASE IdleRunJob
    <2>1. job = NoJob /\ cur \in Jobs /\ runs[cur] = 0
        BY <1>5 DEF IdleRunJob, Slotted, Accounted, Pending
    <2>2. isDone' = isDone \cup {cur}
        BY <1>5, <2>1 DEF IdleRunJob
    <2>3. theSlot = cur /\ theSlot # NoJob /\ theSlot' = NoJob /\ UNCHANGED isOpen
        BY <1>5, <2>1 DEF IdleRunJob
    <2> QED
        BY <2>2, <2>3 DEF Slot!SlotNext, Slot!Finish
  <1>6. CASE Spawn
    <2>1. ~isOpen /\ isOpen' /\ theSlot' = theSlot /\ isDone' = isDone
        BY <1>6 DEF Spawn, Lifetime
    <2> QED
        BY <2>1 DEF Slot!SlotNext, Slot!Open
  <1>7. CASE SpawnRefused
    <2>1. job' = job
        BY <1>7 DEF SpawnRefused, Lifetime
    <2> QED
        BY <1>7, <2>1, SlotStutters DEF SpawnRefused
  <1>8. CASE CallJoin
      BY <1>8, SlotStutters DEF CallJoin, threadVars
  <1>9. CASE RaiseExit
      BY <1>9, SlotStutters DEF RaiseExit
  <1>10. CASE WakeForExit
      BY <1>10, SlotStutters DEF WakeForExit, threadVars
  <1>11. CASE JoinReturns
      BY <1>11, SlotStutters DEF JoinReturns
  <1>12. ASSUME NEW c \in Clients, CallWait(c) PROVE UNCHANGED Slot!slotVars
      BY <1>12, SlotStutters DEF CallWait, threadVars
  <1>13. ASSUME NEW c \in Clients, StartJobWaits(c) PROVE UNCHANGED Slot!slotVars
      BY <1>13, SlotStutters DEF StartJobWaits, threadVars
  <1>14. ASSUME NEW c \in Clients, StoreJob(c) PROVE Slot!SlotNext
    <2>1. loop = "wait" /\ job = NoJob /\ cur = NoJob
        BY <1>14, Parked DEF StoreJob
    <2>2. arg[c] \in Jobs /\ arg[c] # NoJob /\ ~(runs[arg[c]] > 0)
        BY <1>14, JobAssumption DEF StoreJob, Submitted, Accounted
    <2>3. isOpen /\ theSlot = NoJob /\ arg[c] \notin isDone
        BY <2>1, <2>2
    <2>4. theSlot' = arg[c] /\ UNCHANGED <<isOpen, isDone>>
        BY <1>14, <2>2 DEF StoreJob
    <2>5. Slot!Accept(arg[c])
        BY <2>3, <2>4 DEF Slot!Accept
    <2> QED
        BY <2>2, <2>5 DEF Slot!SlotNext
  <1>15. ASSUME NEW c \in Clients, WakeForJob(c) PROVE UNCHANGED Slot!slotVars
      BY <1>15, SlotStutters DEF WakeForJob, threadVars
  <1>16. ASSUME NEW c \in Clients, WaitSleeps(c) PROVE UNCHANGED Slot!slotVars
      BY <1>16, SlotStutters DEF WaitSleeps, threadVars
  <1>17. ASSUME NEW c \in Clients, WaitReturns(c) PROVE UNCHANGED Slot!slotVars
      BY <1>17, SlotStutters DEF WaitReturns, threadVars
  <1>18. ASSUME NEW c \in Clients, NEW j \in Jobs, CallStartJob(c, j)
         PROVE UNCHANGED Slot!slotVars
      BY <1>18, SlotStutters DEF CallStartJob, threadVars
  <1>19. ASSUME NEW p \in Procs, SpuriousWakeup(p) PROVE UNCHANGED Slot!slotVars
      BY <1>19, SlotStutters DEF SpuriousWakeup, threadVars
  <1>20. CASE UNCHANGED vars
      BY <1>20, SlotStutters DEF vars
  <1> QED
      BY <1>1, <1>2, <1>3, <1>4, <1>5, <1>6, <1>7, <1>8, <1>9, <1>10, <1>11, <1>12,
         <1>13, <1>14, <1>15, <1>16, <1>17, <1>18, <1>19, <1>20 DEF Next, IdleLoop, Proceed

THEOREM ImplementsJobSlot == Spec => Slot!SlotSafety
  BY SlotInitially, SlotStep, Invariant, PTL DEF Spec, Slot!SlotSafety

===============================================================================
