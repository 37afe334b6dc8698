------------------------------- MODULE JobSlot -------------------------------
(***************************************************************************)
(* What src/platform/thread.h promises of one Thread: a server with a      *)
(* single job slot.  While it is open it accepts one job at a time, it     *)
(* finishes every job it accepted exactly once, and it closes only when    *)
(* nothing accepted is left unfinished.                                    *)
(***************************************************************************)
CONSTANTS Jobs,   \* the jobs that are ever submitted, each at most once
          NoJob   \* the empty slot

VARIABLES open,   \* the OS thread exists and serves jobs
          slot,   \* the accepted job that is not finished, or NoJob
          done    \* the jobs that ran to completion

slotVars == <<open, slot, done>>

SlotInit == open = FALSE /\ slot = NoJob /\ done = {}

Open == /\ ~open
        /\ open' = TRUE
        /\ UNCHANGED <<slot, done>>

Accept(j) == /\ open
             /\ slot = NoJob
             /\ j \notin done
             /\ slot' = j
             /\ UNCHANGED <<open, done>>

Finish == /\ slot # NoJob
          /\ done' = done \cup {slot}
          /\ slot' = NoJob
          /\ UNCHANGED open

Close == /\ open
         /\ slot = NoJob
         /\ open' = FALSE
         /\ UNCHANGED <<slot, done>>

SlotNext == Open \/ Close \/ Finish \/ \E j \in Jobs : Accept(j)

SlotSpec == SlotInit /\ [][SlotNext]_slotVars /\ WF_slotVars(Finish)

(* The safety half, which is what a refinement proof can establish.        *)
SlotSafety == SlotInit /\ [][SlotNext]_slotVars
=============================================================================
