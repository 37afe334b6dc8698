------------------------- MODULE SearchSessionProofs -------------------------
(***************************************************************************)
(* Theorems about SearchSession, for any number of siblings and any limits *)
(* a `go` may carry, whichever allocations fail: nobody writes what another*)
(* thread reads, a search is only stopped by a stop of its own, and the    *)
(* session implements the protocol.                                        *)
(***************************************************************************)
EXTENDS SearchSession, TLAPS

-------------------------------------------------------------------------------
(* The inductive invariant *)

\* Worker 0's thread is somewhere in run_main_search exactly while its job runs, and
\* in its depth loop exactly in the middle of it.
MainInPlace ==
    /\ slot[0] = "running" <=> at # "out"
    /\ phase[0] # "out" <=> at = "search"
    /\ running => slot[0] # "idle" /\ at # "return"

\* A sibling has a job only while worker 0 is between starting and collecting it.
SiblingsInPlace ==
    \A w \in Siblings :
        /\ phase[w] # "out" => slot[w] = "running"
        /\ slot[w] # "idle" => /\ at \in {"start", "search", "raise", "collect"}
                               /\ at = "start" => w < next
                               /\ at = "collect" => w >= next

\* The UI thread changes nothing before worker 0's thread is idle, and only what it
\* itself then does makes it busy again.
UciInPlace ==
    /\ ui \in {"apply", "go", "quit", "off"} => slot[0] = "idle"
    /\ ui = "apply" => cmd = "apply"
    /\ ui = "go" => cmd \in {"go", "bench"}
    /\ ui \in {"end_stop", "drain", "apply"} /\ cmd = "apply" => board < MaxBoards
    /\ ui \in {"end_stop", "drain", "go"} /\ cmd \in {"go", "bench"} => asked < MaxGos

\* A `go` is answered, or memory was refused for it, or its search is on its way there.
Owed == IF slot[0] # "idle" /\ at \notin {"publish", "return"} THEN 1 ELSE 0
Accounted == asked = answered + lost + Owed

\* The flag is down when a search is handed over: who raises it after that, means it.
Fresh == stop /\ slot[0] # "idle" => stopFor = asked

\* TypeOK in three parts, for the proof: the UI thread's, the search's, the threads'.
UciTypeOK ==
    /\ ui \in UciAt /\ cmd \in Commands /\ board \in 0 .. MaxBoards
    /\ stop \in BOOLEAN /\ stopFor \in 0 .. MaxGos
    /\ asked \in 0 .. MaxGos /\ lost \in Nat /\ answered \in Nat
SearchTypeOK ==
    /\ running \in BOOLEAN /\ unbounded \in BOOLEAN /\ ponder \in BOOLEAN /\ armed \in BOOLEAN
    /\ limits \in LimitType /\ timeUp \in BOOLEAN
    /\ ready \in [Workers -> BOOLEAN]
MainTypeOK ==
    /\ slot \in [Workers -> {"idle", "queued", "running"}]
    /\ at \in MainAt /\ next \in 1 .. SiblingCount + 1
    /\ phase \in [Workers -> PhaseAt]
    /\ depth \in [Workers -> 0 .. MAX_PLY - 1]

IInv == TypeOK /\ MainInPlace /\ SiblingsInPlace /\ UciInPlace /\ Accounted /\ Fresh

LEMMA InitHolds == Init => IInv
  <1> SUFFICES ASSUME Init PROVE IInv
    OBVIOUS
  <1> USE CountAssumption, PlyAssumption, BoundsAssumption DEF Init
  <1>1. NoLimits \in LimitType
    BY DEF NoLimits, LimitType
  <1>2. TypeOK
    <2>1. 0 \in 0 .. MAX_PLY - 1 /\ 0 \in 0 .. MaxGos /\ 0 \in 0 .. MaxBoards
          /\ 1 \in 1 .. SiblingCount + 1
      OBVIOUS
    <2> QED BY <1>1, <2>1 DEF TypeOK, UciAt, Commands, MainAt, PhaseAt
  <1>3. 0 \in Workers /\ Siblings \subseteq Workers
    BY DEF Workers, Siblings
  <1>4. MainInPlace /\ SiblingsInPlace
    BY <1>3 DEF MainInPlace, SiblingsInPlace
  <1>5. UciInPlace /\ Accounted /\ Fresh
    BY <1>3 DEF UciInPlace, Accounted, Owed, Fresh
  <1> QED BY <1>2, <1>4, <1>5 DEF IInv

LEMMA GoTyped ==
    ASSUME IInv, NEW l, GoBegins(l), lost' \in Nat, answered' \in Nat
    PROVE  UciTypeOK'
  <1> USE DEF GoBegins
  <1>1. ui' \in UciAt /\ cmd' \in Commands
    BY DEF IInv, TypeOK, UciAt
  <1>2. board' \in 0 .. MaxBoards /\ stop' \in BOOLEAN /\ stopFor' \in 0 .. MaxGos
    BY DEF IInv, TypeOK, ClearStop
  <1>3. asked' \in 0 .. MaxGos
    <2>1. asked \in 0 .. MaxGos /\ MaxGos \in Nat /\ asked' = asked + 1
      BY BoundsAssumption DEF IInv, TypeOK
    <2>2. asked < MaxGos
      BY DEF IInv, UciInPlace
    <2> QED BY <2>1, <2>2
  <1> QED BY <1>1, <1>2, <1>3 DEF UciTypeOK

LEMMA UciTyped == IInv /\ [Next]_vars => UciTypeOK'
  <1> SUFFICES ASSUME IInv, [Next]_vars PROVE UciTypeOK'
    OBVIOUS
  <1> USE CountAssumption, PlyAssumption, BoundsAssumption
      DEF IInv, TypeOK, UciInPlace, MainInPlace, Workers, Siblings, UciAt, Commands,
          vars, flags, session, uciVars, UciTypeOK
  <1>1. CASE Stop
    BY <1>1 DEF Stop, Raise
  <1>2. CASE PonderHit
    BY <1>2 DEF PonderHit
  <1>3. ASSUME NEW c \in Commands, Command(c) PROVE UciTypeOK'
    BY <1>3 DEF Command
  <1>4. CASE EndSearchStops
    BY <1>4 DEF EndSearchStops, Raise
  <1>5. CASE EndSearchReturns
    BY <1>5 DEF EndSearchReturns
  <1>6. CASE Apply
    <2>1. /\ cmd' = cmd /\ asked' = asked /\ lost' = lost /\ answered' = answered
          /\ ui' \in UciAt /\ stop' = stop /\ stopFor' = stopFor
      BY <1>6 DEF Apply
    <2>2. board' \in 0 .. MaxBoards
      <3>1. board \in 0 .. MaxBoards /\ MaxBoards \in Nat /\ board' \in {board, board + 1}
        BY <1>6 DEF Apply
      <3>2. board < MaxBoards
        BY <1>6 DEF Apply
      <3> QED BY <3>1, <3>2
    <2> QED BY <2>1, <2>2
  <1>7. CASE Reject
    BY <1>7 DEF Reject, Raise
  <1>8. CASE Shutdown
    BY <1>8 DEF Shutdown
  <1>9. CASE BenchWaits
    BY <1>9 DEF BenchWaits
  <1>10. ASSUME NEW l \in Limits, GoWithoutWorker(l) PROVE UciTypeOK'
    <2>1. GoBegins(l) /\ lost' \in Nat /\ answered' \in Nat
      BY <1>10 DEF GoWithoutWorker
    <2> QED BY <2>1, GoTyped
  <1>11. ASSUME NEW l \in Limits, GoWithoutMoves(l) PROVE UciTypeOK'
    <2>1. GoBegins(l) /\ lost' \in Nat /\ answered' \in Nat
      BY <1>11 DEF GoWithoutMoves
    <2> QED BY <2>1, GoTyped
  <1>12. ASSUME NEW l \in Limits, GoWithoutRootList(l) PROVE UciTypeOK'
    <2>1. GoBegins(l) /\ lost' \in Nat /\ answered' \in Nat
      BY <1>12 DEF GoWithoutRootList
    <2> QED BY <2>1, GoTyped
  <1>13. ASSUME NEW l \in Limits, NEW F \in FailedSetups, GoWithoutMain(l, F) PROVE UciTypeOK'
    <2>1. GoBegins(l) /\ lost' \in Nat /\ answered' \in Nat
      BY <1>13 DEF GoWithoutMain
    <2> QED BY <2>1, GoTyped
  <1>14. ASSUME NEW l \in Limits, NEW F \in FailedSetups, GoDispatches(l, F) PROVE UciTypeOK'
    <2>1. GoBegins(l) /\ lost' \in Nat /\ answered' \in Nat
      BY <1>14 DEF GoDispatches
    <2> QED BY <2>1, GoTyped
  <1>15. CASE MainBegins
    BY <1>15 DEF MainBegins
  <1>16. CASE StartSibling
    BY <1>16 DEF StartSibling
  <1>17. CASE MainSearches
    BY <1>17 DEF MainSearches
  <1>18. CASE RaiseStop
    BY <1>18 DEF RaiseStop, Raise
  <1>19. CASE CollectSibling
    BY <1>19 DEF CollectSibling
  <1>20. CASE Vote
    BY <1>20 DEF Vote
  <1>21. CASE Report
    BY <1>21 DEF Report
  <1>22. CASE Publish
    BY <1>22 DEF Publish
  <1>23. CASE MainReturns
    BY <1>23 DEF MainReturns
  <1>24. ASSUME NEW w \in Siblings, SiblingBegins(w) PROVE UciTypeOK'
    BY <1>24 DEF SiblingBegins
  <1>25. ASSUME NEW w \in Workers, Deepen(w) PROVE UciTypeOK'
    BY <1>25 DEF Deepen, DepthReached
  <1>26. ASSUME NEW w \in Workers, DepthLoopEnds(w) PROVE UciTypeOK'
    BY <1>26 DEF DepthLoopEnds, DepthReached
  <1>27. ASSUME NEW w \in Workers, Unwind(w) PROVE UciTypeOK'
    BY <1>27 DEF Unwind
  <1>28. ASSUME NEW w \in Workers, FindMate(w) PROVE UciTypeOK'
    BY <1>28 DEF FindMate, Raise
  <1>29. ASSUME NEW w \in Workers, Complete(w) PROVE UciTypeOK'
    BY <1>29 DEF Complete
  <1>30. CASE CheckTime
    BY <1>30 DEF CheckTime, Raise
  <1>31. CASE FailLow
    BY <1>31 DEF FailLow
  <1>32. CASE ArmPonderStop
    BY <1>32 DEF ArmPonderStop
  <1>33. CASE Expire
    BY <1>33 DEF Expire, Raise
  <1>34. CASE TimePasses
    BY <1>34 DEF TimePasses
  <1>35. CASE UNCHANGED vars
    BY <1>35
  <1> QED BY <1>1, <1>2, <1>3, <1>4, <1>5, <1>6, <1>7, <1>8, <1>9, <1>10, <1>11, <1>12,
             <1>13, <1>14, <1>15, <1>16, <1>17, <1>18, <1>19, <1>20, <1>21, <1>22, <1>23,
             <1>24, <1>25, <1>26, <1>27, <1>28, <1>29, <1>30, <1>31, <1>32, <1>33, <1>34,
             <1>35
    DEF Next, Uci, Go, Main, Search, Obey, Exited

LEMMA LimitsAreTyped ==
    ASSUME NEW l \in Limits
    PROVE  l \in LimitType /\ l.ponder \in BOOLEAN /\ Unbounded(l) \in BOOLEAN
  BY LimitsAssumption DEF LimitType, Unbounded

LEMMA SearchTyped == IInv /\ [Next]_vars => SearchTypeOK'
  <1> SUFFICES ASSUME IInv, [Next]_vars PROVE SearchTypeOK'
    OBVIOUS
  <1> USE LimitsAssumption DEF IInv, TypeOK, SearchTypeOK, vars, flags, session, uciVars
  <1>1. CASE Stop
    BY <1>1 DEF Stop, Raise
  <1>2. CASE PonderHit
    BY <1>2 DEF PonderHit
  <1>3. ASSUME NEW c \in Commands, Command(c) PROVE SearchTypeOK'
    BY <1>3 DEF Command
  <1>4. CASE EndSearchStops
    BY <1>4 DEF EndSearchStops, Raise
  <1>5. CASE EndSearchReturns
    BY <1>5 DEF EndSearchReturns
  <1>6. CASE Apply
    BY <1>6 DEF Apply
  <1>7. CASE Reject
    BY <1>7 DEF Reject, Raise
  <1>8. CASE Shutdown
    BY <1>8 DEF Shutdown
  <1>9. CASE BenchWaits
    BY <1>9 DEF BenchWaits
  <1>10. ASSUME NEW l \in Limits, GoWithoutWorker(l) PROVE SearchTypeOK'
    BY <1>10 DEF GoWithoutWorker, ClearStop, GoBegins
  <1>11. ASSUME NEW l \in Limits, GoWithoutMoves(l) PROVE SearchTypeOK'
    BY <1>11, LimitsAreTyped DEF GoWithoutMoves, ClearStop, GoBegins, ResetPonder
  <1>12. ASSUME NEW l \in Limits, GoWithoutRootList(l) PROVE SearchTypeOK'
    BY <1>12, LimitsAreTyped DEF GoWithoutRootList, ClearStop, GoBegins, ResetPonder
  <1>13. ASSUME NEW l \in Limits, NEW F \in FailedSetups, GoWithoutMain(l, F) PROVE SearchTypeOK'
    BY <1>13, LimitsAreTyped DEF GoWithoutMain, ClearStop, GoBegins, ResetPonder, SetUpWorkers
  <1>14. ASSUME NEW l \in Limits, NEW F \in FailedSetups, GoDispatches(l, F) PROVE SearchTypeOK'
    BY <1>14, LimitsAreTyped DEF GoDispatches, ClearStop, GoBegins, ResetPonder, SetUpWorkers
  <1>15. CASE MainBegins
    BY <1>15 DEF MainBegins
  <1>16. CASE StartSibling
    BY <1>16 DEF StartSibling
  <1>17. CASE MainSearches
    BY <1>17 DEF MainSearches
  <1>18. CASE RaiseStop
    BY <1>18 DEF RaiseStop, Raise
  <1>19. CASE CollectSibling
    BY <1>19 DEF CollectSibling
  <1>20. CASE Vote
    BY <1>20 DEF Vote
  <1>21. CASE Report
    BY <1>21 DEF Report
  <1>22. CASE Publish
    BY <1>22 DEF Publish
  <1>23. CASE MainReturns
    BY <1>23 DEF MainReturns
  <1>24. ASSUME NEW w \in Siblings, SiblingBegins(w) PROVE SearchTypeOK'
    BY <1>24 DEF SiblingBegins
  <1>25. ASSUME NEW w \in Workers, Deepen(w) PROVE SearchTypeOK'
    BY <1>25 DEF Deepen, DepthReached
  <1>26. ASSUME NEW w \in Workers, DepthLoopEnds(w) PROVE SearchTypeOK'
    BY <1>26 DEF DepthLoopEnds, DepthReached
  <1>27. ASSUME NEW w \in Workers, Unwind(w) PROVE SearchTypeOK'
    BY <1>27 DEF Unwind
  <1>28. ASSUME NEW w \in Workers, FindMate(w) PROVE SearchTypeOK'
    BY <1>28 DEF FindMate, Raise
  <1>29. ASSUME NEW w \in Workers, Complete(w) PROVE SearchTypeOK'
    BY <1>29 DEF Complete
  <1>30. CASE CheckTime
    BY <1>30 DEF CheckTime, Raise
  <1>31. CASE FailLow
    BY <1>31 DEF FailLow
  <1>32. CASE ArmPonderStop
    BY <1>32 DEF ArmPonderStop
  <1>33. CASE Expire
    BY <1>33 DEF Expire, Raise
  <1>34. CASE TimePasses
    BY <1>34 DEF TimePasses
  <1>35. CASE UNCHANGED vars
    BY <1>35
  <1> QED BY <1>1, <1>2, <1>3, <1>4, <1>5, <1>6, <1>7, <1>8, <1>9, <1>10, <1>11, <1>12,
             <1>13, <1>14, <1>15, <1>16, <1>17, <1>18, <1>19, <1>20, <1>21, <1>22, <1>23,
             <1>24, <1>25, <1>26, <1>27, <1>28, <1>29, <1>30, <1>31, <1>32, <1>33, <1>34,
             <1>35
    DEF Next, Uci, Go, Main, Search, Obey, Exited

LEMMA MainTyped == IInv /\ [Next]_vars => MainTypeOK'
  <1> SUFFICES ASSUME IInv, [Next]_vars PROVE MainTypeOK'
    OBVIOUS
  <1> USE CountAssumption, PlyAssumption, BoundsAssumption
      DEF IInv, TypeOK, UciInPlace, MainInPlace, Workers, Siblings, UciAt, Commands,
          vars, flags, session, uciVars, MainTypeOK, MainAt, PhaseAt
  <1>1. CASE Stop
    BY <1>1 DEF Stop, Raise
  <1>2. CASE PonderHit
    BY <1>2 DEF PonderHit
  <1>3. ASSUME NEW c \in Commands, Command(c) PROVE MainTypeOK'
    BY <1>3 DEF Command
  <1>4. CASE EndSearchStops
    BY <1>4 DEF EndSearchStops, Raise
  <1>5. CASE EndSearchReturns
    BY <1>5 DEF EndSearchReturns
  <1>6. CASE Apply
    BY <1>6 DEF Apply
  <1>7. CASE Reject
    BY <1>7 DEF Reject, Raise
  <1>8. CASE Shutdown
    BY <1>8 DEF Shutdown
  <1>9. CASE BenchWaits
    BY <1>9 DEF BenchWaits
  <1>10. ASSUME NEW l \in Limits, GoWithoutWorker(l) PROVE MainTypeOK'
    BY <1>10 DEF GoWithoutWorker, ClearStop, GoBegins
  <1>11. ASSUME NEW l \in Limits, GoWithoutMoves(l) PROVE MainTypeOK'
    BY <1>11 DEF GoWithoutMoves, ClearStop, GoBegins, ResetPonder
  <1>12. ASSUME NEW l \in Limits, GoWithoutRootList(l) PROVE MainTypeOK'
    BY <1>12 DEF GoWithoutRootList, ClearStop, GoBegins, ResetPonder
  <1>13. ASSUME NEW l \in Limits, NEW F \in FailedSetups, GoWithoutMain(l, F) PROVE MainTypeOK'
    BY <1>13 DEF GoWithoutMain, ClearStop, GoBegins, ResetPonder, SetUpWorkers
  <1>14. ASSUME NEW l \in Limits, NEW F \in FailedSetups, GoDispatches(l, F) PROVE MainTypeOK'
    BY <1>14 DEF GoDispatches, ClearStop, GoBegins, ResetPonder, SetUpWorkers
  <1>15. CASE MainBegins
    BY <1>15 DEF MainBegins
  <1>16. CASE StartSibling
    BY <1>16 DEF StartSibling
  <1>17. CASE MainSearches
    BY <1>17 DEF MainSearches
  <1>18. CASE RaiseStop
    BY <1>18 DEF RaiseStop, Raise
  <1>19. CASE CollectSibling
    BY <1>19 DEF CollectSibling
  <1>20. CASE Vote
    BY <1>20 DEF Vote
  <1>21. CASE Report
    BY <1>21 DEF Report
  <1>22. CASE Publish
    BY <1>22 DEF Publish
  <1>23. CASE MainReturns
    BY <1>23 DEF MainReturns
  <1>24. ASSUME NEW w \in Siblings, SiblingBegins(w) PROVE MainTypeOK'
    BY <1>24 DEF SiblingBegins
  <1>25. ASSUME NEW w \in Workers, Deepen(w) PROVE MainTypeOK'
    BY <1>25 DEF Deepen, DepthReached
  <1>26. ASSUME NEW w \in Workers, DepthLoopEnds(w) PROVE MainTypeOK'
    BY <1>26 DEF DepthLoopEnds, DepthReached
  <1>27. ASSUME NEW w \in Workers, Unwind(w) PROVE MainTypeOK'
    BY <1>27 DEF Unwind
  <1>28. ASSUME NEW w \in Workers, FindMate(w) PROVE MainTypeOK'
    BY <1>28 DEF FindMate, Raise
  <1>29. ASSUME NEW w \in Workers, Complete(w) PROVE MainTypeOK'
    BY <1>29 DEF Complete
  <1>30. CASE CheckTime
    BY <1>30 DEF CheckTime, Raise
  <1>31. CASE FailLow
    BY <1>31 DEF FailLow
  <1>32. CASE ArmPonderStop
    BY <1>32 DEF ArmPonderStop
  <1>33. CASE Expire
    BY <1>33 DEF Expire, Raise
  <1>34. CASE TimePasses
    BY <1>34 DEF TimePasses
  <1>35. CASE UNCHANGED vars
    BY <1>35
  <1> QED BY <1>1, <1>2, <1>3, <1>4, <1>5, <1>6, <1>7, <1>8, <1>9, <1>10, <1>11, <1>12,
             <1>13, <1>14, <1>15, <1>16, <1>17, <1>18, <1>19, <1>20, <1>21, <1>22, <1>23,
             <1>24, <1>25, <1>26, <1>27, <1>28, <1>29, <1>30, <1>31, <1>32, <1>33, <1>34,
             <1>35
    DEF Next, Uci, Go, Main, Search, Obey, Exited

LEMMA MainStaysInPlace == IInv /\ [Next]_vars => MainInPlace'
  <1> SUFFICES ASSUME IInv, [Next]_vars PROVE MainInPlace'
    OBVIOUS
  <1> USE CountAssumption
      DEF IInv, TypeOK, MainInPlace, Workers, Siblings, MainAt, vars, flags, session,
          uciVars
  <1>1. CASE Stop
    BY <1>1 DEF Stop, Raise
  <1>2. CASE PonderHit
    BY <1>2 DEF PonderHit
  <1>3. ASSUME NEW c \in Commands, Command(c) PROVE MainInPlace'
    BY <1>3 DEF Command
  <1>4. CASE EndSearchStops
    BY <1>4 DEF EndSearchStops, Raise
  <1>5. CASE EndSearchReturns
    BY <1>5 DEF EndSearchReturns
  <1>6. CASE Apply
    BY <1>6 DEF Apply
  <1>7. CASE Reject
    BY <1>7 DEF Reject, Raise
  <1>8. CASE Shutdown
    BY <1>8 DEF Shutdown
  <1>9. CASE BenchWaits
    BY <1>9 DEF BenchWaits
  <1>10. ASSUME NEW l \in Limits, GoWithoutWorker(l) PROVE MainInPlace'
    BY <1>10 DEF GoWithoutWorker, ClearStop, GoBegins
  <1>11. ASSUME NEW l \in Limits, GoWithoutMoves(l) PROVE MainInPlace'
    BY <1>11 DEF GoWithoutMoves, ClearStop, GoBegins, ResetPonder
  <1>12. ASSUME NEW l \in Limits, GoWithoutRootList(l) PROVE MainInPlace'
    BY <1>12 DEF GoWithoutRootList, ClearStop, GoBegins, ResetPonder
  <1>13. ASSUME NEW l \in Limits, NEW F \in FailedSetups, GoWithoutMain(l, F) PROVE MainInPlace'
    BY <1>13 DEF GoWithoutMain, ClearStop, GoBegins, ResetPonder, SetUpWorkers
  <1>14. ASSUME NEW l \in Limits, NEW F \in FailedSetups, GoDispatches(l, F) PROVE MainInPlace'
    BY <1>14 DEF GoDispatches, ClearStop, GoBegins, ResetPonder, SetUpWorkers
  <1>15. CASE MainBegins
    BY <1>15 DEF MainBegins
  <1>16. CASE StartSibling
    BY <1>16 DEF StartSibling
  <1>17. CASE MainSearches
    BY <1>17 DEF MainSearches
  <1>18. CASE RaiseStop
    BY <1>18 DEF RaiseStop, Raise
  <1>19. CASE CollectSibling
    BY <1>19 DEF CollectSibling
  <1>20. CASE Vote
    BY <1>20 DEF Vote
  <1>21. CASE Report
    BY <1>21 DEF Report
  <1>22. CASE Publish
    BY <1>22 DEF Publish
  <1>23. CASE MainReturns
    BY <1>23 DEF MainReturns
  <1>24. ASSUME NEW w \in Siblings, SiblingBegins(w) PROVE MainInPlace'
    BY <1>24 DEF SiblingBegins
  <1>25. ASSUME NEW w \in Workers, Deepen(w) PROVE MainInPlace'
    BY <1>25 DEF Deepen, DepthReached
  <1>26. ASSUME NEW w \in Workers, DepthLoopEnds(w) PROVE MainInPlace'
    BY <1>26 DEF DepthLoopEnds, DepthReached
  <1>27. ASSUME NEW w \in Workers, Unwind(w) PROVE MainInPlace'
    BY <1>27 DEF Unwind
  <1>28. ASSUME NEW w \in Workers, FindMate(w) PROVE MainInPlace'
    BY <1>28 DEF FindMate, Raise
  <1>29. ASSUME NEW w \in Workers, Complete(w) PROVE MainInPlace'
    BY <1>29 DEF Complete
  <1>30. CASE CheckTime
    BY <1>30 DEF CheckTime, Raise
  <1>31. CASE FailLow
    BY <1>31 DEF FailLow
  <1>32. CASE ArmPonderStop
    BY <1>32 DEF ArmPonderStop
  <1>33. CASE Expire
    BY <1>33 DEF Expire, Raise
  <1>34. CASE TimePasses
    BY <1>34 DEF TimePasses
  <1>35. CASE UNCHANGED vars
    BY <1>35
  <1> QED BY <1>1, <1>2, <1>3, <1>4, <1>5, <1>6, <1>7, <1>8, <1>9, <1>10, <1>11, <1>12,
             <1>13, <1>14, <1>15, <1>16, <1>17, <1>18, <1>19, <1>20, <1>21, <1>22, <1>23,
             <1>24, <1>25, <1>26, <1>27, <1>28, <1>29, <1>30, <1>31, <1>32, <1>33, <1>34,
             <1>35
    DEF Next, Uci, Go, Main, Search, Obey, Exited

LEMMA SiblingsStayInPlace == IInv /\ [Next]_vars => SiblingsInPlace'
  <1> SUFFICES ASSUME IInv, [Next]_vars PROVE SiblingsInPlace'
    OBVIOUS
  <1> USE CountAssumption
      DEF IInv, TypeOK, MainInPlace, SiblingsInPlace, Workers, Siblings, MainAt, vars,
          flags, session, uciVars
  <1>1. CASE Stop
    BY <1>1 DEF Stop, Raise
  <1>2. CASE PonderHit
    BY <1>2 DEF PonderHit
  <1>3. ASSUME NEW c \in Commands, Command(c) PROVE SiblingsInPlace'
    BY <1>3 DEF Command
  <1>4. CASE EndSearchStops
    BY <1>4 DEF EndSearchStops, Raise
  <1>5. CASE EndSearchReturns
    BY <1>5 DEF EndSearchReturns
  <1>6. CASE Apply
    BY <1>6 DEF Apply
  <1>7. CASE Reject
    BY <1>7 DEF Reject, Raise
  <1>8. CASE Shutdown
    BY <1>8 DEF Shutdown
  <1>9. CASE BenchWaits
    BY <1>9 DEF BenchWaits
  <1>10. ASSUME NEW l \in Limits, GoWithoutWorker(l) PROVE SiblingsInPlace'
    BY <1>10 DEF GoWithoutWorker, ClearStop, GoBegins
  <1>11. ASSUME NEW l \in Limits, GoWithoutMoves(l) PROVE SiblingsInPlace'
    BY <1>11 DEF GoWithoutMoves, ClearStop, GoBegins, ResetPonder
  <1>12. ASSUME NEW l \in Limits, GoWithoutRootList(l) PROVE SiblingsInPlace'
    BY <1>12 DEF GoWithoutRootList, ClearStop, GoBegins, ResetPonder
  <1>13. ASSUME NEW l \in Limits, NEW F \in FailedSetups, GoWithoutMain(l, F)
        PROVE  SiblingsInPlace'
    BY <1>13 DEF GoWithoutMain, ClearStop, GoBegins, ResetPonder, SetUpWorkers
  <1>14. ASSUME NEW l \in Limits, NEW F \in FailedSetups, GoDispatches(l, F)
        PROVE  SiblingsInPlace'
    BY <1>14 DEF GoDispatches, ClearStop, GoBegins, ResetPonder, SetUpWorkers
  <1>15. CASE MainBegins
    BY <1>15 DEF MainBegins
  <1>16. CASE StartSibling
    BY <1>16 DEF StartSibling
  <1>17. CASE MainSearches
    BY <1>17 DEF MainSearches
  <1>18. CASE RaiseStop
    BY <1>18 DEF RaiseStop, Raise
  <1>19. CASE CollectSibling
    <2> SUFFICES ASSUME NEW w \in Siblings
                 PROVE /\ phase'[w] # "out" => slot'[w] = "running"
                       /\ slot'[w] # "idle" => at' = "collect" /\ w >= next'
      BY DEF Siblings
    <2>1. /\ next \in Nat /\ next' = next + 1 /\ slot[next] = "idle"
          /\ at = "collect" /\ UNCHANGED <<slot, at, phase>>
      BY <1>19 DEF CollectSibling
    <2>2. slot[w] # "idle" => w \in Nat /\ w >= next /\ w # next
      BY <2>1
    <2> QED BY <2>1, <2>2
  <1>20. CASE Vote
    BY <1>20 DEF Vote
  <1>21. CASE Report
    BY <1>21 DEF Report
  <1>22. CASE Publish
    BY <1>22 DEF Publish
  <1>23. CASE MainReturns
    BY <1>23 DEF MainReturns
  <1>24. ASSUME NEW w \in Siblings, SiblingBegins(w) PROVE SiblingsInPlace'
    BY <1>24 DEF SiblingBegins
  <1>25. ASSUME NEW w \in Workers, Deepen(w) PROVE SiblingsInPlace'
    BY <1>25 DEF Deepen, DepthReached
  <1>26. ASSUME NEW w \in Workers, DepthLoopEnds(w) PROVE SiblingsInPlace'
    BY <1>26 DEF DepthLoopEnds, DepthReached
  <1>27. ASSUME NEW w \in Workers, Unwind(w) PROVE SiblingsInPlace'
    BY <1>27 DEF Unwind
  <1>28. ASSUME NEW w \in Workers, FindMate(w) PROVE SiblingsInPlace'
    BY <1>28 DEF FindMate, Raise
  <1>29. ASSUME NEW w \in Workers, Complete(w) PROVE SiblingsInPlace'
    BY <1>29 DEF Complete
  <1>30. CASE CheckTime
    BY <1>30 DEF CheckTime, Raise
  <1>31. CASE FailLow
    BY <1>31 DEF FailLow
  <1>32. CASE ArmPonderStop
    BY <1>32 DEF ArmPonderStop
  <1>33. CASE Expire
    BY <1>33 DEF Expire, Raise
  <1>34. CASE TimePasses
    BY <1>34 DEF TimePasses
  <1>35. CASE UNCHANGED vars
    BY <1>35
  <1> QED BY <1>1, <1>2, <1>3, <1>4, <1>5, <1>6, <1>7, <1>8, <1>9, <1>10, <1>11, <1>12,
             <1>13, <1>14, <1>15, <1>16, <1>17, <1>18, <1>19, <1>20, <1>21, <1>22, <1>23,
             <1>24, <1>25, <1>26, <1>27, <1>28, <1>29, <1>30, <1>31, <1>32, <1>33, <1>34,
             <1>35
    DEF Next, Uci, Go, Main, Search, Obey, Exited

LEMMA UciStaysInPlace == IInv /\ [Next]_vars => UciInPlace'
  <1> SUFFICES ASSUME IInv, [Next]_vars PROVE UciInPlace'
    OBVIOUS
  <1> USE CountAssumption, BoundsAssumption
      DEF IInv, TypeOK, UciInPlace, MainInPlace, Workers, Siblings, Commands, UciAt,
          vars, flags, session, uciVars
  <1>1. CASE Stop
    BY <1>1 DEF Stop, Raise
  <1>2. CASE PonderHit
    BY <1>2 DEF PonderHit
  <1>3. ASSUME NEW c \in Commands, Command(c) PROVE UciInPlace'
    BY <1>3 DEF Command
  <1>4. CASE EndSearchStops
    BY <1>4 DEF EndSearchStops, Raise
  <1>5. CASE EndSearchReturns
    BY <1>5 DEF EndSearchReturns
  <1>6. CASE Apply
    BY <1>6 DEF Apply
  <1>7. CASE Reject
    BY <1>7 DEF Reject, Raise
  <1>8. CASE Shutdown
    BY <1>8 DEF Shutdown
  <1>9. CASE BenchWaits
    BY <1>9 DEF BenchWaits
  <1>10. ASSUME NEW l \in Limits, GoWithoutWorker(l) PROVE UciInPlace'
    BY <1>10 DEF GoWithoutWorker, ClearStop, GoBegins
  <1>11. ASSUME NEW l \in Limits, GoWithoutMoves(l) PROVE UciInPlace'
    BY <1>11 DEF GoWithoutMoves, ClearStop, GoBegins, ResetPonder
  <1>12. ASSUME NEW l \in Limits, GoWithoutRootList(l) PROVE UciInPlace'
    BY <1>12 DEF GoWithoutRootList, ClearStop, GoBegins, ResetPonder
  <1>13. ASSUME NEW l \in Limits, NEW F \in FailedSetups, GoWithoutMain(l, F) PROVE UciInPlace'
    BY <1>13 DEF GoWithoutMain, ClearStop, GoBegins, ResetPonder, SetUpWorkers
  <1>14. ASSUME NEW l \in Limits, NEW F \in FailedSetups, GoDispatches(l, F) PROVE UciInPlace'
    BY <1>14 DEF GoDispatches, ClearStop, GoBegins, ResetPonder, SetUpWorkers
  <1>15. CASE MainBegins
    BY <1>15 DEF MainBegins
  <1>16. CASE StartSibling
    BY <1>16 DEF StartSibling
  <1>17. CASE MainSearches
    BY <1>17 DEF MainSearches
  <1>18. CASE RaiseStop
    BY <1>18 DEF RaiseStop, Raise
  <1>19. CASE CollectSibling
    BY <1>19 DEF CollectSibling
  <1>20. CASE Vote
    BY <1>20 DEF Vote
  <1>21. CASE Report
    BY <1>21 DEF Report
  <1>22. CASE Publish
    BY <1>22 DEF Publish
  <1>23. CASE MainReturns
    BY <1>23 DEF MainReturns
  <1>24. ASSUME NEW w \in Siblings, SiblingBegins(w) PROVE UciInPlace'
    BY <1>24 DEF SiblingBegins
  <1>25. ASSUME NEW w \in Workers, Deepen(w) PROVE UciInPlace'
    BY <1>25 DEF Deepen, DepthReached
  <1>26. ASSUME NEW w \in Workers, DepthLoopEnds(w) PROVE UciInPlace'
    BY <1>26 DEF DepthLoopEnds, DepthReached
  <1>27. ASSUME NEW w \in Workers, Unwind(w) PROVE UciInPlace'
    BY <1>27 DEF Unwind
  <1>28. ASSUME NEW w \in Workers, FindMate(w) PROVE UciInPlace'
    BY <1>28 DEF FindMate, Raise
  <1>29. ASSUME NEW w \in Workers, Complete(w) PROVE UciInPlace'
    BY <1>29 DEF Complete
  <1>30. CASE CheckTime
    BY <1>30 DEF CheckTime, Raise
  <1>31. CASE FailLow
    BY <1>31 DEF FailLow
  <1>32. CASE ArmPonderStop
    BY <1>32 DEF ArmPonderStop
  <1>33. CASE Expire
    BY <1>33 DEF Expire, Raise
  <1>34. CASE TimePasses
    BY <1>34 DEF TimePasses
  <1>35. CASE UNCHANGED vars
    BY <1>35
  <1> QED BY <1>1, <1>2, <1>3, <1>4, <1>5, <1>6, <1>7, <1>8, <1>9, <1>10, <1>11, <1>12,
             <1>13, <1>14, <1>15, <1>16, <1>17, <1>18, <1>19, <1>20, <1>21, <1>22, <1>23,
             <1>24, <1>25, <1>26, <1>27, <1>28, <1>29, <1>30, <1>31, <1>32, <1>33, <1>34,
             <1>35
    DEF Next, Uci, Go, Main, Search, Obey, Exited

LEMMA EachAccounted == IInv /\ [Next]_vars => Accounted'
  <1> SUFFICES ASSUME IInv, [Next]_vars PROVE Accounted'
    OBVIOUS
  <1> USE CountAssumption, BoundsAssumption
      DEF IInv, TypeOK, UciInPlace, MainInPlace, Accounted, Owed, Workers, Siblings,
          Commands, UciAt, vars, flags, session, uciVars
  <1>1. CASE Stop
    BY <1>1 DEF Stop, Raise
  <1>2. CASE PonderHit
    BY <1>2 DEF PonderHit
  <1>3. ASSUME NEW c \in Commands, Command(c) PROVE Accounted'
    BY <1>3 DEF Command
  <1>4. CASE EndSearchStops
    BY <1>4 DEF EndSearchStops, Raise
  <1>5. CASE EndSearchReturns
    BY <1>5 DEF EndSearchReturns
  <1>6. CASE Apply
    BY <1>6 DEF Apply
  <1>7. CASE Reject
    BY <1>7 DEF Reject, Raise
  <1>8. CASE Shutdown
    BY <1>8 DEF Shutdown
  <1>9. CASE BenchWaits
    BY <1>9 DEF BenchWaits
  <1>10. ASSUME NEW l \in Limits, GoWithoutWorker(l) PROVE Accounted'
    BY <1>10 DEF GoWithoutWorker, ClearStop, GoBegins
  <1>11. ASSUME NEW l \in Limits, GoWithoutMoves(l) PROVE Accounted'
    BY <1>11 DEF GoWithoutMoves, ClearStop, GoBegins, ResetPonder
  <1>12. ASSUME NEW l \in Limits, GoWithoutRootList(l) PROVE Accounted'
    BY <1>12 DEF GoWithoutRootList, ClearStop, GoBegins, ResetPonder
  <1>13. ASSUME NEW l \in Limits, NEW F \in FailedSetups, GoWithoutMain(l, F) PROVE Accounted'
    BY <1>13 DEF GoWithoutMain, ClearStop, GoBegins, ResetPonder, SetUpWorkers
  <1>14. ASSUME NEW l \in Limits, NEW F \in FailedSetups, GoDispatches(l, F) PROVE Accounted'
    BY <1>14 DEF GoDispatches, ClearStop, GoBegins, ResetPonder, SetUpWorkers
  <1>15. CASE MainBegins
    BY <1>15 DEF MainBegins
  <1>16. CASE StartSibling
    BY <1>16 DEF StartSibling
  <1>17. CASE MainSearches
    BY <1>17 DEF MainSearches
  <1>18. CASE RaiseStop
    BY <1>18 DEF RaiseStop, Raise
  <1>19. CASE CollectSibling
    BY <1>19 DEF CollectSibling
  <1>20. CASE Vote
    BY <1>20 DEF Vote
  <1>21. CASE Report
    BY <1>21 DEF Report
  <1>22. CASE Publish
    BY <1>22 DEF Publish
  <1>23. CASE MainReturns
    BY <1>23 DEF MainReturns
  <1>24. ASSUME NEW w \in Siblings, SiblingBegins(w) PROVE Accounted'
    BY <1>24 DEF SiblingBegins
  <1>25. ASSUME NEW w \in Workers, Deepen(w) PROVE Accounted'
    BY <1>25 DEF Deepen, DepthReached
  <1>26. ASSUME NEW w \in Workers, DepthLoopEnds(w) PROVE Accounted'
    BY <1>26 DEF DepthLoopEnds, DepthReached
  <1>27. ASSUME NEW w \in Workers, Unwind(w) PROVE Accounted'
    BY <1>27 DEF Unwind
  <1>28. ASSUME NEW w \in Workers, FindMate(w) PROVE Accounted'
    BY <1>28 DEF FindMate, Raise
  <1>29. ASSUME NEW w \in Workers, Complete(w) PROVE Accounted'
    BY <1>29 DEF Complete
  <1>30. CASE CheckTime
    BY <1>30 DEF CheckTime, Raise
  <1>31. CASE FailLow
    BY <1>31 DEF FailLow
  <1>32. CASE ArmPonderStop
    BY <1>32 DEF ArmPonderStop
  <1>33. CASE Expire
    BY <1>33 DEF Expire, Raise
  <1>34. CASE TimePasses
    BY <1>34 DEF TimePasses
  <1>35. CASE UNCHANGED vars
    BY <1>35
  <1> QED BY <1>1, <1>2, <1>3, <1>4, <1>5, <1>6, <1>7, <1>8, <1>9, <1>10, <1>11, <1>12,
             <1>13, <1>14, <1>15, <1>16, <1>17, <1>18, <1>19, <1>20, <1>21, <1>22, <1>23,
             <1>24, <1>25, <1>26, <1>27, <1>28, <1>29, <1>30, <1>31, <1>32, <1>33, <1>34,
             <1>35
    DEF Next, Uci, Go, Main, Search, Obey, Exited

LEMMA StaysFresh == IInv /\ [Next]_vars => Fresh'
  <1> SUFFICES ASSUME IInv, [Next]_vars PROVE Fresh'
    OBVIOUS
  <1> USE CountAssumption
      DEF IInv, TypeOK, UciInPlace, MainInPlace, Fresh, Workers, Siblings, Commands,
          UciAt, vars, flags, session, uciVars
  <1>1. CASE Stop
    BY <1>1 DEF Stop, Raise
  <1>2. CASE PonderHit
    BY <1>2 DEF PonderHit
  <1>3. ASSUME NEW c \in Commands, Command(c) PROVE Fresh'
    BY <1>3 DEF Command
  <1>4. CASE EndSearchStops
    BY <1>4 DEF EndSearchStops, Raise
  <1>5. CASE EndSearchReturns
    BY <1>5 DEF EndSearchReturns
  <1>6. CASE Apply
    BY <1>6 DEF Apply
  <1>7. CASE Reject
    BY <1>7 DEF Reject, Raise
  <1>8. CASE Shutdown
    BY <1>8 DEF Shutdown
  <1>9. CASE BenchWaits
    BY <1>9 DEF BenchWaits
  <1>10. ASSUME NEW l \in Limits, GoWithoutWorker(l) PROVE Fresh'
    BY <1>10 DEF GoWithoutWorker, ClearStop, GoBegins
  <1>11. ASSUME NEW l \in Limits, GoWithoutMoves(l) PROVE Fresh'
    BY <1>11 DEF GoWithoutMoves, ClearStop, GoBegins, ResetPonder
  <1>12. ASSUME NEW l \in Limits, GoWithoutRootList(l) PROVE Fresh'
    BY <1>12 DEF GoWithoutRootList, ClearStop, GoBegins, ResetPonder
  <1>13. ASSUME NEW l \in Limits, NEW F \in FailedSetups, GoWithoutMain(l, F) PROVE Fresh'
    BY <1>13 DEF GoWithoutMain, ClearStop, GoBegins, ResetPonder, SetUpWorkers
  <1>14. ASSUME NEW l \in Limits, NEW F \in FailedSetups, GoDispatches(l, F) PROVE Fresh'
    BY <1>14 DEF GoDispatches, ClearStop, GoBegins, ResetPonder, SetUpWorkers
  <1>15. CASE MainBegins
    BY <1>15 DEF MainBegins
  <1>16. CASE StartSibling
    BY <1>16 DEF StartSibling
  <1>17. CASE MainSearches
    BY <1>17 DEF MainSearches
  <1>18. CASE RaiseStop
    BY <1>18 DEF RaiseStop, Raise
  <1>19. CASE CollectSibling
    BY <1>19 DEF CollectSibling
  <1>20. CASE Vote
    BY <1>20 DEF Vote
  <1>21. CASE Report
    BY <1>21 DEF Report
  <1>22. CASE Publish
    BY <1>22 DEF Publish
  <1>23. CASE MainReturns
    BY <1>23 DEF MainReturns
  <1>24. ASSUME NEW w \in Siblings, SiblingBegins(w) PROVE Fresh'
    BY <1>24 DEF SiblingBegins
  <1>25. ASSUME NEW w \in Workers, Deepen(w) PROVE Fresh'
    BY <1>25 DEF Deepen, DepthReached
  <1>26. ASSUME NEW w \in Workers, DepthLoopEnds(w) PROVE Fresh'
    BY <1>26 DEF DepthLoopEnds, DepthReached
  <1>27. ASSUME NEW w \in Workers, Unwind(w) PROVE Fresh'
    BY <1>27 DEF Unwind
  <1>28. ASSUME NEW w \in Workers, FindMate(w) PROVE Fresh'
    BY <1>28 DEF FindMate, Raise
  <1>29. ASSUME NEW w \in Workers, Complete(w) PROVE Fresh'
    BY <1>29 DEF Complete
  <1>30. CASE CheckTime
    BY <1>30 DEF CheckTime, Raise
  <1>31. CASE FailLow
    BY <1>31 DEF FailLow
  <1>32. CASE ArmPonderStop
    BY <1>32 DEF ArmPonderStop
  <1>33. CASE Expire
    BY <1>33 DEF Expire, Raise
  <1>34. CASE TimePasses
    BY <1>34 DEF TimePasses
  <1>35. CASE UNCHANGED vars
    BY <1>35
  <1> QED BY <1>1, <1>2, <1>3, <1>4, <1>5, <1>6, <1>7, <1>8, <1>9, <1>10, <1>11, <1>12,
             <1>13, <1>14, <1>15, <1>16, <1>17, <1>18, <1>19, <1>20, <1>21, <1>22, <1>23,
             <1>24, <1>25, <1>26, <1>27, <1>28, <1>29, <1>30, <1>31, <1>32, <1>33, <1>34,
             <1>35
    DEF Next, Uci, Go, Main, Search, Obey, Exited

-------------------------------------------------------------------------------

LEMMA SumInBounds ==
    ASSUME NEW n \in Nat, NEW a \in 0 .. n, NEW x \in Nat, NEW l \in Nat, NEW o \in Nat,
           a = x + l + o
    PROVE  x \in 0 .. n /\ l \in 0 .. n
  OBVIOUS

LEMMA StepKeepsIInv == IInv /\ [Next]_vars => IInv'
  <1> SUFFICES ASSUME IInv, [Next]_vars PROVE IInv'
    OBVIOUS
  <1>1. UciTypeOK' /\ SearchTypeOK' /\ MainTypeOK'
    BY UciTyped, SearchTyped, MainTyped
  <1>2. Accounted'
    BY EachAccounted
  <1>3. lost' \in 0 .. MaxGos /\ answered' \in 0 .. MaxGos
    <2>1. Owed' \in {0, 1}
      BY DEF Owed
    <2>2. asked' \in 0 .. MaxGos /\ lost' \in Nat /\ answered' \in Nat /\ MaxGos \in Nat
      BY <1>1, BoundsAssumption DEF UciTypeOK
    <2>3. asked' = answered' + lost' + Owed'
      BY <1>2 DEF Accounted
    <2>4. PICK o \in Nat : o = Owed'
      BY <2>1
    <2> QED BY <2>2, <2>3, <2>4, SumInBounds
  <1>4. TypeOK'
    BY <1>1, <1>3 DEF TypeOK, UciTypeOK, SearchTypeOK, MainTypeOK
  <1> QED BY <1>2, <1>4, MainStaysInPlace, SiblingsStayInPlace, UciStaysInPlace, StaysFresh
          DEF IInv

(* The inductive invariant holds: every variable stays within its type and *)
(* its bound, and each thread is where the others believe it is.           *)
THEOREM SessionIsTyped == Spec => []IInv
  BY InitHolds, StepKeepsIInv, PTL DEF Spec

(* No command changes what a search reads, and no vote reads what a sibling *)
(* still writes, although each waits for some threads only (search.c:595,  *)
(* uci.c:626-632): whatever the number of siblings.                        *)
THEOREM NobodyIsEverInTheWay == Spec => []NobodyInTheWay
  <1>1. IInv => NobodyInTheWay
    <2> SUFFICES ASSUME IInv PROVE NobodyInTheWay
      OBVIOUS
    <2>1. MainInPlace /\ SiblingsInPlace /\ UciInPlace
      BY DEF IInv
    <2>2. ASSUME slot[0] = "idle", NEW w \in Workers PROVE slot[w] = "idle"
      <3>1. at = "out"
        BY <2>1, <2>2 DEF MainInPlace
      <3>2. w = 0 \/ w \in Siblings
        BY CountAssumption DEF Workers, Siblings
      <3> QED BY <2>1, <2>2, <3>1, <3>2 DEF SiblingsInPlace
    <2>3. QuietWhileChanging
      BY <2>1, <2>2 DEF QuietWhileChanging, UciInPlace
    <2>4. VoteIsQuiet
      BY <2>1 DEF VoteIsQuiet, SiblingsInPlace
    <2> QED BY <2>3, <2>4 DEF NobodyInTheWay
  <1> QED BY <1>1, SessionIsTyped, PTL

(* The flag that ends a search was raised during its own `go`, by the GUI, *)
(* a limit or a mate: never left over from the search before.              *)
THEOREM StopsAreFresh == Spec => []StopIsFresh
  <1>1. IInv => StopIsFresh
    BY DEF IInv, StopIsFresh, Fresh, MainInPlace
  <1> QED BY <1>1, SessionIsTyped, PTL

-------------------------------------------------------------------------------
(* The refinement of UciProtocol *)

LEMMA InitIsProtocolInit == Init => Protocol!ProtocolInit
  BY DEF Init, Protocol!ProtocolInit

\* What the protocol sees of a state.
Seen == <<asked, lost, answered, board, ui # "off">>

LEMMA SeenStutters == UNCHANGED Seen => UNCHANGED Protocol!protocolVars
  BY DEF Seen, Protocol!protocolVars

\* With worker 0's thread idle nothing is owed.
LEMMA IdleIsQuiet == IInv /\ slot[0] = "idle" /\ ui # "off" => Protocol!Quiet
  <1> SUFFICES ASSUME IInv, slot[0] = "idle", ui # "off" PROVE Protocol!Quiet
    OBVIOUS
  <1>1. asked \in Int /\ lost \in Int /\ answered \in Int
    BY DEF IInv, TypeOK
  <1>2. asked = answered + lost
    BY <1>1 DEF IInv, Accounted, Owed
  <1> QED BY <1>1, <1>2 DEF Protocol!Quiet

LEMMA StepIsProtocolStep == IInv /\ [Next]_vars => [Protocol!ProtocolNext]_(Protocol!protocolVars)
  <1> SUFFICES ASSUME IInv, [Next]_vars PROVE [Protocol!ProtocolNext]_(Protocol!protocolVars)
    OBVIOUS
  <1> USE DEF vars, flags, session, uciVars
  <1>1. CASE Stop
    BY <1>1, SeenStutters DEF Seen, Stop, Raise
  <1>2. CASE PonderHit
    BY <1>2, SeenStutters DEF Seen, PonderHit
  <1>3. ASSUME NEW c \in Commands, Command(c)
        PROVE  [Protocol!ProtocolNext]_(Protocol!protocolVars)
    BY <1>3, SeenStutters DEF Seen, Command
  <1>4. CASE EndSearchStops
    BY <1>4, SeenStutters DEF Seen, EndSearchStops, Raise
  <1>5. CASE EndSearchReturns
    <2>1. cmd # "off"
      BY DEF IInv, TypeOK, Commands
    <2> QED BY <1>5, <2>1, SeenStutters DEF EndSearchReturns, Seen
  <1>6. CASE Apply
    <2>1. Protocol!Quiet
      BY <1>6, IdleIsQuiet DEF Apply, IInv, UciInPlace
    <2>2. CASE board' = board
      BY <1>6, <2>2, SeenStutters DEF Apply, Seen
    <2>3. CASE board' = board + 1
      BY <1>6, <2>1, <2>3 DEF Apply, Protocol!Change, Protocol!ProtocolNext
    <2> QED BY <1>6, <2>2, <2>3 DEF Apply
  <1>7. CASE Reject
    BY <1>7, SeenStutters DEF Seen, Reject, Raise
  <1>8. CASE Shutdown
    <2>1. Protocol!Quiet
      BY <1>8, IdleIsQuiet DEF Shutdown
    <2> QED BY <1>8, <2>1 DEF Shutdown, Protocol!Leave, Protocol!ProtocolNext
  <1>9. CASE BenchWaits
    BY <1>9, SeenStutters DEF Seen, BenchWaits
  <1>10. ASSUME NEW l \in Limits, GoWithoutWorker(l)
        PROVE  [Protocol!ProtocolNext]_(Protocol!protocolVars)
    <2>1. /\ asked' = asked + 1 /\ lost' = lost + 1 /\ answered' = answered
          /\ board' = board /\ ui # "off" /\ ui' # "off"
      BY <1>10 DEF GoWithoutWorker, GoBegins
    <2> QED BY <2>1 DEF Protocol!protocolVars, IInv, TypeOK
  <1>11. ASSUME NEW l \in Limits, GoWithoutMoves(l)
        PROVE  [Protocol!ProtocolNext]_(Protocol!protocolVars)
    <2>1. Protocol!Quiet
      BY <1>11, IdleIsQuiet DEF GoWithoutMoves, GoBegins
    <2>2. /\ asked' = asked + 1 /\ lost' = lost /\ answered' = answered + 1
          /\ board' = board /\ ui # "off" /\ ui' # "off"
      BY <1>11 DEF GoWithoutMoves, GoBegins
    <2> QED BY <2>1, <2>2 DEF Protocol!AskTerminal, Protocol!ProtocolNext, IInv, TypeOK
  <1>12. ASSUME NEW l \in Limits, GoWithoutRootList(l)
        PROVE  [Protocol!ProtocolNext]_(Protocol!protocolVars)
    <2>1. /\ asked' = asked + 1 /\ lost' = lost + 1 /\ answered' = answered
          /\ board' = board /\ ui # "off" /\ ui' # "off"
      BY <1>12 DEF GoWithoutRootList, GoBegins
    <2> QED BY <2>1 DEF Protocol!protocolVars, IInv, TypeOK
  <1>13. ASSUME NEW l \in Limits, NEW F \in FailedSetups, GoWithoutMain(l, F)
        PROVE  [Protocol!ProtocolNext]_(Protocol!protocolVars)
    <2>1. /\ asked' = asked + 1 /\ lost' = lost + 1 /\ answered' = answered
          /\ board' = board /\ ui # "off" /\ ui' # "off"
      BY <1>13 DEF GoWithoutMain, GoBegins
    <2> QED BY <2>1 DEF Protocol!protocolVars, IInv, TypeOK
  <1>14. ASSUME NEW l \in Limits, NEW F \in FailedSetups, GoDispatches(l, F)
        PROVE  [Protocol!ProtocolNext]_(Protocol!protocolVars)
    <2>1. Protocol!Quiet
      BY <1>14, IdleIsQuiet DEF GoDispatches, GoBegins
    <2>2. /\ asked' = asked + 1 /\ lost' = lost /\ answered' = answered
          /\ board' = board /\ ui # "off" /\ ui' # "off"
      BY <1>14 DEF GoDispatches, GoBegins
    <2> QED BY <2>1, <2>2 DEF Protocol!Ask, Protocol!ProtocolNext, IInv, TypeOK
  <1>15. CASE MainBegins
    BY <1>15, SeenStutters DEF Seen, MainBegins
  <1>16. CASE StartSibling
    BY <1>16, SeenStutters DEF Seen, StartSibling
  <1>17. CASE MainSearches
    BY <1>17, SeenStutters DEF Seen, MainSearches
  <1>18. CASE RaiseStop
    BY <1>18, SeenStutters DEF Seen, RaiseStop, Raise
  <1>19. CASE CollectSibling
    BY <1>19, SeenStutters DEF Seen, CollectSibling
  <1>20. CASE Vote
    <2>1. ui # "off"
      BY <1>20 DEF Vote, IInv, MainInPlace, UciInPlace
    <2> QED BY <1>20, <2>1, SeenStutters DEF Vote, Seen
  <1>21. CASE Report
    <2>1. slot[0] # "idle" /\ Owed = 1 /\ ui # "off"
      BY <1>21 DEF Report, Owed, IInv, MainInPlace, UciInPlace
    <2>2. answered < asked - lost
      BY <2>1 DEF IInv, TypeOK, Accounted
    <2> QED BY <1>21, <2>1, <2>2 DEF Report, Protocol!Answer, Protocol!ProtocolNext
  <1>22. CASE Publish
    BY <1>22, SeenStutters DEF Seen, Publish
  <1>23. CASE MainReturns
    BY <1>23, SeenStutters DEF Seen, MainReturns
  <1>24. ASSUME NEW w \in Siblings, SiblingBegins(w)
        PROVE  [Protocol!ProtocolNext]_(Protocol!protocolVars)
    BY <1>24, SeenStutters DEF Seen, SiblingBegins
  <1>25. ASSUME NEW w \in Workers, Deepen(w) PROVE [Protocol!ProtocolNext]_(Protocol!protocolVars)
    BY <1>25, SeenStutters DEF Seen, Deepen, DepthReached
  <1>26. ASSUME NEW w \in Workers, DepthLoopEnds(w)
        PROVE  [Protocol!ProtocolNext]_(Protocol!protocolVars)
    BY <1>26, SeenStutters DEF Seen, DepthLoopEnds, DepthReached
  <1>27. ASSUME NEW w \in Workers, Unwind(w) PROVE [Protocol!ProtocolNext]_(Protocol!protocolVars)
    BY <1>27, SeenStutters DEF Seen, Unwind
  <1>28. ASSUME NEW w \in Workers, FindMate(w)
        PROVE  [Protocol!ProtocolNext]_(Protocol!protocolVars)
    BY <1>28, SeenStutters DEF Seen, FindMate, Raise
  <1>29. ASSUME NEW w \in Workers, Complete(w)
        PROVE  [Protocol!ProtocolNext]_(Protocol!protocolVars)
    BY <1>29, SeenStutters DEF Seen, Complete
  <1>30. CASE CheckTime
    BY <1>30, SeenStutters DEF Seen, CheckTime, Raise
  <1>31. CASE FailLow
    BY <1>31, SeenStutters DEF Seen, FailLow
  <1>32. CASE ArmPonderStop
    BY <1>32, SeenStutters DEF Seen, ArmPonderStop
  <1>33. CASE Expire
    BY <1>33, SeenStutters DEF Seen, Expire, Raise
  <1>34. CASE TimePasses
    BY <1>34, SeenStutters DEF Seen, TimePasses
  <1>35. CASE UNCHANGED vars
    BY <1>35, SeenStutters DEF Seen
  <1> QED BY <1>1, <1>2, <1>3, <1>4, <1>5, <1>6, <1>7, <1>8, <1>9, <1>10, <1>11, <1>12,
             <1>13, <1>14, <1>15, <1>16, <1>17, <1>18, <1>19, <1>20, <1>21, <1>22, <1>23,
             <1>24, <1>25, <1>26, <1>27, <1>28, <1>29, <1>30, <1>31, <1>32, <1>33, <1>34,
             <1>35
    DEF Next, Uci, Go, Main, Search, Obey, Exited

(* The session implements the protocol: a `go` there is memory for is      *)
(* answered by one `bestmove`, before the next; nothing changes meanwhile. *)
THEOREM ImplementsProtocol == Spec => ProtocolSafety
  <1>1. IInv /\ [Next]_vars => [Protocol!ProtocolNext]_(Protocol!protocolVars)
    BY StepIsProtocolStep
  <1> QED BY <1>1, InitIsProtocolInit, SessionIsTyped, PTL
          DEF Spec, ProtocolSafety, Protocol!ProtocolSafety

===============================================================================
