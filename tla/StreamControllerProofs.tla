----------------------- MODULE StreamControllerProofs -----------------------
(***************************************************************************)
(* Theorems about StreamController for every number of restart attempts,   *)
(* every frozen period and any number of commands, and the safety part of  *)
(* its refinement of StreamLife: each step of the stream process is a step *)
(* of StreamLife or leaves it alone.                                       *)
(***************************************************************************)
EXTENDS StreamRefinement, TLAPS

\* A share of the frozen period, taken at most as often as there are attempts,
\* does not exceed the period.
LEMMA ShareBound ==
    ASSUME NEW n \in 0 .. MaxRestartAttempts
    PROVE  BackOffSec(n) \in 0 .. RestartAfterFrozenSec
<1> DEFINE q == RestartAfterFrozenSec \div MaxRestartAttempts
<1>1. q \in Nat
  BY AttemptsAssumption, FrozenAssumption
<1>2. MaxRestartAttempts * q <= RestartAfterFrozenSec
  BY AttemptsAssumption, FrozenAssumption
<1>3. n * q <= MaxRestartAttempts * q /\ n * q \in Nat
  <2> HIDE DEF q
  <2> QED  BY <1>1, AttemptsAssumption
<1> QED  BY <1>2, <1>3, FrozenAssumption, AttemptsAssumption DEF BackOffSec

\* More attempts, no shorter wait.
LEMMA ShareGrows ==
    ASSUME NEW m \in Nat, NEW n \in Nat, m <= n
    PROVE  BackOffSec(m) <= BackOffSec(n)
<1> DEFINE q == RestartAfterFrozenSec \div MaxRestartAttempts
<1>1. q \in Nat
  BY AttemptsAssumption, FrozenAssumption
<1>2. m * q <= n * q
  <2> HIDE DEF q
  <2> QED  BY <1>1
<1> QED  BY <1>2 DEF BackOffSec

-----------------------------------------------------------------------------
(***************************************************************************)
(* The inductive invariant. None of the invariants of the runs is inductive *)
(* by itself: each needs to know where the control thread is.              *)
(***************************************************************************)

\* After a stop, a second stream cannot be begun, because its turn would start
\* at the top of the loop; nor a second back-off.
StopInv ==
    /\ starts \in {0, 1} /\ waits \in {0, 1}
    /\ starts = 1 => stop /\ pc \notin {"init", "find", "chunk_lock", "chunk_wait", "create"}
    /\ waits = 1 => stop /\ pc \in {"waiting", "top", "join", "joining", "exited", "crashed"}

\* restart_attempts_ is the number of failures in a row, taken back to zero by
\* the one that froze the stream, and wait_time is what the failure made it.
BackOffInv ==
    /\ attempts = IF fails = MaxRestartAttempts THEN 0 ELSE fails
    /\ fails \in 1 .. MaxRestartAttempts - 1 => waitTime = BackOffSec(fails)
    /\ FrozenAfterMaxFailures

\* Where origin_ is certainly null, and what the status is at the places that
\* depend on it.
OriginInv ==
    /\ pc \notin {"pipeline", "armed", "running", "post", "destroy", "null", "crashed"}
           => origin = "null"
    /\ ParkedHasNoStream
    /\ pc \in {"null", "decide"} => status = "NEW"

\* Once played, a VOD is on its way out.
VodInv ==
    IsVod /\ ran =>
        pc \in {"running", "post", "destroy", "null", "decide", "join", "joining", "exited", "crashed"}

IndInv == TypeOK /\ StopInv /\ BackOffInv /\ OriginInv /\ VodInv

\* The invariant holds initially.
LEMMA InitIndInv == Init => IndInv
<1> SUFFICES ASSUME Init  PROVE IndInv
  OBVIOUS
<1>1. /\ stop \in BOOLEAN /\ signalled \in BOOLEAN /\ running \in BOOLEAN
      /\ longAgo \in BOOLEAN /\ eof \in BOOLEAN /\ ran \in BOOLEAN
  BY Zenon DEF Init
<1>2. ttl \in BOOLEAN
  BY TtlAssumption DEF Init
<1>3. TypeOK
  BY <1>1, <1>2, AttemptsAssumption, FrozenAssumption, CommandsAssumption
  DEF Init, TypeOK, Pcs, Exits
<1>4. StopInv /\ BackOffInv /\ OriginInv /\ VodInv
  BY AttemptsAssumption
  DEF Init, StopInv, BackOffInv, OriginInv, VodInv, FrozenAfterMaxFailures, ParkedHasNoStream
<1> QED  BY <1>3, <1>4 DEF IndInv

\* Every step of every thread preserves it.
LEMMA StepIndInv == IndInv /\ [Next]_vars => IndInv'
<1> SUFFICES ASSUME IndInv, [Next]_vars  PROVE IndInv'
  OBVIOUS
<1> USE AttemptsAssumption, FrozenAssumption, CommandsAssumption
    DEF IndInv, TypeOK, StopInv, BackOffInv, OriginInv, VodInv, FrozenAfterMaxFailures,
    ParkedHasNoStream, IsVod, Pcs, Exits, control, stream, loop, history
<1>1. CASE InitController
  BY <1>1 DEF InitController
<1>2. CASE LoopTop
  BY <1>2 DEF LoopTop
<1>3. CASE FindChunkToPlay
  BY <1>3 DEF FindChunkToPlay
<1>4. CASE ChunkWait
  <2>1. signalled' \in BOOLEAN  BY <1>4, Zenon DEF ChunkWait
  <2> QED  BY <1>4, <2>1 DEF ChunkWait
<1>5. CASE CreateStream
  <2>1. ran' \in BOOLEAN
    <3>1. ran' \in {FALSE, ran}  BY <1>5, Zenon DEF CreateStream
    <3> QED  BY <3>1, Zenon
  <2> QED  BY <1>5, <2>1 DEF CreateStream, Constructed, CountAfterStop, Reallocated
<1>6. CASE InitPipeLine
  <2>1. longAgo' \in BOOLEAN
    <3>1. longAgo' \in {FALSE, longAgo}  BY <1>6, Zenon DEF InitPipeLine
    <3> QED  BY <3>1, Zenon
  <2> QED  BY <1>6, <2>1 DEF InitPipeLine
<1>7. CASE RunMainLoop
  <2>1. running' \in BOOLEAN /\ ran' \in BOOLEAN  BY <1>7, Zenon DEF RunMainLoop
  <2> QED  BY <1>7, <2>1 DEF RunMainLoop
<1>8. CASE MainLoopReturns
  BY <1>8 DEF MainLoopReturns
<1>9. CASE FinishExec
  BY <1>9 DEF FinishExec
<1>10. CASE DeleteOrigin
  BY <1>10 DEF DeleteOrigin
<1>11. CASE NullOrigin
  BY <1>11 DEF NullOrigin
<1>12. CASE VodFinished
  BY <1>12 DEF VodFinished
<1>13. CASE RestartAtOnce
  BY <1>13 DEF RestartAtOnce
<1>14. CASE BackOff
  BY <1>14, ShareBound DEF BackOff, IsLastAttempt
<1>15. CASE BackOffWait
  <2>1. signalled' \in BOOLEAN  BY <1>15, Zenon DEF BackOffWait
  <2> QED  BY <1>15, <2>1 DEF BackOffWait, CountAfterStop
<1>16. CASE StopLoop
  BY <1>16 DEF StopLoop
<1>17. CASE JoinLoopThread
  BY <1>17 DEF JoinLoopThread
<1>18. CASE ChunkWakeTimeout
  BY <1>18 DEF ChunkWakeTimeout
<1>19. CASE BackOffWakeTimeout
  BY <1>19 DEF BackOffWakeTimeout
<1>20. CASE ChunkWakeNotified
  BY <1>20 DEF ChunkWakeNotified
<1>21. CASE BackOffWakeNotified
  BY <1>21 DEF BackOffWakeNotified
<1>22. CASE Notify
  BY <1>22 DEF Notify
<1>23. CASE ReadOrigin
  BY <1>23 DEF ReadOrigin
<1>24. CASE PostQuit
  BY <1>24 DEF PostQuit, LoopDone
<1>25. CASE QuitMainLoop
  <2>1. running' \in BOOLEAN  BY <1>25, Zenon DEF QuitMainLoop
  <2> QED  BY <1>25, <2>1 DEF QuitMainLoop
<1>26. CASE StoreExitStatus
  BY <1>26 DEF StoreExitStatus, LoopDone
<1>27. CASE UseAfterFree
  BY <1>27 DEF UseAfterFree, LoopDone
<1>28. CASE ReadError
  BY <1>28 DEF ReadError, LoopServes
<1>29. CASE PipelineQuitsLoop
  <2>1. running' \in BOOLEAN  BY <1>29, Zenon DEF PipelineQuitsLoop
  <2> QED  BY <1>29, <2>1 DEF PipelineQuitsLoop
<1>30. CASE PipelineStoresStatus
  BY <1>30 DEF PipelineStoresStatus
<1>31. CASE PipeClosed
  <2>1. eof' \in BOOLEAN  BY <1>31, Zenon DEF PipeClosed
  <2> QED  BY <1>31, <2>1 DEF PipeClosed
<1>32. CASE TimerEmited
  <2>1. ttl' \in BOOLEAN  BY <1>32, Zenon DEF TimerEmited
  <2> QED  BY <1>32, <2>1 DEF TimerEmited, LoopServes
<1>33. CASE StateChanged
  BY <1>33 DEF StateChanged
<1>34. CASE PipelineQuit
  BY <1>34 DEF PipelineQuit, QuitStatuses
<1>35. CASE TimePasses
  <2>1. longAgo' \in BOOLEAN  BY <1>35, Zenon DEF TimePasses
  <2> QED  BY <1>35, <2>1 DEF TimePasses
<1>36. CASE Terminated
  BY <1>36 DEF Terminated, vars
<1>37. CASE \E m \in Messages : DataReceived(m)
  BY <1>37 DEF DataReceived, LoopServes, Messages
<1>38. CASE UNCHANGED vars
  BY <1>38 DEF vars
<1> HIDE DEF IndInv
<1> QED  BY <1>1, <1>2, <1>3, <1>4, <1>5, <1>6, <1>7, <1>8, <1>9, <1>10,
         <1>11, <1>12, <1>13, <1>14, <1>15, <1>16, <1>17, <1>18, <1>19, <1>20,
         <1>21, <1>22, <1>23, <1>24, <1>25, <1>26, <1>27, <1>28, <1>29, <1>30,
         <1>31, <1>32, <1>33, <1>34, <1>35, <1>36, <1>37, <1>38
  DEF Next, ControlStep, WakeTimeout, WakeNotified, LoopStep, QuitStep, Environment
-----------------------------------------------------------------------------
\* The inductive invariant holds in every state the process can reach.
THEOREM Invariance == Spec => []IndInv
<1>1. Init => IndInv  BY InitIndInv
<1>2. IndInv /\ [Next]_vars => IndInv'  BY StepIndInv
<1> QED  BY <1>1, <1>2, PTL DEF Spec

\* restart_attempts_ stays below its maximum and wait_time within the frozen
\* period, for any configuration; every variable keeps its type.
THEOREM TypeCorrect == Spec => []TypeOK
<1>1. IndInv => TypeOK  BY DEF IndInv
<1> QED  BY <1>1, Invariance, PTL

\* StreamController::Exec starts at most one stream after stop_ was set.
THEOREM OneStartAfterStop == Spec => []AtMostOneStartAfterStop
<1>1. IndInv => AtMostOneStartAfterStop
  BY DEF IndInv, StopInv, AtMostOneStartAfterStop
<1> QED  BY <1>1, Invariance, PTL

\* ... and sits through at most one back-off.
THEOREM OneBackOffAfterStop == Spec => []AtMostOneBackOffAfterStop
<1>1. IndInv => AtMostOneBackOffAfterStop
  BY DEF IndInv, StopInv, AtMostOneBackOffAfterStop
<1> QED  BY <1>1, Invariance, PTL

\* A stream waits FROZEN exactly after the maximal number of failures in a row.
THEOREM FreezesAfterMaxFailures == Spec => []FrozenAfterMaxFailures
<1>1. IndInv => FrozenAfterMaxFailures  BY DEF IndInv, BackOffInv
<1> QED  BY <1>1, Invariance, PTL

\* FROZEN and WAITING are never shown over the life of a stream object.
THEOREM ParkedWithoutStream == Spec => []ParkedHasNoStream
<1>1. IndInv => ParkedHasNoStream  BY DEF IndInv, OriginInv
<1> QED  BY <1>1, Invariance, PTL

\* A VOD is not played a second time.
THEOREM VodOnce == Spec => []VodPlaysOnce
<1>1. IndInv => VodPlaysOnce  BY DEF IsVod, IndInv, VodInv, VodPlaysOnce
<1> QED  BY <1>1, Invariance, PTL

\* Only BackOff moves the control thread from "decide" to the wait.
LEMMA OnlyBackOffWaits ==
    ASSUME [Next]_vars, pc = "decide", pc' = "wait_lock"
    PROVE  BackOff
<1> USE DEF control
<1>1. CASE ControlStep
  BY <1>1
  DEF ControlStep, InitController, LoopTop, FindChunkToPlay, ChunkWait, CreateStream,
      InitPipeLine, RunMainLoop, MainLoopReturns, FinishExec, DeleteOrigin, NullOrigin,
      VodFinished, RestartAtOnce, BackOffWait, StopLoop, JoinLoopThread
<1>2. CASE WakeTimeout \/ WakeNotified
  BY <1>2 DEF WakeTimeout, WakeNotified, ChunkWakeTimeout, BackOffWakeTimeout,
              ChunkWakeNotified, BackOffWakeNotified
<1>3. CASE LoopStep \/ ReadError
  BY <1>3 DEF LoopStep, Notify, ReadOrigin, PostQuit, QuitMainLoop, StoreExitStatus,
              UseAfterFree, ReadError
<1>4. CASE QuitStep
  BY <1>4 DEF QuitStep, PipelineQuitsLoop, PipelineStoresStatus
<1>5. CASE Environment
  BY <1>5 DEF Environment, DataReceived, PipeClosed, TimerEmited, StateChanged,
              PipelineQuit, TimePasses
<1>6. CASE Terminated \/ UNCHANGED vars
  BY <1>6 DEF Terminated, vars
<1> QED  BY <1>1, <1>2, <1>3, <1>4, <1>5, <1>6 DEF Next

\* In a row of failures the wait never gets shorter, because wait_time still is
\* what the previous failure made it and the shares grow.
THEOREM BackOffGrows == Spec => BackOffNeverShrinks
<1> DEFINE A == pc = "decide" /\ pc' = "wait_lock" /\ fails \in 1 .. MaxRestartAttempts - 1
                  => waitTime' >= waitTime
<1>1. IndInv /\ [Next]_vars => A
  <2> SUFFICES ASSUME IndInv, [Next]_vars, pc = "decide", pc' = "wait_lock",
                      fails \in 1 .. MaxRestartAttempts - 1
               PROVE  waitTime' >= waitTime
    OBVIOUS
  <2> USE AttemptsAssumption, FrozenAssumption
  <2>1. BackOff
    BY OnlyBackOffWaits
  <2>2. attempts = fails /\ waitTime = BackOffSec(fails) /\ waitTime \in Nat
        /\ waitTime <= RestartAfterFrozenSec
    BY DEF IndInv, TypeOK, BackOffInv
  <2>3. CASE IsLastAttempt
    BY <2>1, <2>2, <2>3 DEF BackOff
  <2>4. CASE ~IsLastAttempt
    <3>1. waitTime' = BackOffSec(fails + 1)
      BY <2>1, <2>2, <2>4 DEF BackOff
    <3>2. BackOffSec(fails) <= BackOffSec(fails + 1)
      BY ShareGrows
    <3>3. BackOffSec(fails + 1) \in Nat
      BY ShareBound
    <3> QED  BY <2>2, <3>1, <3>2, <3>3
  <2> QED  BY <2>3, <2>4
<1>2. IndInv /\ [Next]_vars => [A]_vars
  BY <1>1
<1> HIDE DEF A
<1>3. [][IndInv /\ [Next]_vars]_vars => [][A]_vars
  BY <1>2, PTL
<1>4. Spec => [][A]_vars
  BY <1>3, Invariance, PTL DEF Spec
<1> QED  BY <1>4 DEF A, BackOffNeverShrinks

-----------------------------------------------------------------------------
(* The refinement of StreamLife                                            *)

\* A step that moves neither the control thread nor stop_ is a stutter.
LEMMA Stutter ==
    ASSUME UNCHANGED <<pc, stop>>
    PROVE  UNCHANGED Life!life
BY DEF Life!life, PhaseAt

\* The initial states map to the initial state.
LEMMA InitRefines == Init => Life!Init
BY DEF Init, Life!Init, PhaseAt

\* Stop() from the loop thread is the only step that sets stop_.
LEMMA NotifyRefines ==
    ASSUME TypeOK, Notify
    PROVE  [Life!Next]_(Life!life)
<1>1. pc' = pc
  BY DEF Notify
<1>2. pc \notin {"exited", "crashed"}
  BY DEF Notify, Ended
<1>3. CASE stop \/ cmd # "stop"
  <2>1. stop' = stop
    BY <1>3 DEF Notify, TypeOK
  <2> QED  BY <1>1, <2>1, Stutter
<1>4. CASE ~stop /\ cmd = "stop"
  <2>1. ~stop /\ stop' = TRUE
    BY <1>4, Zenon DEF Notify
  <2>2. PhaseAt(pc) # "gone" /\ PhaseAt(pc)' = PhaseAt(pc)
    BY <1>1, <1>2 DEF TypeOK, Pcs, PhaseAt
  <2>3. Life!Told
    BY <2>1, <2>2 DEF Life!Told
  <2> QED  BY <2>3 DEF Life!Next
<1> QED  BY <1>3, <1>4

\* The steps that move neither: the pipeline, the environment, and the loop
\* thread outside Stop() and the use of a deleted stream.
LEMMA SilentSteps ==
    ASSUME \/ ReadOrigin \/ PostQuit \/ QuitMainLoop \/ StoreExitStatus \/ ReadError
           \/ QuitStep \/ Environment \/ Terminated \/ UNCHANGED vars
    PROVE  UNCHANGED <<pc, stop>>
<1> USE DEF control
<1>1. CASE ReadOrigin \/ PostQuit \/ QuitMainLoop \/ StoreExitStatus \/ ReadError
  BY <1>1 DEF ReadOrigin, PostQuit, QuitMainLoop, StoreExitStatus, ReadError
<1>2. CASE QuitStep
  BY <1>2 DEF QuitStep, PipelineQuitsLoop, PipelineStoresStatus
<1>3. CASE Environment
  BY <1>3 DEF Environment, DataReceived, PipeClosed, TimerEmited, StateChanged,
              PipelineQuit, TimePasses
<1>4. CASE Terminated \/ UNCHANGED vars
  BY <1>4 DEF Terminated, vars
<1> QED  BY <1>1, <1>2, <1>3, <1>4

\* Every step is a step of StreamLife or a stutter.
LEMMA StepRefines == TypeOK /\ [Next]_vars => [Life!Next]_(Life!life)
<1> SUFFICES ASSUME TypeOK, [Next]_vars  PROVE [Life!Next]_(Life!life)
  OBVIOUS
<1> USE DEF PhaseAt, Life!Next, Life!Proceed, Life!Move, Life!life
<1>1. CASE InitController
  BY <1>1 DEF InitController, Life!Boot, Life!Die
<1>2. CASE LoopTop
  BY <1>2 DEF LoopTop, Life!Commit, Life!Leave
<1>3. CASE FindChunkToPlay
  BY <1>3 DEF FindChunkToPlay
<1>4. CASE ChunkWait
  BY <1>4 DEF ChunkWait
<1>5. CASE CreateStream
  BY <1>5 DEF CreateStream, Life!Begin, Life!Cancel
<1>6. CASE InitPipeLine
  BY <1>6 DEF InitPipeLine, Life!Die
<1>7. CASE RunMainLoop
  BY <1>7 DEF RunMainLoop
<1>8. CASE MainLoopReturns
  BY <1>8 DEF MainLoopReturns
<1>9. CASE FinishExec
  BY <1>9 DEF FinishExec
<1>10. CASE DeleteOrigin
  BY <1>10 DEF DeleteOrigin, Life!Finish
<1>11. CASE NullOrigin
  BY <1>11 DEF NullOrigin
<1>12. CASE VodFinished
  BY <1>12 DEF VodFinished, Life!Again
<1>13. CASE RestartAtOnce
  BY <1>13 DEF RestartAtOnce, Life!Again
<1>14. CASE BackOff
  BY <1>14 DEF BackOff, Life!Park
<1>15. CASE BackOffWait
  BY <1>15 DEF BackOffWait
<1>16. CASE StopLoop
  BY <1>16 DEF StopLoop
<1>17. CASE JoinLoopThread
  BY <1>17 DEF JoinLoopThread, Life!Exit
<1>18. CASE ChunkWakeTimeout
  BY <1>18 DEF ChunkWakeTimeout
<1>19. CASE BackOffWakeTimeout
  BY <1>19 DEF BackOffWakeTimeout, Life!Resume
<1>20. CASE ChunkWakeNotified
  BY <1>20 DEF ChunkWakeNotified, Life!Cancel
<1>21. CASE BackOffWakeNotified
  BY <1>21 DEF BackOffWakeNotified, Life!Resume
<1>22. CASE UseAfterFree
  BY <1>22 DEF UseAfterFree, Ended, Life!Die
<1>23. CASE Notify
  BY <1>23, NotifyRefines
<1>24. CASE \/ ReadOrigin \/ PostQuit \/ QuitMainLoop \/ StoreExitStatus \/ ReadError
          \/ QuitStep \/ Environment \/ Terminated \/ UNCHANGED vars
  BY <1>24, SilentSteps, Stutter
<1> QED
  BY <1>1, <1>2, <1>3, <1>4, <1>5, <1>6, <1>7, <1>8, <1>9, <1>10, <1>11, <1>12,
     <1>13, <1>14, <1>15, <1>16, <1>17, <1>18, <1>19, <1>20, <1>21, <1>22, <1>23, <1>24
  DEF Next, ControlStep, WakeTimeout, WakeNotified, LoopStep

\* The stream process, with its three threads, is safe in the sense of
\* StreamLife: after a stop request it begins no stream it was not committed
\* to, and it skips no phase of its cycle.
THEOREM RefinesLife == Spec => ImplementsLifeSafely
<1>1. Init => Life!Init  BY InitRefines
<1>2. TypeOK /\ [Next]_vars => [Life!Next]_(Life!life)  BY StepRefines
<1> QED  BY <1>1, <1>2, TypeCorrect, PTL DEF Spec, ImplementsLifeSafely, Life!Safe
=============================================================================
