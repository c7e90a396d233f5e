------------------------- MODULE DataWatchdogProofs -------------------------
(***************************************************************************)
(* For any number of channels, any pads and threads, any width of size_t   *)
(* and any clock: a counter of DataWatchdog is exact until an update is    *)
(* written over another one, data passes uncounted or a duration is added, *)
(* and exact again from the next checkpoint on. From there: a stream is    *)
(* quit only for want of data, unless one of these has happened to a       *)
(* counter that was judged or the wall clock has run ahead. That an active *)
(* stream reports in time needs a wall clock that does not fall behind.    *)
(***************************************************************************)
EXTENDS DataWatchdog, TLAPS, FiniteSetTheorems

\* The buffers that threads are about to count fit in the window, too.
WindowFits == \A ch \in Channels : recv[ch] + Pending(ch) <= MaxWindow

IndInv == TypeOK /\ WindowFits /\ TotalIsReceived

\* One more byte is one more byte of difference, also when the sum wraps.
LEMMA DiffOfPlus ==
    ASSUME NEW a \in 0 .. SizeMod - 1, NEW b \in 0 .. SizeMod - 1, NEW n \in 0 .. MaxWindow - 1,
           n = IF b <= a THEN a - b ELSE a + SizeMod - b
    PROVE  /\ Plus(a, 1) \in 0 .. SizeMod - 1
           /\ n + 1 = IF b <= Plus(a, 1) THEN Plus(a, 1) - b ELSE Plus(a, 1) + SizeMod - b
BY BytesAssumption DEF Plus

\* Pending counts threads; it is zero when none has read, and it only depends on
\* what they have read.
LEMMA PendingIsNat ==
    ASSUME NEW ch \in Channels
    PROVE  /\ Pending(ch) \in Nat
           /\ (\A t \in Threads : read[t] = NoRead) => Pending(ch) = 0
           /\ read' = read => Pending(ch)' = Pending(ch)
<1>1. IsFiniteSet({t \in Threads : Chan[t] = ch /\ read[t] # NoRead})
  BY ChannelsAssumption, FS_Subset
<1>2. (\A t \in Threads : read[t] = NoRead) => {t \in Threads : Chan[t] = ch /\ read[t] # NoRead} = {}
  OBVIOUS
<1> QED  BY <1>1, <1>2, FS_CardinalityType, FS_EmptySet DEF Pending

\* A thread that reads the counter of its channel adds one to its Pending, one
\* that writes takes one off, and no other channel is concerned.
LEMMA PendingMoves ==
    ASSUME NEW t \in Threads, NEW ch \in Channels,
           \A u \in Threads \ {t} : read'[u] = read[u]
    PROVE  /\ ch # Chan[t] => Pending(ch)' = Pending(ch)
           /\ ch = Chan[t] /\ read[t] = NoRead /\ read'[t] # NoRead => Pending(ch)' = Pending(ch) + 1
           /\ ch = Chan[t] /\ read[t] # NoRead /\ read'[t] = NoRead => Pending(ch)' = Pending(ch) - 1
<1> DEFINE Set == {u \in Threads : Chan[u] = ch /\ read[u] # NoRead}
           Later == {u \in Threads : Chan[u] = ch /\ read'[u] # NoRead}
<1>1. IsFiniteSet(Set) /\ IsFiniteSet(Later)
  BY ChannelsAssumption, FS_Subset
<1>2. Pending(ch) = Cardinality(Set) /\ Pending(ch)' = Cardinality(Later)
  BY DEF Pending
<1>3. ch # Chan[t] => Later = Set
  OBVIOUS
<1>4. CASE ch = Chan[t] /\ read[t] = NoRead /\ read'[t] # NoRead
  <2>1. t \notin Set /\ Later = Set \cup {t}
    BY <1>4
  <2> QED  BY <1>1, <1>2, <1>4, <2>1, FS_AddElement
<1>5. CASE ch = Chan[t] /\ read[t] # NoRead /\ read'[t] = NoRead
  <2>1. t \in Set /\ Later = Set \ {t}
    BY <1>5
  <2> QED  BY <1>1, <1>2, <1>5, <2>1, FS_RemoveElement
<1> QED  BY <1>2, <1>3, <1>4, <1>5

\* The invariant holds initially.
LEMMA InitIndInv == Init => IndInv
<1> SUFFICES ASSUME Init  PROVE IndInv
  OBVIOUS
<1>1. exec \in BOOLEAN /\ running \in BOOLEAN /\ active \in BOOLEAN /\ ahead \in BOOLEAN
  BY Zenon DEF Init
<1>2. TypeOK
  BY <1>1, BytesAssumption, TimesAssumption DEF Init, TypeOK, NoRead
<1>3. WindowFits
  BY BytesAssumption, PendingIsNat DEF Init, WindowFits
<1>4. TotalIsReceived
  BY BytesAssumption DEF Init, TotalIsReceived, GetDiffTotalBytes
<1> QED  BY <1>2, <1>3, <1>4 DEF IndInv

\* A new checkpoint makes every counter exact and every window empty.
LEMMA ResetKeeps ==
    ASSUME IndInv, ResetDataWait, total' = total, read' = read
    PROVE  WindowFits' /\ TotalIsReceived'
<1> USE BytesAssumption DEF IndInv, TypeOK, ResetDataWait
<1>1. ASSUME NEW ch \in Channels  PROVE recv'[ch] + Pending(ch)' <= MaxWindow
  BY PendingIsNat DEF WindowFits
<1>2. ASSUME NEW ch \in Channels \ off'  PROVE GetDiffTotalBytes(ch)' = recv'[ch]
  BY DEF GetDiffTotalBytes
<1> QED  BY <1>1, <1>2 DEF WindowFits, TotalIsReceived

\* A step that leaves the counters, what was read and the window alone keeps them.
LEMMA UntouchedKeeps ==
    ASSUME IndInv, total' = total, prev' = prev, read' = read, recv' = recv, off' = off
    PROVE  WindowFits' /\ TotalIsReceived'
<1>1. WindowFits'
  BY PendingIsNat DEF IndInv, WindowFits
<1> QED  BY <1>1 DEF IndInv, TotalIsReceived, GetDiffTotalBytes

\* Every step of every thread preserves the invariant.
LEMMA StepIndInv == IndInv /\ [Next]_vars => IndInv'
<1> SUFFICES ASSUME IndInv, [Next]_vars  PROVE IndInv'
  OBVIOUS
<1> USE BytesAssumption, TimesAssumption, ChannelsAssumption
    DEF TypeOK, NoRead, clock, counters, measure, window
<1>0. TypeOK /\ WindowFits /\ TotalIsReceived
  BY DEF IndInv
<1>1. CASE StartExec
  <2>1. exec' \in BOOLEAN /\ running' \in BOOLEAN /\ active' \in BOOLEAN /\ ahead' \in BOOLEAN
    BY <1>1, Zenon DEF StartExec, ResetDataWait
  <2>2. TypeOK'
    BY <1>0, <1>1, <2>1 DEF StartExec, ResetDataWait
  <2>3. WindowFits' /\ TotalIsReceived'
    BY <1>1, ResetKeeps DEF StartExec
  <2> QED  BY <2>2, <2>3 DEF IndInv
<1>2. CASE QuitElsewhere \/ StatusChanged \/ DurationChanged \/ Tick \/ JudgeInput \/ Report
  <2>1. running' \in BOOLEAN /\ active' \in BOOLEAN
    BY <1>0, <1>2, Zenon DEF QuitElsewhere, Quit, StatusChanged, DurationChanged, Tick, JudgeInput, Report, TypeOK
  <2>2. TypeOK'
    <3>1. CASE QuitElsewhere \/ StatusChanged
      BY <1>0, <2>1, <3>1 DEF QuitElsewhere, StatusChanged
    <3>2. CASE DurationChanged
      BY <1>0, <2>1, <3>2 DEF DurationChanged
    <3>3. CASE Tick
      BY <1>0, <2>1, <3>3 DEF Tick
    <3>4. CASE JudgeInput
      BY <1>0, <2>1, <3>4 DEF JudgeInput
    <3>5. CASE Report
      BY <1>0, <2>1, <3>5 DEF Report
    <3> QED  BY <1>2, <3>1, <3>2, <3>3, <3>4, <3>5
  <2>3. WindowFits' /\ TotalIsReceived'
    BY <1>2, UntouchedKeeps DEF QuitElsewhere, StatusChanged, DurationChanged, Tick, JudgeInput, Report
  <2> QED  BY <2>2, <2>3 DEF IndInv
<1>3. CASE FinishExec
  <2>1. exec' \in BOOLEAN /\ active' \in BOOLEAN /\ ahead' \in BOOLEAN
    BY <1>3, Zenon DEF FinishExec
  <2>2. TypeOK'
    BY <1>0, <1>3, <2>1 DEF FinishExec
  <2>3. WindowFits' /\ TotalIsReceived'
    BY <1>3, UntouchedKeeps DEF FinishExec
  <2> QED  BY <2>2, <2>3 DEF IndInv
<1>4. ASSUME NEW t \in Threads, BufferRead(t)  PROVE IndInv'
  <2>1. Chan[t] \in Channels /\ total[Chan[t]] \in 0 .. SizeMod - 1
    BY <1>0
  <2>2. TypeOK'
    BY <1>0, <1>4, <2>1 DEF BufferRead
  <2>3. ASSUME NEW ch \in Channels  PROVE recv'[ch] + Pending(ch)' <= MaxWindow
    <3>1. Pending(ch)' = IF ch = Chan[t] THEN Pending(ch) + 1 ELSE Pending(ch)
      <4>1. read[t] = NoRead /\ read'[t] # NoRead /\ \A u \in Threads \ {t} : read'[u] = read[u]
        BY <1>0, <1>4, <2>1 DEF BufferRead
      <4> QED  BY <4>1, PendingMoves
    <3>2. Pending(ch) \in Nat /\ recv[ch] \in 0 .. MaxWindow /\ recv' = recv
      BY <1>0, <1>4, PendingIsNat DEF BufferRead
    <3> QED  BY <1>0, <1>4, <3>1, <3>2 DEF BufferRead, WindowFits
  <2>4. TotalIsReceived'
    BY <1>0, <1>4 DEF BufferRead, TotalIsReceived, GetDiffTotalBytes
  <2> QED  BY <2>2, <2>3, <2>4 DEF IndInv, WindowFits
<1>5. ASSUME NEW t \in Threads, BufferWrite(t)  PROVE IndInv'
  <2> DEFINE c == Chan[t]
  <2>1. c \in Channels /\ read[t] \in 0 .. SizeMod - 1
    BY <1>0, <1>5 DEF BufferWrite
  <2>2. ASSUME NEW ch \in Channels
        PROVE  /\ Pending(ch)' = IF ch = c THEN Pending(ch) - 1 ELSE Pending(ch)
               /\ Pending(ch) \in Nat /\ Pending(ch)' \in Nat
               /\ recv'[ch] = IF ch = c THEN recv[ch] + 1 ELSE recv[ch]
    <3>1. Pending(ch) \in Nat
      BY PendingIsNat
    <3>2. Pending(ch)' \in Nat
      <4>1. IsFiniteSet({u \in Threads : Chan[u] = ch /\ read'[u] # NoRead})
        BY FS_Subset
      <4> QED  BY <4>1, FS_CardinalityType DEF Pending
    <3>3. Pending(ch)' = IF ch = c THEN Pending(ch) - 1 ELSE Pending(ch)
      <4>1. read[t] # NoRead /\ read'[t] = NoRead /\ \A u \in Threads \ {t} : read'[u] = read[u]
        BY <1>0, <1>5 DEF BufferWrite
      <4> QED  BY <4>1, PendingMoves
    <3> QED  BY <1>0, <1>5, <3>1, <3>2, <3>3 DEF BufferWrite
  <2>3. WindowFits' /\ recv[c] \in 0 .. MaxWindow - 1
    BY <1>0, <2>1, <2>2 DEF WindowFits
  <2>4. Plus(read[t], 1) \in 0 .. SizeMod - 1
    BY <2>1 DEF Plus
  <2>5. TypeOK'
    BY <1>0, <1>5, <2>1, <2>3, <2>4 DEF BufferWrite
  <2>6. ASSUME NEW ch \in Channels \ off'  PROVE GetDiffTotalBytes(ch)' = recv'[ch]
    <3>1. ch \in Channels \ off /\ GetDiffTotalBytes(ch) = recv[ch]
      BY <1>0, <1>5, <2>6 DEF BufferWrite, TotalIsReceived
    <3>2. CASE ch # c
      BY <1>0, <1>5, <3>1, <3>2 DEF BufferWrite, GetDiffTotalBytes
    <3>3. CASE ch = c
      <4>1. read[t] = total[c]
        BY <1>5, <2>6, <3>3 DEF BufferWrite
      <4>2. total'[c] = Plus(total[c], 1) /\ prev' = prev /\ recv'[c] = recv[c] + 1
        BY <1>0, <1>5, <2>1, <4>1 DEF BufferWrite
      <4>3. recv[c] + 1 = IF prev[c] <= Plus(total[c], 1) THEN Plus(total[c], 1) - prev[c]
                          ELSE Plus(total[c], 1) + SizeMod - prev[c]
        BY <1>0, <2>1, <2>3, <3>1, <3>3, DiffOfPlus DEF GetDiffTotalBytes
      <4> QED  BY <3>3, <4>2, <4>3 DEF GetDiffTotalBytes
    <3> QED  BY <3>2, <3>3
  <2> QED  BY <2>3, <2>5, <2>6 DEF IndInv, TotalIsReceived
<1>6. ASSUME NEW t \in Threads, PassUncounted(t)  PROVE IndInv'
  <2>1. Chan[t] \in Channels /\ Pending(Chan[t]) \in Nat /\ recv[Chan[t]] \in 0 .. MaxWindow - 1
    BY <1>0, <1>6, PendingIsNat DEF PassUncounted
  <2>2. TypeOK'
    BY <1>0, <1>6, <2>1 DEF PassUncounted
  <2>3. ASSUME NEW ch \in Channels  PROVE recv'[ch] + Pending(ch)' <= MaxWindow
    <3>1. Pending(ch) \in Nat /\ Pending(ch)' = Pending(ch)
      BY <1>6, PendingIsNat DEF PassUncounted
    <3>2. recv'[ch] = IF ch = Chan[t] THEN recv[ch] + 1 ELSE recv[ch]
      BY <1>0, <1>6 DEF PassUncounted
    <3> QED  BY <1>0, <1>6, <2>1, <3>1, <3>2 DEF PassUncounted, WindowFits
  <2>4. TotalIsReceived'
    BY <1>0, <1>6 DEF PassUncounted, TotalIsReceived, GetDiffTotalBytes
  <2> QED  BY <2>2, <2>3, <2>4 DEF IndInv, WindowFits
<1>7. ASSUME NEW k \in ClockSteps, Second(k)  PROVE IndInv'
  <2>1. ahead' \in BOOLEAN
    BY <1>7, Zenon DEF Second
  <2>2. TypeOK'
    BY <1>0, <1>7, <2>1 DEF Second, Capped
  <2>3. WindowFits' /\ TotalIsReceived'
    BY <1>7, UntouchedKeeps DEF Second
  <2> QED  BY <2>2, <2>3 DEF IndInv
<1>8. CASE JudgeOutput
  <2>1. CASE diffOut < MinOut /\ kind # "recorder"
    <3>1. running' \in BOOLEAN
      BY <1>8, <2>1, Zenon DEF JudgeOutput, Quit
    <3>2. TypeOK'
      BY <1>0, <1>8, <2>1, <3>1 DEF JudgeOutput
    <3>3. WindowFits' /\ TotalIsReceived'
      BY <1>8, <2>1, UntouchedKeeps DEF JudgeOutput
    <3> QED  BY <3>2, <3>3 DEF IndInv
  <2>2. CASE ~(diffOut < MinOut /\ kind # "recorder")
    <3>1. ahead' \in BOOLEAN /\ ResetDataWait
      BY <1>8, <2>2, Zenon DEF JudgeOutput, ResetDataWait
    <3>2. TypeOK'
      BY <1>0, <1>8, <2>2, <3>1 DEF JudgeOutput, ResetDataWait
    <3>3. WindowFits' /\ TotalIsReceived'
      BY <1>8, <3>1, ResetKeeps DEF JudgeOutput
    <3> QED  BY <3>2, <3>3 DEF IndInv
  <2> QED  BY <2>1, <2>2
<1>9. ASSUME NEW ch \in Inputs, DurationRead(ch)  PROVE IndInv'
  <2>1. ch \in Channels /\ total[ch] \in 0 .. SizeMod - 1
    BY <1>0 DEF Channels
  <2>2. TypeOK'
    BY <1>0, <1>9, <2>1 DEF DurationRead
  <2>3. WindowFits' /\ TotalIsReceived'
    BY <1>9, UntouchedKeeps DEF DurationRead
  <2> QED  BY <2>2, <2>3 DEF IndInv
<1>10. ASSUME NEW ch \in Inputs, NEW d \in Durations, DurationAdded(ch, d)  PROVE IndInv'
  <2>1. ch \in Channels /\ inputRead[ch] \in 0 .. SizeMod - 1 /\ d \in 0 .. SizeMod - 1
    BY <1>0, <1>10 DEF Channels, DurationAdded
  <2>2. Plus(inputRead[ch], d) \in 0 .. SizeMod - 1
    BY <2>1 DEF Plus
  <2>3. TypeOK'
    BY <1>0, <1>10, <2>1, <2>2 DEF DurationAdded
  <2>4. WindowFits'
    BY <1>0, <1>10, PendingIsNat DEF DurationAdded, WindowFits
  <2>5. TotalIsReceived'
    BY <1>0, <1>10, <2>1 DEF DurationAdded, TotalIsReceived, GetDiffTotalBytes
  <2> QED  BY <2>3, <2>4, <2>5 DEF IndInv
<1>11. CASE UNCHANGED vars
  <2>1. TypeOK'
    BY <1>0, <1>11 DEF vars
  <2>2. WindowFits' /\ TotalIsReceived'
    BY <1>11, UntouchedKeeps DEF vars
  <2> QED  BY <2>1, <2>2 DEF IndInv
<1> QED  BY <1>1, <1>2, <1>3, <1>4, <1>5, <1>6, <1>7, <1>8, <1>9, <1>10, <1>11 DEF Next, MainStep

-----------------------------------------------------------------------------
\* The invariant holds in every reachable state.
THEOREM Invariance == Spec => []IndInv
<1>1. Init => IndInv  BY InitIndInv
<1>2. IndInv /\ [Next]_vars => IndInv'  BY StepIndInv
<1> QED  BY <1>1, <1>2, PTL DEF Spec

\* Every counter of ChannelStats stays a size_t and every window in its bound.
THEOREM TypeCorrect == Spec => []TypeOK
<1>1. IndInv => TypeOK  BY DEF IndInv
<1> QED  BY <1>1, Invariance, PTL

\* total_bytes_ - prev_total_bytes_ is what has passed the pads of a channel
\* since the checkpoint, whatever threads share it and across ticks, restarts
\* and the wrap of the counter, unless UpdateStats was overtaken, did not see
\* the data or was given a duration since that checkpoint.
THEOREM CountersExact == Spec => []TotalIsReceived
<1>1. IndInv => TotalIsReceived  BY DEF IndInv
<1> QED  BY <1>1, Invariance, PTL

-----------------------------------------------------------------------------
(* A stream is quit only for want of data                                  *)

\* What all the inputs, or all the outputs, receive in a window is a size_t.
SumsFit ==
    /\ \A f \in [Inputs -> 0 .. MaxWindow] : SumFunctionOnSet(f, Inputs) \in 0 .. SizeMod - 1
    /\ \A f \in [Outputs -> 0 .. MaxWindow] : SumFunctionOnSet(f, Outputs) \in 0 .. SizeMod - 1

\* A stream object is in its main loop before Exec returns; the wall clock is not
\* past the seconds unless it has run ahead; and while the data is judged, the
\* period has passed and what is judged is what was received, each unless the
\* history says why not.
JudgeInv ==
    /\ running \/ pc # "idle" => exec
    /\ since <= real \/ real > PanicSec \/ ahead
    /\ pc \in {"judge_in", "judge_out"} =>
           /\ real > PanicSec \/ ahead
           /\ diffIn = seenIn \/ seenOff \cap Inputs # {}
           /\ diffOut = seenOut \/ seenOff \cap Outputs # {}

\* The differences that HandleMainTimerTick sums up over channels whose counters
\* are exact are the received bytes.
LEMMA SumsAreReceived ==
    ASSUME SumsFit, IndInv
    PROVE  /\ DiffTotal(Inputs) = Received(Inputs) \/ off \cap Inputs # {}
           /\ DiffTotal(Outputs) = Received(Outputs) \/ off \cap Outputs # {}
<1> DEFINE got(chs) == [ch \in chs |-> recv[ch]]
<1>1. got(Inputs) \in [Inputs -> 0 .. MaxWindow] /\ got(Outputs) \in [Outputs -> 0 .. MaxWindow]
  BY DEF IndInv, TypeOK, Channels
<1>2. /\ off \cap Inputs = {} => [ch \in Inputs |-> GetDiffTotalBytes(ch)] = got(Inputs)
      /\ off \cap Outputs = {} => [ch \in Outputs |-> GetDiffTotalBytes(ch)] = got(Outputs)
  BY DEF IndInv, TotalIsReceived, Channels
<1>3. /\ SumFunctionOnSet(got(Inputs), Inputs) \in 0 .. SizeMod - 1
      /\ SumFunctionOnSet(got(Outputs), Outputs) \in 0 .. SizeMod - 1
  BY <1>1 DEF SumsFit
<1>4. \A n \in 0 .. SizeMod - 1 : n % SizeMod = n
  BY BytesAssumption
<1> QED  BY <1>2, <1>3, <1>4 DEF DiffTotal, Received

\* Every step of every thread preserves the invariant.
LEMMA StepJudgeInv ==
    ASSUME SumsFit, IndInv, JudgeInv, [Next]_vars
    PROVE  JudgeInv'
<1> USE TimesAssumption DEF JudgeInv, clock, counters, measure, window
<1>0. real \in 0 .. PanicSec + 1 /\ since \in Int
  BY DEF IndInv, TypeOK
<1>1. CASE StartExec
  BY <1>0, <1>1 DEF StartExec, ResetDataWait
<1>2. CASE QuitElsewhere \/ FinishExec \/ StatusChanged
  BY <1>0, <1>2 DEF QuitElsewhere, Quit, FinishExec, StatusChanged
<1>3. ASSUME NEW t \in Threads, BufferRead(t) \/ BufferWrite(t) \/ PassUncounted(t)  PROVE JudgeInv'
  BY <1>3 DEF BufferRead, BufferWrite, PassUncounted
<1>4. CASE DurationChanged
  BY <1>4 DEF DurationChanged
<1>5. ASSUME NEW k \in ClockSteps, Second(k)  PROVE JudgeInv'
  <2>1. since' = since + k /\ real' = IF real + 1 > PanicSec + 1 THEN PanicSec + 1 ELSE real + 1
    BY <1>5 DEF Second, Capped
  <2>2. k \in Int /\ ((ahead \/ k > 1) => ahead')
    BY <1>5 DEF Second
  <2>3. since' <= real' \/ real' > PanicSec \/ ahead'
    BY <1>0, <2>1, <2>2
  <2> QED  BY <1>0, <1>5, <2>3 DEF Second
<1>6. CASE Tick
  BY <1>0, <1>6, SumsAreReceived DEF Tick, PastDeadline
<1>7. CASE JudgeInput
  BY <1>7 DEF JudgeInput, Quit
<1>8. CASE JudgeOutput
  <2>1. running' => running
    BY <1>8, Zenon DEF JudgeOutput, Quit
  <2>2. since' <= real' \/ real' > PanicSec \/ ahead'
    BY <1>0, <1>8 DEF JudgeOutput, ResetDataWait
  <2> QED  BY <1>8, <2>1, <2>2 DEF JudgeOutput
<1>9. CASE Report
  BY <1>9 DEF Report
<1>10. ASSUME NEW ch \in Inputs, DurationRead(ch)  PROVE JudgeInv'
  BY <1>10 DEF DurationRead
<1>11. ASSUME NEW ch \in Inputs, NEW d \in Durations, DurationAdded(ch, d)  PROVE JudgeInv'
  BY <1>11 DEF DurationAdded
<1>12. CASE UNCHANGED vars
  BY <1>12 DEF vars
<1> HIDE DEF JudgeInv
<1> QED  BY <1>1, <1>2, <1>3, <1>4, <1>5, <1>6, <1>7, <1>8, <1>9, <1>10, <1>11, <1>12 DEF Next, MainStep

\* OnInputDataFailed and OnOutputDataFailed quit a stream only when its inputs,
\* or its outputs, have received less than the minimum, or one of their counters
\* was written over, passed by or given a duration since the checkpoint; and only
\* when no_data_panic_sec seconds have passed or the wall clock was set ahead.
THEOREM QuitsOnlyStarved == SumsFit => (Spec => QuitOnlyStarved)
<1> SUFFICES ASSUME SumsFit  PROVE Spec => QuitOnlyStarved
  OBVIOUS
<1>1. Init => JudgeInv
  BY TimesAssumption DEF Init, JudgeInv
<1>2. IndInv /\ JudgeInv /\ [Next]_vars => JudgeInv'
  BY StepJudgeInv
<1> DEFINE Starved ==
        /\ pc = "judge_in" /\ pc' # pc /\ running /\ ~running' =>
               (real > PanicSec \/ ahead) /\ (seenIn < MinIn \/ seenOff \cap Inputs # {})
        /\ pc = "judge_out" /\ pc' # pc /\ running /\ ~running' =>
               (real > PanicSec \/ ahead) /\ (seenOut < MinOut \/ seenOff \cap Outputs # {})
<1>3. IndInv /\ JudgeInv /\ [Next]_vars => [Starved]_vars
  <2> SUFFICES ASSUME IndInv, JudgeInv, Next, pc \in {"judge_in", "judge_out"}, pc' # pc, running, ~running'
               PROVE  Starved
    OBVIOUS
  <2>1. JudgeInput \/ JudgeOutput
    <3>1. ~StartExec /\ ~FinishExec
      BY DEF StartExec, FinishExec, JudgeInv
    <3> QED
      BY <3>1 DEF Next, MainStep, QuitElsewhere, StatusChanged, BufferRead, BufferWrite, PassUncounted,
                  DurationChanged, Second, Tick, Report, DurationRead, DurationAdded
  <2>2. CASE JudgeInput
    BY <2>2 DEF JudgeInput, JudgeInv
  <2>3. CASE JudgeOutput
    BY <2>3 DEF JudgeOutput, JudgeInv
  <2> QED  BY <2>1, <2>2, <2>3
<1> QED  BY <1>1, <1>2, <1>3, Invariance, PTL DEF Spec, QuitOnlyStarved

-----------------------------------------------------------------------------
(* An active stream reports in time                                        *)

\* The wall clock may jump ahead, but every second it moves on.
NeverBehind == \A k \in ClockSteps : k >= 1

\* Between two ticks the silence grows by the lateness of the loop at most; after
\* a tick it is within the delay, as the next report is still to come.
ReportInv ==
    /\ active \in BOOLEAN /\ lag \in 0 .. MaxLag /\ due \in Int /\ silent \in Nat
    /\ ~active => silent = 0
    /\ due <= ReportDelay /\ (due > 0 => silent + due <= ReportDelay)
    /\ silent <= ReportDelay + (IF pc \in {"idle", "duration"} THEN lag ELSE MaxLag)

\* Every step of every thread preserves the invariant.
LEMMA StepReportInv == NeverBehind /\ ReportInv /\ [Next]_vars => ReportInv'
<1> SUFFICES ASSUME NeverBehind, ReportInv, [Next]_vars  PROVE ReportInv'
  OBVIOUS
<1> USE TimesAssumption DEF ReportInv, clock, counters, measure, window
<1>1. CASE StartExec
  <2>1. active' \in BOOLEAN
    BY <1>1, Zenon DEF StartExec
  <2> QED  BY <1>1, <2>1 DEF StartExec
<1>2. CASE QuitElsewhere
  BY <1>2 DEF QuitElsewhere
<1>3. CASE FinishExec
  <2>1. active' \in BOOLEAN
    BY <1>3, Zenon DEF FinishExec
  <2> QED  BY <1>3, <2>1 DEF FinishExec
<1>4. CASE StatusChanged
  <2>1. active' \in BOOLEAN
    BY <1>4, Zenon DEF StatusChanged
  <2> QED  BY <1>4, <2>1 DEF StatusChanged
<1>5. ASSUME NEW t \in Threads, BufferRead(t) \/ BufferWrite(t) \/ PassUncounted(t)  PROVE ReportInv'
  BY <1>5 DEF BufferRead, BufferWrite, PassUncounted
<1>6. CASE DurationChanged
  BY <1>6 DEF DurationChanged
<1>7. ASSUME NEW k \in ClockSteps, Second(k)  PROVE ReportInv'
  <2>1. k \in Int /\ k >= 1
    BY DEF NeverBehind
  <2> QED  BY <1>7, <2>1 DEF Second, Capped
<1>8. CASE Tick
  BY <1>8 DEF Tick
<1>9. CASE JudgeInput
  BY <1>9 DEF JudgeInput
<1>10. CASE JudgeOutput
  BY <1>10 DEF JudgeOutput
<1>11. CASE Report
  BY <1>11 DEF Report
<1>12. ASSUME NEW ch \in Inputs, DurationRead(ch)  PROVE ReportInv'
  BY <1>12 DEF DurationRead
<1>13. ASSUME NEW ch \in Inputs, NEW d \in Durations, DurationAdded(ch, d)  PROVE ReportInv'
  BY <1>13 DEF DurationAdded
<1>14. CASE UNCHANGED vars
  BY <1>14 DEF vars
<1> HIDE DEF ReportInv
<1> QED  BY <1>1, <1>2, <1>3, <1>4, <1>5, <1>6, <1>7, <1>8, <1>9, <1>10, <1>11, <1>12, <1>13, <1>14
  DEF Next, MainStep

\* A stream that is active reports its statistics after report_delay_sec and the
\* lateness of the main loop, whatever the checks, the durations and its status
\* do meanwhile.
THEOREM ReportsInTime == NeverBehind => (Spec => []ReportsKeepComing)
<1> SUFFICES ASSUME NeverBehind  PROVE Spec => []ReportsKeepComing
  OBVIOUS
<1>1. Init => ReportInv
  <2> SUFFICES ASSUME Init  PROVE ReportInv
    OBVIOUS
  <2>1. active \in BOOLEAN
    BY Zenon DEF Init
  <2> QED  BY <2>1, TimesAssumption DEF Init, ReportInv
<1>2. ReportInv /\ [Next]_vars => ReportInv'
  BY StepReportInv
<1>3. ReportInv => ReportsKeepComing
  BY TimesAssumption DEF ReportInv, ReportsKeepComing
<1> QED  BY <1>1, <1>2, <1>3, PTL DEF Spec
=============================================================================
