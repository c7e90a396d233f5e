---------------------------- MODULE DataWatchdog ----------------------------
(***************************************************************************)
(* The data checks of a running stream: IBaseStream::HandleMainTimerTick   *)
(* and the byte counters (ChannelStats) that the pads' probes feed.        *)
(*                                                                         *)
(* The main thread runs the glib loop: the one-second timer and the bus    *)
(* messages, one at a time; its position inside a handler is pc. Every pad *)
(* has a streaming thread of its own that adds the size of each buffer to  *)
(* the counter of its channel, by a read and a write without a lock. Two   *)
(* pads of one element (video and audio) may share a channel. Data may     *)
(* also pass uncounted: a buffer list through an input, whose probe knows  *)
(* only buffers and events, and everything through a pad whose probe has a *)
(* number beyond the channels of the stream (the audio of a device).       *)
(*                                                                         *)
(* Counters are size_t: they wrap at SizeMod. Time is relative to the last *)
(* checkpoint: since stands for up_time - (no_data_panic_tick_ -           *)
(* no_data_panic_sec), and due for status_tick_ - up_time.                 *)
(***************************************************************************)
EXTENDS Integers, FiniteSets, Functions

CONSTANTS
    Inputs, Outputs,   \* channels of the stream
    Threads,           \* streaming threads with a probe on their pad
    Chan,              \* the channel of each of them
    Strays,            \* the ones whose probe's id is not the index of a channel
    Http,              \* inputs with an http url
    Durations,         \* durations an http input may report
    Kinds,             \* kinds of stream to consider
    PanicSec,          \* no_data_panic_sec
    ReportDelay,       \* report_delay_sec
    MinIn, MinOut,     \* MIN_IN_DATA, MIN_OUT_DATA
    SizeMod,           \* one more than the largest size_t
    ClockSteps,        \* what the wall clock may add in one second
    MaxLag,            \* bound: seconds by which the main loop may be late
    MaxBack,           \* bound: how far the clock steps back behind a checkpoint
    MaxWindow          \* bound: buffers of a channel between two checkpoints

Channels == Inputs \cup Outputs
AllKinds == {"plain", "recorder", "player"}
NoRead == -1

ASSUME ChannelsAssumption ==
    /\ IsFiniteSet(Inputs) /\ IsFiniteSet(Outputs) /\ IsFiniteSet(Threads)
    /\ Inputs \cap Outputs = {}
    /\ Chan \in [Threads -> Channels] /\ Strays \subseteq Threads /\ Http \subseteq Inputs
ASSUME KindsAssumption == Kinds \subseteq AllKinds
ASSUME TimesAssumption ==
    /\ PanicSec \in Nat \ {0} /\ ReportDelay \in Nat \ {0}
    /\ ClockSteps \subseteq Int /\ MaxLag \in Nat \ {0} /\ MaxBack \in Nat
ASSUME BytesAssumption ==
    /\ MinIn \in Nat /\ MinOut \in Nat /\ SizeMod \in Nat \ {0}
    /\ Durations \subseteq 0 .. SizeMod - 1
    /\ MaxWindow \in 0 .. SizeMod - 1

VARIABLES
    kind,      \* which overrides of the checks apply; never changes
    exec,      \* Exec() of a stream object is under way
    running,   \* its main loop runs
    active,    \* IsActive(): the status is not INIT
    pc,        \* main thread: "idle", "judge_in", "judge_out", "report", "duration"
    lag,       \* seconds since the timer was served
    since,     \* seconds of the wall clock since the checkpoint
    due,       \* seconds of the wall clock until the next report
    total,     \* total_bytes_ of each channel
    prev,      \* prev_total_bytes_ of each channel
    diffIn,    \* checkpoint_diff_in_total, a local of the tick
    diffOut,   \* checkpoint_diff_out_total, too
    read,      \* per streaming thread: the total it has read and not yet written
    inputRead, \* the same for the main thread, per input
    todo,      \* inputs whose duration the main thread has still to add
    recv,      \* history: bytes that passed each channel since the checkpoint
    off,       \* history: channels where data passed uncounted, one update was
               \* written over another or a duration was added since then
    ahead,     \* history: the wall clock has run ahead since then
    seenIn,    \* history: the same for all inputs when the tick measured them
    seenOut,   \* history: and for all outputs
    seenOff,   \* history: off when the tick measured them
    real,      \* history: true seconds since the checkpoint
    silent     \* history: true seconds an active stream has not reported

clock    == <<lag, since, due>>
counters == <<total, prev, read, inputRead, todo>>
measure  == <<diffIn, diffOut, seenIn, seenOut, seenOff>>
window   == <<recv, off>>
vars     == <<kind, exec, running, active, pc, clock, counters, measure, window, ahead, real, silent>>

\* Sums and differences of size_t.
Plus(a, b) == IF a + b < SizeMod THEN a + b ELSE a + b - SizeMod
GetDiffTotalBytes(ch) ==
    IF prev[ch] <= total[ch] THEN total[ch] - prev[ch] ELSE total[ch] + SizeMod - prev[ch]
DiffTotal(chs) ==
    SumFunctionOnSet([ch \in chs |-> GetDiffTotalBytes(ch)], chs) % SizeMod

\* What has passed a set of channels.
Received(chs) == SumFunctionOnSet([ch \in chs |-> recv[ch]], chs)

Capped(n, bound) == IF n > bound THEN bound ELSE n

Init ==
    /\ kind \in Kinds
    /\ exec = FALSE /\ running = FALSE /\ active = FALSE
    /\ pc = "idle"
    /\ lag = 0 /\ since = 0 /\ due = 0
    /\ total = [ch \in Channels |-> 0] /\ prev = [ch \in Channels |-> 0]
    /\ diffIn = 0 /\ diffOut = 0 /\ seenIn = 0 /\ seenOut = 0 /\ seenOff = {}
    /\ read = [t \in Threads |-> NoRead]
    /\ inputRead = [ch \in Inputs |-> NoRead] /\ todo = {}
    /\ recv = [ch \in Channels |-> 0] /\ off = {}
    /\ ahead = FALSE /\ real = 0 /\ silent = 0

-----------------------------------------------------------------------------
(* Exec() and what ends it.                                                *)

\* Mutant: only the deadline is moved, the counters are not.
ResetDeadlineOnly ==
    /\ since' = 0
    /\ UNCHANGED prev
    /\ recv' = [ch \in Channels |-> 0] /\ off' = {}
    /\ ahead' = FALSE /\ real' = 0

\* A new deadline and a new checkpoint of every channel.
ResetDataWait ==
    /\ since' = 0
    /\ prev' = total
    /\ recv' = [ch \in Channels |-> 0] /\ off' = {}
    /\ ahead' = FALSE /\ real' = 0

\* A new stream object (status_tick_ is zero) enters its main loop. The
\* counters are in the memory shared with the service and live on.
StartExec ==
    /\ ~exec
    /\ exec' = TRUE /\ running' = TRUE /\ active' = FALSE
    /\ ResetDataWait
    /\ lag' = 0 /\ due' = 0 /\ silent' = 0
    /\ UNCHANGED <<kind, pc, total, read, inputRead, todo, measure>>

\* Quit(): the bus's sync handler quits the main loop.
Quit == running' = FALSE

\* A Quit() for another reason: the end of the input, or the controller's.
QuitElsewhere ==
    /\ running
    /\ Quit
    /\ UNCHANGED <<kind, exec, active, pc, clock, counters, measure, window, ahead, real, silent>>

\* The main loop has returned, Stop() has joined the streaming threads and the
\* object is deleted with its deadlines. The counters stay.
FinishExec ==
    /\ exec /\ ~running
    /\ pc = "idle" /\ \A t \in Threads : read[t] = NoRead
    /\ exec' = FALSE /\ active' = FALSE
    /\ lag' = 0 /\ since' = 0 /\ due' = 0
    /\ ahead' = FALSE /\ real' = 0 /\ silent' = 0
    /\ UNCHANGED <<kind, running, pc, counters, measure, window>>

\* State changes of the pipeline that the bus reports.
StatusChanged ==
    /\ running /\ pc = "idle"
    /\ active' = ~active
    /\ silent' = 0
    /\ UNCHANGED <<kind, exec, running, pc, clock, counters, measure, window, ahead, real>>

-----------------------------------------------------------------------------
(* The streaming threads: Probe callbacks and UpdateStats. A buffer is one *)
(* unit of data; a list through an output is counted buffer by buffer.     *)

Pending(ch) == Cardinality({t \in Threads : Chan[t] = ch /\ read[t] # NoRead})

\* const size_t prev_total = GetTotalBytes() ...
BufferRead(t) ==
    /\ exec /\ read[t] = NoRead
    /\ t \notin Strays
    /\ recv[Chan[t]] + Pending(Chan[t]) < MaxWindow
    /\ read' = [read EXCEPT ![t] = total[Chan[t]]]
    /\ UNCHANGED <<kind, exec, running, active, pc, clock, total, prev, inputRead, todo, measure, window, ahead, real, silent>>

\* ... SetTotalBytes(prev_total + size), over whatever was written meanwhile.
BufferWrite(t) ==
    /\ read[t] # NoRead
    /\ total' = [total EXCEPT ![Chan[t]] = Plus(read[t], 1)]
    /\ recv' = [recv EXCEPT ![Chan[t]] = @ + 1]
    /\ off' = IF read[t] = total[Chan[t]] THEN off ELSE off \cup {Chan[t]}
    /\ read' = [read EXCEPT ![t] = NoRead]
    /\ UNCHANGED <<kind, exec, running, active, pc, clock, prev, inputRead, todo, measure, ahead, real, silent>>

\* The else of source_callback_probe_buffer, and the else of the two guards of
\* UpdateStats: the data passes the pad and no counter moves.
PassUncounted(t) ==
    /\ exec /\ read[t] = NoRead
    /\ Chan[t] \in Inputs \/ t \in Strays
    /\ recv[Chan[t]] + Pending(Chan[t]) < MaxWindow
    /\ recv' = [recv EXCEPT ![Chan[t]] = @ + 1]
    /\ off' = off \cup {Chan[t]}
    /\ UNCHANGED <<kind, exec, running, active, pc, clock, counters, measure, ahead, real, silent>>

\* GST_MESSAGE_DURATION_CHANGED: the main thread adds the duration of the source
\* to the counter of each http input, in turn ...
DurationChanged ==
    /\ running /\ pc = "idle"
    /\ Http # {}
    /\ pc' = "duration" /\ todo' = Http
    /\ UNCHANGED <<kind, exec, running, active, clock, total, prev, read, inputRead, measure, window, ahead, real, silent>>

\* ... by the same read ...
DurationRead(ch) ==
    /\ pc = "duration" /\ ch \in todo /\ \A c \in Inputs : inputRead[c] = NoRead
    /\ inputRead' = [inputRead EXCEPT ![ch] = total[ch]]
    /\ UNCHANGED <<kind, exec, running, active, pc, clock, total, prev, read, todo, measure, window, ahead, real, silent>>

\* ... and write.
DurationAdded(ch, d) ==
    /\ pc = "duration" /\ inputRead[ch] # NoRead
    /\ todo' = todo \ {ch}
    /\ pc' = IF todo' = {} THEN "idle" ELSE pc
    /\ total' = [total EXCEPT ![ch] = Plus(inputRead[ch], d)]
    /\ off' = off \cup {ch}
    /\ inputRead' = [inputRead EXCEPT ![ch] = NoRead]
    /\ UNCHANGED <<kind, exec, running, active, clock, prev, read, measure, recv, ahead, real, silent>>

-----------------------------------------------------------------------------
(* The one-second timer. A tick is handled within its second.              *)

\* A second passes; the wall clock moves by k.
Second(k) ==
    /\ running /\ pc \in {"idle", "duration"} /\ lag < MaxLag
    /\ since + k >= -MaxBack
    /\ lag' = lag + 1
    /\ since' = since + k
    /\ due' = IF due - k < -MaxBack THEN -MaxBack ELSE due - k
    /\ ahead' = (ahead \/ k > 1)
    /\ real' = Capped(real + 1, PanicSec + 1)
    /\ silent' = IF active THEN Capped(silent + 1, ReportDelay + MaxLag + 1) ELSE 0
    /\ UNCHANGED <<kind, exec, running, active, pc, counters, measure, window>>

\* Mutant: the data is judged in the last second of the period already.
PastDeadlineEarly == since >= PanicSec

\* up_time > no_data_panic_tick_.
PastDeadline == since > PanicSec

\* The first part of HandleMainTimerTick: sum up what came since the checkpoint.
Tick ==
    /\ running /\ pc = "idle" /\ lag > 0
    /\ lag' = 0
    /\ diffIn' = DiffTotal(Inputs) /\ diffOut' = DiffTotal(Outputs)
    /\ seenIn' = Received(Inputs) /\ seenOut' = Received(Outputs) /\ seenOff' = off
    /\ pc' = IF PastDeadline THEN "judge_in" ELSE "report"
    /\ UNCHANGED <<kind, exec, running, active, since, due, counters, window, ahead, real, silent>>

\* Mutant: a stream without input is only logged.
JudgeInputForgives ==
    /\ pc = "judge_in"
    /\ pc' = "judge_out"
    /\ UNCHANGED <<kind, exec, running, active, clock, counters, measure, window, ahead, real, silent>>

\* OnInputDataFailed or OnInputDataOK. A timeshift player forgives.
JudgeInput ==
    /\ pc = "judge_in"
    /\ pc' = "judge_out"
    /\ IF diffIn < MinIn /\ kind # "player" THEN Quit ELSE UNCHANGED running
    /\ UNCHANGED <<kind, exec, active, clock, counters, measure, window, ahead, real, silent>>

\* Mutant: a stream without output gets another period.
JudgeOutputForgives ==
    /\ pc = "judge_out"
    /\ pc' = "report"
    /\ ResetDataWait
    /\ UNCHANGED <<kind, exec, running, active, lag, due, total, read, inputRead, todo, measure, silent>>

\* OnOutputDataFailed quits, OnOutputDataOK sets a new checkpoint. A timeshift
\* recorder forgives.
JudgeOutput ==
    /\ pc = "judge_out"
    /\ pc' = "report"
    /\ IF diffOut < MinOut /\ kind # "recorder"
       THEN Quit /\ UNCHANGED <<since, prev, window, ahead, real>>
       ELSE ResetDataWait /\ UNCHANGED running
    /\ UNCHANGED <<kind, exec, active, lag, due, total, read, inputRead, todo, measure, silent>>

\* Mutant: the delay is added to a time that has it in already.
ReportLate ==
    /\ pc = "report"
    /\ pc' = "idle"
    /\ IF active /\ due <= 0
       THEN due' = 2 * ReportDelay /\ silent' = 0
       ELSE UNCHANGED <<due, silent>>
    /\ diffIn' = 0 /\ diffOut' = 0 /\ seenIn' = 0 /\ seenOut' = 0 /\ seenOff' = {}
    /\ UNCHANGED <<kind, exec, running, active, lag, since, counters, window, ahead, real>>

\* The last part: an active stream reports its statistics.
Report ==
    /\ pc = "report"
    /\ pc' = "idle"
    /\ IF active /\ due <= 0
       THEN due' = ReportDelay /\ silent' = 0
       ELSE UNCHANGED <<due, silent>>
    /\ diffIn' = 0 /\ diffOut' = 0 /\ seenIn' = 0 /\ seenOut' = 0 /\ seenOff' = {}
    /\ UNCHANGED <<kind, exec, running, active, lag, since, counters, window, ahead, real>>

-----------------------------------------------------------------------------
MainStep ==
    \/ Tick \/ JudgeInput \/ JudgeOutput \/ Report
    \/ \E ch \in Inputs : DurationRead(ch) \/ \E d \in Durations : DurationAdded(ch, d)

Next ==
    \/ StartExec \/ QuitElsewhere \/ FinishExec \/ StatusChanged
    \/ \E t \in Threads : BufferRead(t) \/ BufferWrite(t) \/ PassUncounted(t)
    \/ DurationChanged
    \/ \E k \in ClockSteps : Second(k)
    \/ MainStep

(***************************************************************************)
(* Seconds pass and the main thread goes on. The timer and the bus are     *)
(* sources of one priority, so glib does not pass an expired timer over    *)
(* for ever. No data is promised.                                          *)
(***************************************************************************)
Fairness == WF_vars(\E k \in ClockSteps : Second(k)) /\ WF_vars(MainStep) /\ SF_vars(Tick)

Spec == Init /\ [][Next]_vars /\ Fairness

-----------------------------------------------------------------------------
\* Type correctness; the counters are size_t and the history stays in bounds.
TypeOK ==
    /\ kind \in Kinds /\ exec \in BOOLEAN /\ running \in BOOLEAN /\ active \in BOOLEAN
    /\ pc \in {"idle", "judge_in", "judge_out", "report", "duration"}
    /\ lag \in 0 .. MaxLag /\ since \in Int /\ due \in Int
    /\ total \in [Channels -> 0 .. SizeMod - 1] /\ prev \in [Channels -> 0 .. SizeMod - 1]
    /\ read \in [Threads -> {NoRead} \cup (0 .. SizeMod - 1)]
    /\ inputRead \in [Inputs -> {NoRead} \cup (0 .. SizeMod - 1)]
    /\ todo \subseteq Http
    /\ recv \in [Channels -> 0 .. MaxWindow] /\ off \subseteq Channels /\ seenOff \subseteq Channels
    /\ ahead \in BOOLEAN /\ real \in 0 .. PanicSec + 1 /\ silent \in 0 .. ReportDelay + MaxLag + 1

\* channel_stats.h:54, "received bytes": what a channel has counted since the
\* checkpoint is what has passed its pads, with any number of pads to a channel,
\* while buffers arrive during a tick, across restarts and when the counter
\* wraps. A counter goes wrong in three ways only, and by the next checkpoint it
\* is right again: an update is written over another one, data passes uncounted,
\* or a duration is added.
TotalIsReceived == \A ch \in Channels \ off : GetDiffTotalBytes(ch) = recv[ch]

\* The checks quit a stream for want of data: the inputs or the outputs had too
\* little when they were measured, unless one of their counters had gone wrong;
\* and more than the period has passed since the checkpoint, unless the wall
\* clock has run ahead. Nothing else makes them quit a stream that has its data:
\* no wrap of a counter, restart, late tick or step back of the clock, and
\* nothing that happened before the checkpoint.
QuitOnlyStarved ==
    [][/\ pc = "judge_in" /\ pc' # pc /\ running /\ ~running' =>
              (real > PanicSec \/ ahead) /\ (seenIn < MinIn \/ seenOff \cap Inputs # {})
       /\ pc = "judge_out" /\ pc' # pc /\ running /\ ~running' =>
              (real > PanicSec \/ ahead) /\ (seenOut < MinOut \/ seenOff \cap Outputs # {})]_vars

\* The wall clock steps back only so often: from some time on it runs with the
\* seconds, and since only falls when there is a new checkpoint.
ClockSettles == <>[][since' >= since \/ real' = 0]_vars

\* A stream does not run on without input, though its threads, its output and
\* its status go on: again and again data comes in, or a duration that the code
\* takes for data, or the loop is quit.
NoInputRestarts ==
    kind # "player" /\ ClockSettles =>
        []<>(~running \/ pc = "duration" \/ \E ch \in Inputs : recv[ch] > 0)

\* Nor does it run on without output, whatever duration messages do to the
\* counters of the inputs meanwhile.
NoOutputRestarts ==
    kind # "recorder" /\ ClockSettles => []<>(~running \/ \E ch \in Outputs : recv[ch] > 0)

\* An active stream is never silent for longer than the delay of the reports
\* and the lateness of the main loop, whatever the checks decide meanwhile.
ReportsKeepComing == silent <= ReportDelay + MaxLag
=============================================================================
