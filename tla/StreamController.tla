-------------------------- MODULE StreamController --------------------------
(***************************************************************************)
(* The process of one stream: StreamController::Exec and the life of the   *)
(* IBaseStream object it creates, runs and destroys.                       *)
(*                                                                         *)
(* Three threads share this state.                                         *)
(*   - The control thread runs StreamController::Exec and, inside it,      *)
(*     IBaseStream::Exec with its glib main loop; its position is pc.      *)
(*   - The loop thread runs libev: it reads the daemon's pipe and the TTL  *)
(*     timer and calls Stop() and Restart(); its position is lpc.          *)
(*   - The pipeline (bus watch, one-second timer, streaming threads) asks  *)
(*     the stream to quit by itself; its position is qpc.                  *)
(* stop_mutex_ is only ever held for one action here, so it has no         *)
(* variable of its own. origin_, last_exit_status_ and the object behind   *)
(* origin_ are shared without a lock, as in the code.                      *)
(***************************************************************************)
EXTENDS Naturals

CONSTANTS
    Kinds,                  \* kinds of stream configuration to consider
    TtlChoices,             \* whether the configuration sets a time to live
    MaxRestartAttempts,     \* config_->GetMaxRestartAttempts()
    RestartAfterFrozenSec,  \* restart_after_frozen_sec
    MaxCommands             \* bound: commands the daemon writes to the pipe

AllKinds == {"live", "vod", "player", "unsupported", "bad_layout"}

ASSUME KindsAssumption == Kinds \subseteq AllKinds
ASSUME TtlAssumption == TtlChoices \subseteq BOOLEAN
ASSUME AttemptsAssumption == MaxRestartAttempts \in Nat \ {0}
ASSUME FrozenAssumption == RestartAfterFrozenSec \in Nat \ {0}
ASSUME CommandsAssumption == MaxCommands \in Nat

VARIABLES
    pc,          \* control thread
    kind,        \* what config_ describes; never changes
    attempts,    \* restart_attempts_
    stop,        \* stop_
    signalled,   \* the waiting control thread has been notified
    waitTime,    \* wait_time of the current back-off
    origin,      \* what origin_ points to: "null", "live" or "deleted"
    running,     \* g_main_loop_is_running(loop_) of the live stream
    exitStatus,  \* last_exit_status_ of the live stream
    res,         \* what the last Exec() returned
    status,      \* mem_->status, the status clients are shown
    longAgo,     \* mem_->WithoutRestartTime() exceeds ten frozen periods
    lpc,         \* loop thread
    cmd,         \* the command the loop thread is executing
    held,        \* what the loop thread's copy of origin_ points to
    commands,    \* commands received so far
    eof,         \* the daemon's end of the pipe is closed
    ttl,         \* the time-to-live timer is armed
    qpc,         \* the pipeline's own Quit()
    qstatus,     \* the status that Quit() carries
    ran,         \* history: the latest stream has entered its main loop
    fails,       \* history: failed runs since the last settled one
    starts,      \* history: streams created after stop_ was set
    waits        \* history: back-off waits begun after stop_ was set

control == <<pc, attempts, signalled, waitTime, origin, res, status>>
stream  == <<running, exitStatus, qpc, qstatus>>
loop    == <<lpc, cmd, held, commands, eof, ttl>>
history == <<ran, fails, starts, waits>>
vars    == <<control, kind, stop, stream, longAgo, loop, history>>

Ended == pc \in {"exited", "crashed"}

\* A history counter of events after stop_; two is enough to refute "at most one".
CountAfterStop(n) == IF stop /\ n < 2 THEN n + 1 ELSE n

Init ==
    /\ pc = "init"
    /\ kind \in Kinds
    /\ attempts = 0
    /\ stop = FALSE
    /\ signalled = FALSE
    /\ waitTime = 0
    /\ origin = "null"
    /\ running = FALSE
    /\ exitStatus = "inner"
    /\ res = "inner"
    /\ status = "NEW"
    /\ longAgo = TRUE            \* loop_start_time is 0: the epoch
    /\ lpc = "idle" /\ cmd = "none" /\ held = "none"
    /\ commands = 0 /\ eof = FALSE
    /\ ttl \in TtlChoices
    /\ qpc = "idle" /\ qstatus = "inner"
    /\ ran = FALSE /\ fails = 0 /\ starts = 0 /\ waits = 0

-----------------------------------------------------------------------------
(* The control thread: StreamController::Init, Exec and the destructor.    *)

\* proc.Init(config_args): either Exec() is called, or the destructor joins a
\* thread that was never started and the process is terminated.
InitController ==
    /\ pc = "init"
    /\ pc' \in {"top", "crashed"}
    /\ UNCHANGED <<attempts, signalled, waitTime, origin, res, status>>
    /\ UNCHANGED <<kind, stop, stream, longAgo, loop, history>>

\* Mutant: the loop runs for ever, whatever stop_ says.
LoopTopIgnoresStop ==
    /\ pc = "top"
    /\ pc' = IF kind = "player" THEN "find" ELSE "create"
    /\ UNCHANGED <<attempts, signalled, waitTime, origin, res, status>>
    /\ UNCHANGED <<kind, stop, stream, longAgo, loop, history>>

\* while (!stop_), and the branch on the stream type.
LoopTop ==
    /\ pc = "top"
    /\ pc' = IF stop THEN "join" ELSE IF kind = "player" THEN "find" ELSE "create"
    /\ UNCHANGED <<attempts, signalled, waitTime, origin, res, status>>
    /\ UNCHANGED <<kind, stop, stream, longAgo, loop, history>>

\* FindChunkToPlay looks at the recorder's directory, which others change.
FindChunkToPlay ==
    /\ pc = "find"
    /\ \/ pc' = "create" /\ UNCHANGED status
       \/ pc' = "chunk_lock" /\ status' = "WAITING"
    /\ UNCHANGED <<attempts, signalled, waitTime, origin, res>>
    /\ UNCHANGED <<kind, stop, stream, longAgo, loop, history>>

\* Lock stop_mutex_ and start waiting for one chunk duration.
ChunkWait ==
    /\ pc = "chunk_lock"
    /\ pc' = "chunk_wait"
    /\ signalled' = FALSE
    /\ UNCHANGED <<attempts, waitTime, origin, res, status>>
    /\ UNCHANGED <<kind, stop, stream, longAgo, loop, history>>

\* wait_for returns no_timeout (notified, or spuriously): leave the inner loop
\* with an invalid index and continue the outer one.
ChunkWakeNotified ==
    /\ pc = "chunk_wait"
    /\ pc' = "top"
    /\ UNCHANGED <<attempts, signalled, waitTime, origin, res, status>>
    /\ UNCHANGED <<kind, stop, stream, longAgo, loop, history>>

\* wait_for returns timeout, which it also does when the thread gets the mutex
\* back only after the deadline: look for a chunk again.
ChunkWakeTimeout ==
    /\ pc = "chunk_wait"
    /\ pc' = "find"
    /\ UNCHANGED <<attempts, signalled, waitTime, origin, res, status>>
    /\ UNCHANGED <<kind, stop, stream, longAgo, loop, history>>

\* A freed stream's address may be handed out again by the next allocation.
Reallocated(p) == IF p = "dangling" THEN {"dangling", "live"} ELSE {p}

\* IBaseStream's constructor.
Constructed == origin' = "live" /\ exitStatus' = "inner" /\ status' = "NEW"

\* origin_ = CreateStream(...), which supports some configurations only.
CreateStream ==
    /\ pc = "create"
    /\ IF kind = "unsupported"
       THEN /\ pc' = "join"
            /\ UNCHANGED <<origin, status, exitStatus, held, ran, starts>>
       ELSE /\ pc' = "pipeline"
            /\ Constructed
            /\ held' \in Reallocated(held)
            /\ ran' = FALSE
            /\ starts' = CountAfterStop(starts)
    /\ UNCHANGED <<attempts, signalled, waitTime, res, kind, stop, longAgo>>
    /\ UNCHANGED <<running, qpc, qstatus, lpc, cmd, commands, eof, ttl, fails, waits>>

\* IBaseStream::Exec up to Play(). Only the mosaic builder can fail; then Exec
\* returns EXIT_INNER at once and loop_start_time keeps its old value. A CHECK
\* in a builder aborts the process.
InitPipeLine ==
    /\ pc = "pipeline"
    /\ \/ /\ kind = "bad_layout"
          /\ pc' = "destroy"
          /\ res' = "inner"
          /\ UNCHANGED <<status, longAgo>>
       \/ /\ kind # "bad_layout"
          /\ pc' = "armed"
          /\ status' = "INIT"
          /\ longAgo' = FALSE
          /\ UNCHANGED res
       \/ /\ kind # "bad_layout"
          /\ pc' = "crashed"
          /\ UNCHANGED <<res, status, longAgo>>
    /\ UNCHANGED <<attempts, signalled, waitTime, origin, kind, stop, stream, loop, history>>

\* PreLoop(); g_main_loop_run(loop_).
RunMainLoop ==
    /\ pc = "armed"
    /\ pc' = "running"
    /\ running' = TRUE
    /\ ran' = TRUE
    /\ UNCHANGED <<attempts, signalled, waitTime, origin, res, status, exitStatus, qpc, qstatus>>
    /\ UNCHANGED <<kind, stop, longAgo, loop, fails, starts, waits>>

\* g_main_loop_run returns once the loop was told to quit.
MainLoopReturns ==
    /\ pc = "running" /\ ~running
    /\ pc' = "post"
    /\ UNCHANGED <<attempts, signalled, waitTime, origin, res, status>>
    /\ UNCHANGED <<kind, stop, stream, longAgo, loop, history>>

\* The rest of IBaseStream::Exec: Stop() waits for the streaming threads, then
\* last_exit_status_ is returned.
FinishExec ==
    /\ pc = "post" /\ qpc = "idle"
    /\ pc' = "destroy"
    /\ status' = "INIT"
    /\ res' = exitStatus
    /\ UNCHANGED <<attempts, signalled, waitTime, origin>>
    /\ UNCHANGED <<kind, stop, stream, longAgo, loop, history>>

\* destroy(&origin_) deletes the stream ...
DeleteOrigin ==
    /\ pc = "destroy"
    /\ pc' = "null"
    /\ origin' = "deleted"
    /\ status' = "NEW"
    /\ held' = IF held = "live" THEN "dangling" ELSE held
    /\ UNCHANGED <<attempts, signalled, waitTime, res, kind, stop, stream, longAgo>>
    /\ UNCHANGED <<lpc, cmd, commands, eof, ttl, history>>

\* ... and then clears the pointer.
NullOrigin ==
    /\ pc = "null"
    /\ pc' = "decide"
    /\ origin' = "null"
    /\ UNCHANGED <<attempts, signalled, waitTime, res, status>>
    /\ UNCHANGED <<kind, stop, stream, longAgo, loop, history>>

\* Mutant: a VOD is restarted like a live stream.
NeverVod == FALSE

\* origin_->IsVod().
IsVod == kind = "vod"

\* A VOD is played once, whatever its Exec() returned.
VodFinished ==
    /\ pc = "decide" /\ IsVod
    /\ pc' = "join"
    /\ UNCHANGED <<attempts, signalled, waitTime, origin, res, status>>
    /\ UNCHANGED <<kind, stop, stream, longAgo, loop, history>>

\* EXIT_SELF, or the "longer work" test passed: restart at once.
RestartAtOnce ==
    /\ pc = "decide" /\ ~IsVod
    /\ res = "self" \/ longAgo
    /\ pc' = "top"
    /\ attempts' = 0
    /\ fails' = 0
    /\ UNCHANGED <<signalled, waitTime, origin, res, status>>
    /\ UNCHANGED <<kind, stop, stream, longAgo, loop, ran, starts, waits>>

\* ++restart_attempts_ == config_->GetMaxRestartAttempts().
IsLastAttempt == attempts + 1 = MaxRestartAttempts

\* Mutant: the share of the attempts that are left.
RemainingShare(n) == (MaxRestartAttempts - n) * (RestartAfterFrozenSec \div MaxRestartAttempts)

\* Seconds to wait after the n-th attempt that is not the last.
BackOffSec(n) == n * (RestartAfterFrozenSec \div MaxRestartAttempts)

\* Otherwise the run has failed: the last attempt freezes the stream for the
\* whole period, an earlier one waits its share of it.
BackOff ==
    /\ pc = "decide" /\ ~IsVod
    /\ res = "inner" /\ ~longAgo
    /\ pc' = "wait_lock"
    /\ fails' = IF fails = MaxRestartAttempts THEN 1 ELSE fails + 1
    /\ IF IsLastAttempt
       THEN /\ attempts' = 0
            /\ status' = "FROZEN"
            /\ waitTime' = RestartAfterFrozenSec
       ELSE /\ attempts' = attempts + 1
            /\ waitTime' = BackOffSec(attempts + 1)
            /\ UNCHANGED status
    /\ UNCHANGED <<signalled, origin, res>>
    /\ UNCHANGED <<kind, stop, stream, longAgo, loop, ran, starts, waits>>

\* Lock stop_mutex_ and start waiting; stop_ is not looked at.
BackOffWait ==
    /\ pc = "wait_lock"
    /\ pc' = "waiting"
    /\ signalled' = FALSE
    /\ waits' = CountAfterStop(waits)
    /\ UNCHANGED <<attempts, waitTime, origin, res, status>>
    /\ UNCHANGED <<kind, stop, stream, longAgo, loop, ran, fails, starts>>

\* Mutant: the attempts of a notified stream are kept.
BackOffWakeKeepsAttempts ==
    /\ pc = "waiting"
    /\ pc' = "top"
    /\ fails' = 0
    /\ UNCHANGED <<attempts, signalled, waitTime, origin, res, status>>
    /\ UNCHANGED <<kind, stop, stream, longAgo, loop, ran, starts, waits>>

\* no_timeout: a notification, or a spurious wake-up taken for one.
BackOffWakeNotified ==
    /\ pc = "waiting"
    /\ pc' = "top"
    /\ attempts' = 0
    /\ fails' = 0
    /\ UNCHANGED <<signalled, waitTime, origin, res, status>>
    /\ UNCHANGED <<kind, stop, stream, longAgo, loop, ran, starts, waits>>

\* Mutant: the attempts are forgotten after every wait.
BackOffTimeoutForgets ==
    /\ pc = "waiting"
    /\ pc' = "top"
    /\ attempts' = 0
    /\ UNCHANGED <<signalled, waitTime, origin, res, status>>
    /\ UNCHANGED <<kind, stop, stream, longAgo, loop, history>>

\* timeout, also reported when a notified thread resumes after its deadline.
BackOffWakeTimeout ==
    /\ pc = "waiting"
    /\ pc' = "top"
    /\ UNCHANGED <<attempts, signalled, waitTime, origin, res, status>>
    /\ UNCHANGED <<kind, stop, stream, longAgo, loop, history>>

\* ~StreamController: loop_->Stop() ...
StopLoop ==
    /\ pc = "join"
    /\ pc' = "joining"
    /\ UNCHANGED <<attempts, signalled, waitTime, origin, res, status>>
    /\ UNCHANGED <<kind, stop, stream, longAgo, loop, history>>

\* ... and ev_thread_.join().
JoinLoopThread ==
    /\ pc = "joining" /\ lpc = "idle"
    /\ pc' = "exited"
    /\ UNCHANGED <<attempts, signalled, waitTime, origin, res, status>>
    /\ UNCHANGED <<kind, stop, stream, longAgo, loop, history>>

-----------------------------------------------------------------------------
(* The loop thread. It serves one event at a time, from idle to idle.      *)

LoopServes == pc \notin {"init", "joining", "exited", "crashed"} /\ lpc = "idle"

\* DataReceived: a request, a response, or bytes that do not parse. Whatever
\* is not a restart or something to ignore ends in Stop().
Messages == {"stop_stream", "restart_stream", "ignored", "malformed"}

DataReceived(m) ==
    /\ LoopServes
    /\ ~eof /\ commands < MaxCommands
    /\ commands' = commands + 1
    /\ IF m = "ignored" THEN UNCHANGED <<lpc, cmd>>
       ELSE /\ lpc' = "lock"
            /\ cmd' = IF m = "restart_stream" THEN "restart" ELSE "stop"
    /\ UNCHANGED <<held, eof, ttl, control, kind, stop, stream, longAgo, history>>

\* The daemon's end of the pipe is closed.
PipeClosed ==
    /\ ~Ended /\ ~eof
    /\ eof' = TRUE
    /\ UNCHANGED <<lpc, cmd, held, commands, ttl, control, kind, stop, stream, longAgo, history>>

\* Mutant: the error is only logged.
ReadErrorLogged ==
    /\ LoopServes
    /\ eof
    /\ UNCHANGED vars

\* The client is not closed on a read error, so libev reports it for ever.
ReadError ==
    /\ LoopServes
    /\ eof
    /\ lpc' = "lock" /\ cmd' = "stop"
    /\ UNCHANGED <<held, commands, eof, ttl, control, kind, stop, stream, longAgo, history>>

\* The one-shot time-to-live timer.
TimerEmited ==
    /\ LoopServes
    /\ ttl
    /\ ttl' = FALSE
    /\ lpc' = "lock" /\ cmd' = "stop"
    /\ UNCHANGED <<held, commands, eof, control, kind, stop, stream, longAgo, history>>

\* Stop() and Restart(), the part under stop_mutex_.
Notify ==
    /\ ~Ended
    /\ lpc = "lock"
    /\ lpc' = "read"
    /\ stop' = (stop \/ cmd = "stop")
    /\ signalled' = (signalled \/ pc \in {"chunk_wait", "waiting"})
    /\ UNCHANGED <<pc, attempts, waitTime, origin, res, status, kind, stream, longAgo>>
    /\ UNCHANGED <<cmd, held, commands, eof, ttl, history>>

\* StopStream(): if (origin_).
ReadOrigin ==
    /\ ~Ended
    /\ lpc = "read"
    /\ IF origin = "null"
       THEN lpc' = "idle" /\ cmd' = "none" /\ UNCHANGED held
       ELSE /\ lpc' = "post"
            /\ held' = IF origin = "live" THEN "live" ELSE "dangling"
            /\ UNCHANGED cmd
    /\ UNCHANGED <<commands, eof, ttl, control, kind, stop, stream, longAgo, history>>

LoopDone == lpc' = "idle" /\ cmd' = "none" /\ held' = "none"

\* origin_->Quit(EXIT_SELF): the bus's sync handler only honours the message
\* while the stream's main loop is running; any other one is dropped.
PostQuit ==
    /\ ~Ended
    /\ lpc = "post" /\ held = "live"
    /\ IF running
       THEN lpc' = "quit" /\ UNCHANGED <<cmd, held>>
       ELSE LoopDone
    /\ UNCHANGED <<commands, eof, ttl, control, kind, stop, stream, longAgo, history>>

\* Mutant: the status is stored and the main loop left running.
QuitForgetsMainLoop ==
    /\ ~Ended
    /\ lpc = "quit" /\ held = "live"
    /\ lpc' = "store"
    /\ UNCHANGED <<cmd, held, commands, eof, ttl, control, kind, stop>>
    /\ UNCHANGED <<stream, longAgo, history>>

\* g_main_loop_quit(loop_).
QuitMainLoop ==
    /\ ~Ended
    /\ lpc = "quit" /\ held = "live"
    /\ lpc' = "store"
    /\ running' = FALSE
    /\ UNCHANGED <<cmd, held, commands, eof, ttl, control, kind, stop>>
    /\ UNCHANGED <<exitStatus, qpc, qstatus, longAgo, history>>

\* last_exit_status_ = EXIT_SELF, after the loop has been told to quit.
StoreExitStatus ==
    /\ ~Ended
    /\ lpc = "store" /\ held = "live"
    /\ exitStatus' = "self"
    /\ LoopDone
    /\ UNCHANGED <<commands, eof, ttl, control, kind, stop, running, qpc, qstatus, longAgo, history>>

\* Any of the three on a deleted stream is undefined: the process dies or the
\* access goes unnoticed.
UseAfterFree ==
    /\ ~Ended
    /\ lpc \in {"post", "quit", "store"} /\ held = "dangling"
    /\ pc' \in {pc, "crashed"}
    /\ LoopDone
    /\ UNCHANGED <<attempts, signalled, waitTime, origin, res, status>>
    /\ UNCHANGED <<commands, eof, ttl, kind, stop, stream, longAgo, history>>

-----------------------------------------------------------------------------
(* The pipeline of a running stream, and time.                             *)

\* The pipeline's state changes, dispatched by the main loop.
StateChanged ==
    /\ pc = "running" /\ running
    /\ status' \in {"INIT", "READY", "PLAYING"}
    /\ UNCHANGED <<pc, attempts, signalled, waitTime, origin, res>>
    /\ UNCHANGED <<kind, stop, stream, longAgo, loop, history>>

\* The end of the input is the success of a VOD and a failure of anything else;
\* no data for a minute and a failed push are failures of both.
QuitStatuses == IF kind = "vod" THEN {"inner", "self"} ELSE {"inner"}

\* Quit() from the stream itself.
PipelineQuit ==
    /\ pc = "running" /\ running
    /\ qpc = "idle"
    /\ qpc' = "quit"
    /\ qstatus' \in QuitStatuses
    /\ UNCHANGED <<control, kind, stop, running, exitStatus, longAgo, loop, history>>

PipelineQuitsLoop ==
    /\ ~Ended
    /\ qpc = "quit"
    /\ qpc' = "store"
    /\ running' = FALSE
    /\ UNCHANGED <<control, kind, stop, exitStatus, qstatus, longAgo, loop, history>>

PipelineStoresStatus ==
    /\ ~Ended
    /\ qpc = "store"
    /\ qpc' = "idle"
    /\ exitStatus' = qstatus
    /\ UNCHANGED <<control, kind, stop, running, qstatus, longAgo, loop, history>>

\* Ten frozen periods have passed since loop_start_time.
TimePasses ==
    /\ ~Ended /\ ~longAgo
    /\ longAgo' = TRUE
    /\ UNCHANGED <<control, kind, stop, stream, loop, history>>

\* The process is gone.
Terminated ==
    /\ Ended
    /\ UNCHANGED vars

-----------------------------------------------------------------------------
WakeTimeout == ChunkWakeTimeout \/ BackOffWakeTimeout
WakeNotified == ChunkWakeNotified \/ BackOffWakeNotified

\* What the control thread does next without being told to.
ControlStep ==
    \/ InitController \/ LoopTop \/ FindChunkToPlay \/ ChunkWait
    \/ CreateStream \/ InitPipeLine \/ RunMainLoop \/ MainLoopReturns \/ FinishExec
    \/ DeleteOrigin \/ NullOrigin
    \/ VodFinished \/ RestartAtOnce \/ BackOff \/ BackOffWait
    \/ StopLoop \/ JoinLoopThread

\* The loop thread finishing what it has begun.
LoopStep ==
    \/ Notify \/ ReadOrigin \/ PostQuit \/ QuitMainLoop \/ StoreExitStatus \/ UseAfterFree

QuitStep == PipelineQuitsLoop \/ PipelineStoresStatus

\* What comes from outside: the daemon, the timer, the media, the clock.
Environment ==
    \/ \E m \in Messages : DataReceived(m)
    \/ PipeClosed \/ TimerEmited
    \/ StateChanged \/ PipelineQuit \/ TimePasses

Next ==
    \/ ControlStep \/ WakeTimeout \/ WakeNotified
    \/ LoopStep \/ ReadError
    \/ QuitStep
    \/ Environment
    \/ Terminated

(***************************************************************************)
(* Every thread that can take a step takes it. The strong conditions are   *)
(* about a wait of seconds against a loop thread that spins: the loop      *)
(* thread does not only ever move between two waits of a player, and a     *)
(* notified waiter some time gets the mutex back before its deadline.      *)
(* Nothing is assumed of the environment.                                  *)
(***************************************************************************)
Fairness ==
    /\ WF_vars(ControlStep) /\ WF_vars(WakeTimeout)
    /\ WF_vars(LoopStep) /\ WF_vars(ReadError) /\ WF_vars(QuitStep)
    /\ SF_vars(pc = "chunk_wait" /\ ReadError)
    /\ SF_vars(pc = "chunk_wait" /\ Notify)
    /\ SF_vars(pc = "chunk_wait" /\ ReadOrigin)
    /\ SF_vars(signalled /\ WakeNotified)

Spec == Init /\ [][Next]_vars /\ Fairness

-----------------------------------------------------------------------------

Pcs == {"init", "top", "find", "chunk_lock", "chunk_wait", "create", "pipeline", "armed",
        "running", "post", "destroy", "null", "decide", "wait_lock", "waiting",
        "join", "joining", "exited", "crashed"}
Exits == {"inner", "self"}

\* Type correctness; restart_attempts_ in particular stays below its maximum,
\* so that the equality test of Exec() is met sooner or later.
TypeOK ==
    /\ pc \in Pcs
    /\ kind \in Kinds
    /\ attempts \in 0 .. MaxRestartAttempts - 1
    /\ stop \in BOOLEAN /\ signalled \in BOOLEAN
    /\ waitTime \in 0 .. RestartAfterFrozenSec
    /\ origin \in {"null", "live", "deleted"}
    /\ running \in BOOLEAN /\ exitStatus \in Exits /\ res \in Exits
    /\ status \in {"NEW", "INIT", "READY", "PLAYING", "FROZEN", "WAITING"}
    /\ longAgo \in BOOLEAN
    /\ lpc \in {"idle", "lock", "read", "post", "quit", "store"}
    /\ cmd \in {"none", "stop", "restart"}
    /\ held \in {"none", "live", "dangling"}
    /\ commands \in 0 .. MaxCommands
    /\ eof \in BOOLEAN /\ ttl \in BOOLEAN
    /\ qpc \in {"idle", "quit", "store"} /\ qstatus \in Exits
    /\ ran \in BOOLEAN
    /\ fails \in 0 .. MaxRestartAttempts
    /\ starts \in 0 .. 2 /\ waits \in 0 .. 2

\* Once stop_ is set, at most one more stream is created: the one whose turn
\* the control thread had already entered when Stop() ran.
AtMostOneStartAfterStop == starts <= 1

\* Once stop_ is set, at most one more back-off of at most a minute is sat
\* through, although the wait does not look at stop_ before it begins.
AtMostOneBackOffAfterStop == waits <= 1

\* A stream is shown FROZEN exactly while it waits out the maximal number of
\* failures in a row, counted since the last run that settled (it exited on
\* request, worked long, or its wait was interrupted).
FrozenAfterMaxFailures ==
    pc \in {"wait_lock", "waiting"} =>
        /\ fails > 0
        /\ (status = "FROZEN") <=> (fails = MaxRestartAttempts)
        /\ (status = "FROZEN") => waitTime = RestartAfterFrozenSec

\* The statuses FROZEN and WAITING tell a client that no pipeline exists; they
\* are never shown over the life of a stream.
ParkedHasNoStream == status \in {"FROZEN", "WAITING"} => origin = "null"

\* A VOD that has been played is not played again.
VodPlaysOnce == kind = "vod" /\ ran => pc \notin {"top", "create"}

\* From one failure to the next of the same row the back-off never gets
\* shorter, whatever streams, commands and statuses came between them.
BackOffNeverShrinks ==
    [][pc = "decide" /\ pc' = "wait_lock" /\ fails \in 1 .. MaxRestartAttempts - 1
         => waitTime' >= waitTime]_vars

\* When the daemon is gone, the stream process ends: the read error repeats
\* until a Stop() meets the stream in its main loop.
PipeClosedEnds == eof ~> Ended

\* A Stop() that comes between two streams, or that finds the main loop of the
\* stream running, ends the process.
StopTakesEffect ==
    (stop /\ (\/ pc \in {"decide", "wait_lock", "waiting", "top"}
              \/ lpc = "quit" /\ held = "live")) ~> Ended

\* A stream that fails for ever, without any run that settles, is frozen again
\* and again: the back-off cannot skip the freeze.
RepeatedFailureFreezes ==
    <>[](fails > 0) /\ []<>(pc = "waiting") => []<>(status = "FROZEN")

=============================================================================
