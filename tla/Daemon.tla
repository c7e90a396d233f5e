------------------------------- MODULE Daemon -------------------------------
(***************************************************************************)
(* The service (ProcessSlaveWrapper): it forks one process per stream,     *)
(* keeps a pipe to each, reaps it, and obeys the clients that activated    *)
(* themselves with the license.                                            *)
(*                                                                         *)
(* Its handlers run on one libev thread, so each is one action. The        *)
(* processes it forks run beside it. A stream process is what              *)
(* StreamController promises of it: it may exit at any time, a command     *)
(* does not surely end it, the closing of its pipe does.                   *)
(*                                                                         *)
(* fork() copies every descriptor. A process closes the daemon's ends of   *)
(* its own two pipes, and keeps the daemon's ends of the pipes of the      *)
(* older processes; inherited records them.                                *)
(***************************************************************************)
EXTENDS Naturals

CONSTANTS
    StreamIds,   \* stream_id_t
    Clients,     \* connections of the daemon's protocol
    MaxForks     \* bound: processes forked in a behaviour

ASSUME ForksAssumption == MaxForks \in Nat

Pids == 1 .. MaxForks
NoId == "no id"

VARIABLES
    daemon,     \* "up", "stopping" (quit_cleanup_timer_ is set) or "gone"
    client,     \* per connection: "off", "connected" or "verified"
    forks,      \* processes forked so far: pids are 1 .. forks
    sid,        \* the stream id of each process
    proc,       \* per pid: "none", "alive", "zombie" or "reaped"
    childs,     \* pids with a ChildStream (and its shared memory) in the loop
    clientPtr,  \* those whose ChildStream's client_ is not null
    pipe,       \* per pid, the daemon's pipe client: "none", "open", "closed"
    inherited,  \* per pid: the pids whose daemon-side descriptors it copied
    told,       \* pids that were written a STOP_STREAM while they lived
    vods,       \* the stream ids in vods_links_
    requested,  \* closures of OnHttpRequest queued for the loop thread
    announced,  \* history: pids whose exit was broadcast
    stopForks   \* history: forks when the stop of the service was accepted

conns == <<client, vods, requested>>
table == <<childs, clientPtr, pipe>>
procs == <<forks, sid, proc, inherited>>
past  == <<announced, stopForks>>
vars  == <<daemon, conns, table, procs, told, past>>

Init ==
    /\ daemon = "up"
    /\ client = [c \in Clients |-> "off"]
    /\ forks = 0
    /\ sid = [p \in Pids |-> NoId]
    /\ proc = [p \in Pids |-> "none"]
    /\ childs = {} /\ clientPtr = {}
    /\ pipe = [p \in Pids |-> "none"]
    /\ inherited = [p \in Pids |-> {}]
    /\ told = {}
    /\ vods = {} /\ requested = {}
    /\ announced = {} /\ stopForks = 0

Serving == daemon # "gone"
Alive == {p \in Pids : proc[p] = "alive"}

\* The loop's children with a stream id; FindChildByID returns one of them.
FindChildByID(s) == {p \in childs : sid[p] = s}

-----------------------------------------------------------------------------
(* Clients of the daemon's protocol.                                       *)

Accepted(c) ==
    /\ Serving
    /\ client[c] = "off"
    /\ client' = [client EXCEPT ![c] = "connected"]
    /\ UNCHANGED <<daemon, vods, requested, table, procs, told, past>>

\* A read error, an unparsable command or a failed ping: Close() and delete.
ClientLost(c) ==
    /\ Serving
    /\ client[c] # "off"
    /\ client' = [client EXCEPT ![c] = "off"]
    /\ UNCHANGED <<daemon, vods, requested, table, procs, told, past>>

\* The license is right; a wrong one changes nothing.
Activate(c) ==
    /\ Serving
    /\ client[c] # "off"
    /\ client' = [client EXCEPT ![c] = "verified"]
    /\ UNCHANGED <<daemon, vods, requested, table, procs, told, past>>

\* Replace vods_links_ by the VOD lines among the streams of the request.
SyncService(c, lines) ==
    /\ Serving
    /\ client[c] = "verified"
    /\ vods' = lines
    /\ UNCHANGED <<daemon, client, requested, table, procs, told, past>>

-----------------------------------------------------------------------------
(* Starting a stream.                                                      *)

\* Mutant: the duplicate is looked for among the children that still have a
\* pipe client.
NotFoundOpen(s) == FindChildByID(s) \cap clientPtr = {}

\* CreateChildStream refuses an id that has a child.
NotFound(s) == FindChildByID(s) = {}

\* Mutant: the process keeps the daemon's end of its own command pipe too.
CopiesWithOwn == {q \in Pids : pipe[q] = "open"} \cup {forks + 1}

\* What the next process keeps: the daemon's open ends, without its own two.
Copies == {q \in Pids : pipe[q] = "open"}

\* fork() in the parent: register the pipe client and the child. The new
\* process keeps what the daemon had open for the others.
Fork(s) ==
    LET p == forks + 1 IN
    /\ forks < MaxForks
    /\ forks' = p
    /\ sid' = [sid EXCEPT ![p] = s]
    /\ proc' = [proc EXCEPT ![p] = "alive"]
    /\ inherited' = [inherited EXCEPT ![p] = Copies]
    /\ childs' = childs \cup {p}
    /\ clientPtr' = clientPtr \cup {p}
    /\ pipe' = [pipe EXCEPT ![p] = "open"]

\* fork() failed: "Failed to start children!" is logged and no error returned.
ForkFailed == UNCHANGED <<procs, table>>

CreateChildStream(s) ==
    /\ NotFound(s)
    /\ Fork(s) \/ ForkFailed

\* DAEMON_START_STREAM. Requests that are refused change nothing.
StartStream(c, s) ==
    /\ Serving
    /\ client[c] = "verified"
    /\ CreateChildStream(s)
    /\ UNCHANGED <<daemon, conns, told, announced, stopForks>>

\* OnHttpRequest, on the thread of the VOD server: a playlist was asked for.
OnHttpRequest(s) ==
    /\ Serving
    /\ s \notin requested
    /\ requested' = requested \cup {s}
    /\ UNCHANGED <<daemon, client, vods, table, procs, told, past>>

\* The closure on the loop thread: the link is looked up now, and the stream
\* is started unless it is unknown, complete on disk, or running already.
VodRequested(s) ==
    /\ Serving
    /\ s \in requested
    /\ requested' = requested \ {s}
    /\ \/ s \in vods /\ CreateChildStream(s)
       \/ UNCHANGED <<procs, table>>
    /\ UNCHANGED <<daemon, client, vods, told, past>>

-----------------------------------------------------------------------------
(* Commanding the processes and stopping the service.                      *)

\* Mutant: nothing is written.
SendStopForgotten(ps) == UNCHANGED told

\* Child::SendStop writes if client_ is set, else fails; the handlers ignore
\* the result. SendRestart does the same and leaves nothing behind here.
SendStop(ps) == told' = told \cup (ps \cap clientPtr \cap Alive)

StopStream(c, s) ==
    /\ Serving
    /\ client[c] = "verified"
    /\ SendStop(FindChildByID(s))
    /\ UNCHANGED <<daemon, conns, table, procs, past>>

\* Verified clients, and any connection that knows the license. A second
\* request while the timer runs is refused.
StopService(c) ==
    /\ daemon = "up"
    /\ client[c] # "off"
    /\ daemon' = "stopping"
    /\ SendStop(childs)
    /\ stopForks' = forks
    /\ UNCHANGED <<conns, table, procs, announced>>

\* Whatever ends the daemon, the kernel closes its descriptors and its dead
\* children are reaped by init.
Gone ==
    /\ daemon' = "gone"
    /\ client' = [c \in Clients |-> "off"]
    /\ requested' = {}
    /\ childs' = {} /\ clientPtr' = {}
    /\ pipe' = [p \in Pids |-> IF pipe[p] = "open" THEN "closed" ELSE pipe[p]]
    /\ proc' = [p \in Pids |-> IF proc[p] = "zombie" THEN "reaped" ELSE proc[p]]
    /\ UNCHANGED <<forks, sid, inherited, told, vods, past>>

\* quit_cleanup_timer_: the servers and the loop are stopped, main() returns.
QuitTimer == daemon = "stopping" /\ Gone

\* The daemon is killed or fails a CHECK.
DaemonCrash == Serving /\ Gone

-----------------------------------------------------------------------------
(* What the processes do, and what the loop makes of it.                   *)

\* A stream ends: stopped, a VOD finished, unsupported, or crashed.
ChildExits(p) ==
    /\ proc[p] = "alive"
    /\ proc' = [proc EXCEPT ![p] = IF Serving THEN "zombie" ELSE "reaped"]
    /\ told' = told \ {p}
    /\ UNCHANGED <<daemon, conns, table, forks, sid, inherited, past>>

\* Who can still write to p's command pipe.
HasWriter(p) == pipe[p] = "open" \/ \E q \in Alive : p \in inherited[q]

\* The end of file of its command pipe ends a stream process.
ChildSeesEof(p) == ~HasWriter(p) /\ ChildExits(p)

\* Mutant: client_ is left pointing at the deleted pipe client.
PipeErrorKeepsPointer(p) ==
    /\ Serving
    /\ pipe[p] = "open"
    /\ pipe' = [pipe EXCEPT ![p] = "closed"]
    /\ UNCHANGED <<daemon, conns, childs, clientPtr, procs, told, past>>

\* Mutant: the pipe client is closed only if its child is still in the table.
PipeErrorNeedsChild(p) ==
    /\ Serving
    /\ pipe[p] = "open" /\ p \in clientPtr
    /\ clientPtr' = clientPtr \ {p}
    /\ pipe' = [pipe EXCEPT ![p] = "closed"]
    /\ UNCHANGED <<daemon, conns, childs, procs, told, past>>

\* Mutant: the child is dropped together with its pipe client.
PipeErrorDropsChild(p) ==
    /\ Serving
    /\ pipe[p] = "open"
    /\ clientPtr' = clientPtr \ {p}
    /\ childs' = childs \ {p}
    /\ pipe' = [pipe EXCEPT ![p] = "closed"]
    /\ UNCHANGED <<daemon, conns, procs, told, past>>

\* A read error or an unparsable command: null the child's client_, close and
\* delete the pipe client.
PipeError(p) ==
    /\ Serving
    /\ pipe[p] = "open"
    /\ clientPtr' = clientPtr \ {p}
    /\ pipe' = [pipe EXCEPT ![p] = "closed"]
    /\ UNCHANGED <<daemon, conns, childs, procs, told, past>>

\* The end of file after the process has died.
PipeEof(p) == proc[p] \in {"zombie", "reaped"} /\ PipeError(p)

\* Mutant: the exit of a child whose pipe client is still open is passed over.
StatusNeedsNoClient(p) ==
    /\ Serving
    /\ proc[p] = "zombie" /\ p \in childs
    /\ proc' = [proc EXCEPT ![p] = "reaped"]
    /\ childs' = childs \ {p}
    /\ clientPtr' = clientPtr \ {p}
    /\ announced' = IF p \in clientPtr THEN announced ELSE announced \cup {p}
    /\ UNCHANGED <<daemon, conns, pipe, forks, sid, inherited, told, stopForks>>

\* ChildStatusChanged: unregister and delete the child, tell the clients.
ChildStatusChanged(p) ==
    /\ Serving
    /\ proc[p] = "zombie" /\ p \in childs
    /\ proc' = [proc EXCEPT ![p] = "reaped"]
    /\ childs' = childs \ {p}
    /\ clientPtr' = clientPtr \ {p}
    /\ announced' = announced \cup {p}
    /\ UNCHANGED <<daemon, conns, pipe, forks, sid, inherited, told, stopForks>>

\* The service and its processes are gone.
Terminated ==
    /\ daemon = "gone" /\ Alive = {}
    /\ UNCHANGED vars

-----------------------------------------------------------------------------
\* The daemon's handlers.
ClientEvent ==
    \E c \in Clients :
        \/ Accepted(c) \/ ClientLost(c) \/ Activate(c) \/ StopService(c)
        \/ \E lines \in SUBSET StreamIds : SyncService(c, lines)
        \/ \E s \in StreamIds : StartStream(c, s) \/ StopStream(c, s)

VodEvent == \E s \in StreamIds : OnHttpRequest(s) \/ VodRequested(s)

ChildEvent ==
    \E p \in Pids :
        \/ ChildExits(p) \/ ChildSeesEof(p)
        \/ PipeError(p) \/ PipeEof(p)
        \/ ChildStatusChanged(p)

Next == ClientEvent \/ VodEvent \/ ChildEvent \/ QuitTimer \/ DaemonCrash \/ Terminated

(***************************************************************************)
(* libev delivers a pending end of file, a pending SIGCHLD and an expired  *)
(* timer, and a stream process whose pipe is closed ends (PipeClosedEnds   *)
(* of StreamController). Clients, HTTP requests and exits are not assumed. *)
(***************************************************************************)
Fairness ==
    /\ \A p \in Pids : WF_vars(ChildSeesEof(p)) /\ WF_vars(PipeEof(p))
                       /\ WF_vars(ChildStatusChanged(p))
    /\ WF_vars(QuitTimer)

Spec == Init /\ [][Next]_vars /\ Fairness

-----------------------------------------------------------------------------
\* Type correctness; the loop's children and the commands sent are those of
\* processes that fork() returned.
TypeOK ==
    /\ daemon \in {"up", "stopping", "gone"}
    /\ client \in [Clients -> {"off", "connected", "verified"}]
    /\ forks \in 0 .. MaxForks
    /\ sid \in [Pids -> StreamIds \cup {NoId}]
    /\ proc \in [Pids -> {"none", "alive", "zombie", "reaped"}]
    /\ childs \subseteq Pids /\ clientPtr \subseteq Pids
    /\ pipe \in [Pids -> {"none", "open", "closed"}]
    /\ inherited \in [Pids -> SUBSET Pids]
    /\ told \subseteq Pids
    /\ vods \subseteq StreamIds /\ requested \subseteq StreamIds
    /\ announced \subseteq Pids /\ stopForks \in 0 .. MaxForks

\* A stream never runs in two processes at once, whatever clients and HTTP
\* requests ask for and in whatever order exits and pipe errors are noticed:
\* both would write to the same outputs.
OneProcessPerStream ==
    \A p, q \in Alive : sid[p] = sid[q] => p = q

\* A child's client_ points at a pipe client that exists: SendStop and
\* SendRestart never write through a deleted one.
ClientPointersValid ==
    clientPtr \subseteq {p \in childs : pipe[p] = "open"}

\* As long as the daemon runs, a process it has forked and not reaped is in the
\* loop's table, so it can be found, commanded and reaped.
Supervised ==
    Serving => childs = {p \in Pids : proc[p] \in {"alive", "zombie"}}

\* While the service stops, every process of before that can be reached has
\* been told to stop, also when pipes broke or children died meanwhile.
StoppingToldEveryone ==
    daemon = "stopping" => {p \in Alive \cap clientPtr : p <= stopForks} \subseteq told

\* The exit of every process is broadcast while the daemon runs, whichever of
\* the end of file and SIGCHLD is served first.
ExitIsAnnounced ==
    \A p \in Pids : (proc[p] = "zombie") ~> (p \in announced \/ daemon = "gone")

\* The daemon's descriptors of a dead process are closed, also when its child
\* was deleted before the end of file was read.
PipesReleased ==
    \A p \in Pids : (proc[p] = "zombie") ~> (pipe[p] = "closed")

\* When the daemon is gone, however it ended, its stream processes end, from
\* the youngest to the oldest: each holds copies of its elders' pipes only.
NoOrphans == (daemon = "gone") ~> (Alive = {})

\* process_slave_wrapper.cpp:588, DCHECK(!channel->GetClient()): "In this place
\* client should be nulled."
ClientNulledBeforeReap ==
    [][\A p \in childs : p \notin childs' /\ Serving' => p \notin clientPtr]_vars

=============================================================================
