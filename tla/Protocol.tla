------------------------------ MODULE Protocol ------------------------------
(***************************************************************************)
(* The JSON-RPC conversations of the service: its clients' requests with   *)
(* their answers, its pings to them, its commands to a stream process over *)
(* the pipe, and what that process reports.                                *)
(*                                                                         *)
(* Each end of a connection numbers its own requests and keeps those that  *)
(* are not answered in a table (requests of ProtocolClient, a library). A  *)
(* handler that returns an error is logged by DaemonDataReceived, which    *)
(* neither answers nor closes: whether a client that waits for an answer   *)
(* waits for ever is decided by every handler for itself.                  *)
(*                                                                         *)
(* What the requests do to streams and users is the matter of Daemon,      *)
(* StreamConfig and Subscribers; here are a stream and its one process.    *)
(***************************************************************************)
EXTENDS Integers, Sequences, SequencesExt

CONSTANTS
    Peers,         \* connections of clients
    Requests,      \* bound: what each of them may send first, second, ...:
                   \* a sequence of sets of <<method, params>>
    MaxIds,        \* bound: numbers the ping timer may hand out
    MaxReports     \* bound: reports of the stream process

\* What the params are: none at all, not JSON, JSON without what the method
\* needs, complete but with a wrong license, or complete.
Params == {"none", "unparsable", "incomplete", "wrong license", "good"}

ASSUME RequestsAssumption ==
    /\ IsFiniteSet(Peers) /\ "child" \notin Peers
    /\ \A c \in Peers : \A i \in DOMAIN Requests[c] : \A r \in Requests[c][i] : r[2] \in Params

VARIABLES
    conn,        \* "open", "closing" by the client, "closed" by the service
    verified,    \* is_verified_ of each client
    toService,   \* what is on its way from a client
    toClient,    \* and to it
    stopping,    \* quit_cleanup_timer_ is set
    child,       \* the stream's process: "none", "running", "dead", "reaped"
    linked,      \* its ChildStream has a client_
    toChild,     \* what is in the pipe to the process
    fromChild,   \* and in the one from it
    nextId,      \* id_
    pending,     \* the service's unanswered requests to each client, and to "child"
    asked,       \* each client's unanswered requests: id -> whether to activate
    sure,        \* of these, the ones whose answer the client may count on
    count,       \* requests each client has sent
    active,      \* clients that have read the answer to their activation
    reports,     \* reports the process has sent
    stray        \* history: an answer came that nobody had asked for

conversation == <<conn, verified, toService, toClient, asked, sure, count, active>>
childVars == <<child, linked, toChild, fromChild, reports>>
protocolVars == <<conversation, childVars, stopping, nextId, pending, stray>>

Request(i, method, params) ==
    [kind |-> "request", id |-> i, method |-> method, params |-> params]
Response(i, ok) == [kind |-> "response", id |-> i, ok |-> ok]
Notification == [kind |-> "notification"]

ProtocolInit ==
    /\ conn = [c \in Peers |-> "open"]
    /\ verified = {}
    /\ toService = [c \in Peers |-> <<>>] /\ toClient = [c \in Peers |-> <<>>]
    /\ stopping = FALSE
    /\ child \in {"none", "running"} /\ linked = (child = "running")
    /\ toChild = <<>> /\ fromChild = <<>>
    /\ nextId = 0 /\ pending = [x \in Peers \cup {"child"} |-> {}]
    /\ asked = [c \in Peers |-> <<>>] /\ sure = [c \in Peers |-> {}]
    /\ count = [c \in Peers |-> 0] /\ active = {}
    /\ reports = 0 /\ stray = FALSE

-----------------------------------------------------------------------------
(* The handlers of requests. Each one is given the client and the request, *)
(* and says what becomes of toClient, of the table of the child's pipe and *)
(* of what it changes besides.                                             *)

Others == <<verified, stopping, childVars, nextId, pending>>

Answer(c, m, ok) ==
    toClient' = [toClient EXCEPT ![c] = Append(@, Response(m.id, ok))]

\* An error that is only logged.
Ignored == UNCHANGED <<toClient, Others>>

Registered == child \in {"running", "dead"}

\* NextRequestID
NextRequestID == nextId' = nextId + 1

\* Child::SendStop and SendRestart. Their result is not looked at; a write to
\* a process that is gone fails, and leaves nothing in the table.
SendCommand(method) ==
    /\ NextRequestID
    /\ IF linked /\ child = "running"
       THEN /\ toChild' = Append(toChild, Request(nextId, method, "none"))
            /\ pending' = [pending EXCEPT !["child"] = @ \cup {nextId}]
       ELSE UNCHANGED <<toChild, pending>>
    /\ UNCHANGED <<child, linked, fromChild, reports>>

\* The beginning that most handlers share.
Accepts(c, m) == c \in verified /\ m.params = "good"

HandleRequestClientActivate(c, m) ==
    CASE m.params = "good" ->
            /\ Answer(c, m, TRUE)
            /\ verified' = verified \cup {c}
            /\ UNCHANGED <<stopping, childVars, nextId, pending>>
      [] m.params \in {"incomplete", "wrong license"} ->
            Answer(c, m, FALSE) /\ UNCHANGED Others
      [] OTHER -> Ignored

\* The license, or a client that is verified already.
HandleRequestClientStopService(c, m) ==
    IF m.params = "good" \/ (m.params = "wrong license" /\ c \in verified)
    THEN /\ Answer(c, m, ~stopping)
         /\ IF Registered /\ ~stopping THEN SendCommand("stop")
                                       ELSE UNCHANGED <<childVars, nextId, pending>>
         /\ stopping' = TRUE
         /\ UNCHANGED verified
    ELSE Ignored

\* CreateChildStream refuses, or fork() fails unnoticed, or there is a process.
HandleRequestClientStartStream(c, m) ==
    IF ~Accepts(c, m) THEN Ignored
    ELSE \/ Answer(c, m, FALSE) /\ UNCHANGED Others
         \/ ~Registered /\ Answer(c, m, TRUE) /\ UNCHANGED Others
         \/ /\ child = "none" /\ Answer(c, m, TRUE)
            /\ child' = "running" /\ linked' = TRUE
            /\ UNCHANGED <<verified, stopping, toChild, fromChild, reports, nextId, pending>>

HandleRequestClientStopStream(c, m) ==
    IF ~Accepts(c, m) THEN Ignored
    ELSE /\ Answer(c, m, Registered)
         /\ IF Registered THEN SendCommand("stop")
                          ELSE UNCHANGED <<childVars, nextId, pending>>
         /\ UNCHANGED <<verified, stopping>>

\* Mutant: an unknown stream is an error like the others, and only logged.
RestartUnanswered(c, m) ==
    IF ~Accepts(c, m) \/ ~Registered THEN Ignored
    ELSE /\ Answer(c, m, TRUE) /\ SendCommand("restart")
         /\ UNCHANGED <<verified, stopping>>

HandleRequestClientRestartStream(c, m) ==
    IF ~Accepts(c, m) THEN Ignored
    ELSE /\ Answer(c, m, Registered)
         /\ IF Registered THEN SendCommand("restart")
                          ELSE UNCHANGED <<childVars, nextId, pending>>
         /\ UNCHANGED <<verified, stopping>>

\* Log and pipeline of a stream, log of the service: the file is posted, and
\* whatever comes of that the answer is a success.
HandleRequestClientGetLogStream(c, m) ==
    IF Accepts(c, m) THEN Answer(c, m, TRUE) /\ UNCHANGED Others ELSE Ignored
HandleRequestClientGetPipelineStream(c, m) ==
    IF Accepts(c, m) THEN Answer(c, m, TRUE) /\ UNCHANGED Others ELSE Ignored
HandleRequestClientGetLogService(c, m) ==
    IF Accepts(c, m) THEN Answer(c, m, TRUE) /\ UNCHANGED Others ELSE Ignored

HandleRequestClientPrepareService(c, m) ==
    IF Accepts(c, m) THEN Answer(c, m, TRUE) /\ UNCHANGED Others ELSE Ignored
HandleRequestClientSyncService(c, m) ==
    IF Accepts(c, m) THEN Answer(c, m, TRUE) /\ UNCHANGED Others ELSE Ignored
HandleRequestClientPingService(c, m) ==
    IF Accepts(c, m) THEN Answer(c, m, TRUE) /\ UNCHANGED Others ELSE Ignored

HandleRequestServiceCommand(c, m) ==
    CASE m.method = "start_stream"        -> HandleRequestClientStartStream(c, m)
      [] m.method = "stop_stream"         -> HandleRequestClientStopStream(c, m)
      [] m.method = "restart_stream"      -> HandleRequestClientRestartStream(c, m)
      [] m.method = "get_log_stream"      -> HandleRequestClientGetLogStream(c, m)
      [] m.method = "get_pipeline_stream" -> HandleRequestClientGetPipelineStream(c, m)
      [] m.method = "prepare_service"     -> HandleRequestClientPrepareService(c, m)
      [] m.method = "sync_service"        -> HandleRequestClientSyncService(c, m)
      [] m.method = "stop_service"        -> HandleRequestClientStopService(c, m)
      [] m.method = "activate"            -> HandleRequestClientActivate(c, m)
      [] m.method = "ping_service"        -> HandleRequestClientPingService(c, m)
      [] m.method = "get_log_service"     -> HandleRequestClientGetLogService(c, m)
      [] OTHER                            -> Ignored

-----------------------------------------------------------------------------
(* The loop of the service.                                                *)

\* Close() and delete: with the connection goes its table.
Delete(C) ==
    /\ conn' = [c \in Peers |-> IF c \in C THEN "closed" ELSE conn[c]]
    /\ verified' = verified \ C

\* PopRequestByID: an answer takes its request out of the table.
PopRequestByID(x, i) ==
    /\ pending' = [pending EXCEPT ![x] = @ \ {i}]
    /\ stray' = (stray \/ i \notin pending[x])

HandleResponceServiceCommand(c, m) ==
    /\ IF c \in verified THEN PopRequestByID(c, m.id) ELSE UNCHANGED <<pending, stray>>
    /\ UNCHANGED <<toClient, verified, stopping, childVars, nextId>>

DaemonDataReceived(c) ==
    /\ conn[c] # "closed" /\ toService[c] # <<>>
    /\ toService' = [toService EXCEPT ![c] = Tail(@)]
    /\ LET m == Head(toService[c])
       IN  CASE m.kind = "request"  -> /\ HandleRequestServiceCommand(c, m)
                                       /\ UNCHANGED <<conn, stray>>
             [] m.kind = "response" -> /\ HandleResponceServiceCommand(c, m)
                                       /\ UNCHANGED conn
             [] OTHER -> /\ Delete({c})
                         /\ pending' = [pending EXCEPT ![c] = {}]
                         /\ UNCHANGED <<toClient, stopping, childVars, nextId, stray>>
    /\ UNCHANGED <<asked, sure, count, active>>

\* The end of file of a connection.
PeerLost(c) ==
    /\ conn[c] = "closing" /\ toService[c] = <<>>
    /\ Delete({c})
    /\ pending' = [pending EXCEPT ![c] = {}]
    /\ UNCHANGED <<toService, toClient, asked, sure, count, active>>
    /\ UNCHANGED <<childVars, stopping, nextId, stray>>

\* The ping timer: a number for each verified client; a client that cannot
\* be written to is deleted.
PingTimer ==
    LET order == SetToSeq(verified)
        number == [c \in verified |-> nextId + (CHOOSE i \in 1..Len(order) : order[i] = c) - 1]
        failed == {c \in verified : conn[c] = "closing"}
        pinged == verified \ failed
    IN  /\ verified # {} /\ nextId + Len(order) <= MaxIds
        /\ nextId' = nextId + Len(order)
        /\ toClient' = [c \in Peers |-> IF c \in pinged
               THEN Append(toClient[c], Request(number[c], "server_ping", "good")) ELSE toClient[c]]
        /\ pending' = [x \in DOMAIN pending |-> IF x \in pinged THEN pending[x] \cup {number[x]}
                                           ELSE IF x \in failed THEN {} ELSE pending[x]]
        /\ Delete(failed)
        /\ UNCHANGED <<toService, asked, sure, count, active, childVars, stopping, stray>>

\* BroadcastClients
BroadcastClients ==
    toClient' = [c \in Peers |-> IF c \in verified THEN Append(toClient[c], Notification)
                                                     ELSE toClient[c]]

\* HandleResponceStreamsCommand pops the request; HandleRequestStreamsCommand
\* passes a report on to the clients.
HandleResponceStreamsCommand(m) == PopRequestByID("child", m.id) /\ UNCHANGED toClient
HandleRequestStreamsCommand == BroadcastClients /\ UNCHANGED <<pending, stray>>

PipeDataReceived ==
    /\ linked /\ fromChild # <<>>
    /\ fromChild' = Tail(fromChild)
    /\ IF Head(fromChild).kind = "response" THEN HandleResponceStreamsCommand(Head(fromChild))
                                            ELSE HandleRequestStreamsCommand
    /\ UNCHANGED <<conn, verified, toService, asked, sure, count, active>>
    /\ UNCHANGED <<child, linked, toChild, reports, stopping, nextId>>

PipeLost ==
    /\ linked /\ fromChild = <<>> /\ child \in {"dead", "reaped"}
    /\ linked' = FALSE /\ pending' = [pending EXCEPT !["child"] = {}]
    /\ UNCHANGED <<conversation, child, toChild, fromChild, reports, stopping, nextId, stray>>

\* The exit is broadcast.
ExitBroadcast ==
    /\ child = "dead" /\ child' = "reaped"
    /\ BroadcastClients
    /\ UNCHANGED <<conn, verified, toService, asked, sure, count, active>>
    /\ UNCHANGED <<linked, toChild, fromChild, reports, stopping, nextId, pending, stray>>

\* The timer after which the service stops: its connections and pipes go.
ConnectionsClosed ==
    /\ stopping /\ \E c \in Peers : conn[c] # "closed"
    /\ Delete(Peers)
    /\ linked' = FALSE
    /\ pending' = [x \in DOMAIN pending |-> {}]
    /\ UNCHANGED <<toService, toClient, asked, sure, count, active>>
    /\ UNCHANGED <<child, toChild, fromChild, reports, stopping, nextId, stray>>

\* Nobody is left to talk to.
NoConversation ==
    /\ \A c \in Peers : conn[c] = "closed"
    /\ UNCHANGED protocolVars

-----------------------------------------------------------------------------
(* The peers.                                                              *)

\* HandleRequestStopStream and HandleRequestRestartStream of the stream
\* process: the answer is written before the command is obeyed.
ChildReads ==
    /\ child = "running" /\ toChild # <<>>
    /\ toChild' = Tail(toChild)
    /\ fromChild' = Append(fromChild, Response(Head(toChild).id, TRUE))
    /\ UNCHANGED <<conversation, child, linked, reports, stopping, nextId, pending, stray>>

\* A statistic or a change of the sources.
ChildReports ==
    /\ child = "running" /\ reports < MaxReports
    /\ reports' = reports + 1
    /\ fromChild' = Append(fromChild, Notification)
    /\ UNCHANGED <<conversation, child, linked, toChild, stopping, nextId, pending, stray>>

ChildEnds ==
    /\ child = "running" /\ child' = "dead" /\ toChild' = <<>>
    /\ UNCHANGED <<conversation, linked, fromChild, reports, stopping, nextId, pending, stray>>

\* A client may count on an answer once it has read that it is verified, or
\* when it asks to be.
ClientSends(c, method, params) ==
    LET i == count[c] + 1
    IN  /\ conn[c] = "open" /\ i \in DOMAIN Requests[c] /\ <<method, params>> \in Requests[c][i]
        /\ count' = [count EXCEPT ![c] = i]
        /\ toService' = [toService EXCEPT ![c] = Append(@, Request(i, method, params))]
        /\ asked' = [asked EXCEPT ![c] = [n \in DOMAIN @ \cup {i} |->
                                            IF n = i THEN method = "activate" ELSE @[n]]]
        /\ sure' = IF params = "good" /\ method # "unknown"
                      /\ (c \in active \/ method \in {"activate", "stop_service"})
                   THEN [sure EXCEPT ![c] = @ \cup {i}] ELSE sure
        /\ UNCHANGED <<conn, verified, toClient, active>>
        /\ UNCHANGED <<childVars, stopping, nextId, pending, stray>>

\* What is not a command of the protocol.
ClientGarbles(c) ==
    /\ conn[c] = "open" /\ count[c] < Len(Requests[c])
    /\ count' = [count EXCEPT ![c] = @ + 1]
    /\ toService' = [toService EXCEPT ![c] = Append(@, [kind |-> "garbage"])]
    /\ UNCHANGED <<conn, verified, toClient, asked, sure, active>>
    /\ UNCHANGED <<childVars, stopping, nextId, pending, stray>>

\* A ping is answered, or not.
ClientReads(c) ==
    /\ conn[c] = "open" /\ toClient[c] # <<>>
    /\ toClient' = [toClient EXCEPT ![c] = Tail(@)]
    /\ LET m == Head(toClient[c])
       IN  \/ /\ m.kind = "response"
              /\ stray' = (stray \/ m.id \notin DOMAIN asked[c])
              /\ active' = IF m.ok /\ m.id \in DOMAIN asked[c] /\ asked[c][m.id]
                           THEN active \cup {c} ELSE active
              /\ asked' = [asked EXCEPT ![c] = [n \in DOMAIN @ \ {m.id} |-> @[n]]]
              /\ sure' = [sure EXCEPT ![c] = @ \ {m.id}]
              /\ UNCHANGED toService
           \/ /\ m.kind = "request"
              /\ toService' = [toService EXCEPT ![c] = Append(@, Response(m.id, TRUE))]
              /\ UNCHANGED <<stray, active, asked, sure>>
           \/ m.kind # "response" /\ UNCHANGED <<toService, stray, active, asked, sure>>
    /\ UNCHANGED <<conn, verified, count, childVars, stopping, nextId, pending>>

ClientCloses(c) ==
    /\ conn[c] = "open" /\ conn' = [conn EXCEPT ![c] = "closing"]
    /\ UNCHANGED <<verified, toService, toClient, asked, sure, count, active>>
    /\ UNCHANGED <<childVars, stopping, nextId, pending, stray>>

-----------------------------------------------------------------------------
ProtocolNext ==
    \/ \E c \in Peers : \/ DaemonDataReceived(c) \/ PeerLost(c)
                          \/ \E r \in UNION Range(Requests[c]) : ClientSends(c, r[1], r[2])
                          \/ ClientGarbles(c) \/ ClientReads(c) \/ ClientCloses(c)
    \/ PingTimer \/ ConnectionsClosed \/ NoConversation
    \/ PipeDataReceived \/ PipeLost \/ ExitBroadcast
    \/ ChildReads \/ ChildReports \/ ChildEnds

\* The loop serves a connection that has something to read, and so does a
\* client that waits.
ProtocolFairness ==
    \A c \in Peers : /\ WF_protocolVars(DaemonDataReceived(c))
                       /\ WF_protocolVars(ClientReads(c))

ProtocolSpec == ProtocolInit /\ [][ProtocolNext]_protocolVars /\ ProtocolFairness

-----------------------------------------------------------------------------
(* Properties.                                                             *)

\* The handlers of HandleRequestServiceCommand, and the tables of both ends:
\* a complete request of a client that knows it is verified is answered as
\* long as its connection lasts, whatever became of the stream it names; and
\* every answer, the client's to a ping and the stream's to a command
\* included, finds the one request it belongs to, whatever order requests,
\* pings, exits and closed connections come in.
RequestsAnswered ==
    /\ [](~stray)
    /\ \A c \in Peers : \A i \in DOMAIN Requests[c] :
          (i \in sure[c]) ~> (i \notin sure[c] \/ conn[c] # "open")

=============================================================================
