------------------------------ MODULE MCDaemon ------------------------------
(***************************************************************************)
(* The service for TLC: its processes and pipes, or the conversations it   *)
(* has on its connections. A behaviour is one of either, while the other   *)
(* one has nothing to do.                                                  *)
(***************************************************************************)
EXTENDS Daemon, Protocol

CONSTANTS s1, s2, c1, p1

VARIABLE part

MCStreamIds == {s1, s2}
MCOneClient == {c1}

\* A client activates itself in one of the ways there are or is stopped from
\* it, sends any request, and then one that may meet what the second has left.
MCPeers == {p1}
MCRequests == p1 :> <<
    {<<"activate", "good">>, <<"activate", "wrong license">>, <<"stop_service", "wrong license">>},
    {<<m, "good">> : m \in {"start_stream", "stop_stream", "restart_stream",
        "get_log_stream", "get_pipeline_stream", "prepare_service", "sync_service",
        "stop_service", "activate", "ping_service", "get_log_service", "unknown"}}
      \cup {<<"activate", "none">>, <<"stop_stream", "incomplete">>},
    {<<"start_stream", "good">>, <<"restart_stream", "good">>,
     <<"stop_service", "wrong license">>} >>

MCInit ==
    /\ Init /\ ProtocolInit
    /\ \/ part = "processes" /\ child = "none"
       \/ part = "conversations"

MCNext ==
    \/ part = "processes" /\ Next /\ UNCHANGED <<part, protocolVars>>
    \/ part = "conversations" /\ ProtocolNext /\ UNCHANGED <<part, vars>>

MCSpec ==
    /\ MCInit /\ [][MCNext]_<<part, vars, protocolVars>>
    /\ Fairness /\ ProtocolFairness

=============================================================================
