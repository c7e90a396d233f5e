-------------------------- MODULE StreamRefinement --------------------------
(* The stream process with its threads implements StreamLife.              *)
EXTENDS StreamController

\* The phase of a control thread at position p.
PhaseAt(p) ==
    IF p = "init" THEN "starting"
    ELSE IF p = "top" THEN "idle"
    ELSE IF p \in {"find", "chunk_lock", "chunk_wait", "create"} THEN "committed"
    ELSE IF p \in {"pipeline", "armed", "running", "post", "destroy"} THEN "streaming"
    ELSE IF p \in {"null", "decide"} THEN "over"
    ELSE IF p \in {"wait_lock", "waiting"} THEN "parked"
    ELSE IF p \in {"join", "joining"} THEN "leaving"
    ELSE "gone"

Life == INSTANCE StreamLife WITH phase <- PhaseAt(pc), stopping <- stop

\* The process keeps the promises of StreamLife: no thread interleaving starts
\* a stream that was not committed to before the stop request, skips a phase,
\* or stays for ever in one that should pass.
ImplementsLife == Life!Spec

\* Its safety part.
ImplementsLifeSafely == Life!Safe
=============================================================================
