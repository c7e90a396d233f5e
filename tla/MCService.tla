------------------------------ MODULE MCService -----------------------------
(***************************************************************************)
(* The parts of the service beside its streams: the process with its       *)
(* threads, the VODs with the servers of files, and the statistics of the  *)
(* machine. They do not meet; a behaviour is one of a part, while nothing  *)
(* happens in the others.                                                  *)
(***************************************************************************)
EXTENDS ServiceMain, HttpVods, NodeStats

VARIABLE part

MCDefaultPort ==
    [h \in Hosts |-> CASE h = "daemon" -> 1 [] h = "http" -> 2
                       [] h = "subscribers" -> 4 [] OTHER -> 5]

\* Two servers on one port; and the service on the port of one of its servers,
\* where --stop does not look for it.
MCConfigFiles == {[http |-> 4, bandwidth |-> 5], [daemon |-> 2]}

MCTo == [c \in Conns |-> IF c = "h" THEN "http" ELSE "vods"]

MCLoads == {[user |-> 2, guest |-> 1, idle |-> 0, iowait |-> 0],
            [user |-> 0, guest |-> 0, idle |-> 1, iowait |-> 1]}

\* One initial state of each part stands for the part when it rests.
MCInit ==
    /\ MainInit /\ VodInit /\ StatInit
    /\ part \in {"main", "vods", "stats"}
    /\ part = "main" \/ (~readable /\ file = [daemon |-> 2] /\ pidDir = "ready")
    /\ IF part = "vods" THEN viewers = Conns ELSE viewers = {} /\ ~cleanupTS

vodPart == <<viewers, cleanupTS, vodVars>>

MCNext ==
    /\ \/ part = "main" /\ MainNext /\ UNCHANGED <<vodPart, statVars>>
       \/ part = "vods" /\ VodNext /\ UNCHANGED <<mainVars, statVars>>
       \/ part = "stats" /\ StatNext /\ UNCHANGED <<mainVars, vodPart>>
    /\ UNCHANGED part

MCSpec ==
    /\ MCInit /\ [][MCNext]_<<part, mainVars, vodPart, statVars>>
    /\ MainFairness /\ VodFairness
=============================================================================
