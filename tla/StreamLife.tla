----------------------------- MODULE StreamLife -----------------------------
(***************************************************************************)
(* What a stream process promises to the service that forked it, without   *)
(* the threads inside it: streams come one after another; the stop request *)
(* is looked at once before each of them; a process that is told to stop   *)
(* and has no stream under way ends.                                       *)
(***************************************************************************)

VARIABLES
    phase,     \* where the process is in its cycle
    stopping   \* it has been told to stop

life == <<phase, stopping>>

Phases == {"starting", "idle", "committed", "streaming", "over", "parked", "leaving", "gone"}

Init == phase = "starting" /\ stopping = FALSE

\* From one phase to another, with the stop request as it is.
Move(from, to) == phase = from /\ phase' = to /\ UNCHANGED stopping

Boot   == Move("starting", "idle")
Commit == ~stopping /\ Move("idle", "committed")    \* the only look at stopping
Leave  == stopping /\ Move("idle", "leaving")
Begin  == Move("committed", "streaming")
Cancel == Move("committed", "idle") \/ Move("committed", "leaving")
Finish == Move("streaming", "over")
Park   == Move("over", "parked")
Again  == Move("over", "idle") \/ Move("over", "leaving")
Resume == Move("parked", "idle")
Exit   == Move("leaving", "gone")
Die    == phase # "gone" /\ phase' = "gone" /\ UNCHANGED stopping

Told == phase # "gone" /\ ~stopping /\ stopping' = TRUE /\ UNCHANGED phase

\* Outside a stream, and outside a player's search for a chunk, the process
\* does not stay where it is.
Proceed == Boot \/ Commit \/ Leave \/ Park \/ Again \/ Resume \/ Exit

Next == Proceed \/ Begin \/ Cancel \/ Finish \/ Die \/ Told

\* The safety part, and with the progress that is promised.
Safe == Init /\ [][Next]_life
Spec == Safe /\ WF_life(Proceed)
=============================================================================
