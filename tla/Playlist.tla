------------------------------- MODULE Playlist -----------------------------
(***************************************************************************)
(* The playlist streams: an appsrc asks for data on its streaming thread   *)
(* and the callback reads the files of the list one after the other,       *)
(* passing over the empty ones within one call. PlaylistRelayStream and    *)
(* PlaylistEncodingStream have the same code. A file is the number of      *)
(* buffers it holds; opening may fail at any time.                         *)
(***************************************************************************)
EXTENDS Integers, Sequences

CONSTANTS
    Lists,      \* playlists: sequences of numbers of buffers
    MaxPushed   \* bound on the buffers pushed, for a list that loops

ASSUME PlaylistAssumption ==
    /\ \A l \in Lists : l \in Seq(Nat) /\ Len(l) > 0
    /\ MaxPushed \in Nat

VARIABLES
    list,       \* the inputs of the configuration
    loop,       \* GetLoop()
    calling,    \* the streaming thread is in HandleNeedData
    current,    \* current_file_: 0, or the number of the open file
    left,       \* buffers of it that are not read
    pos,        \* curent_pos_
    flow,       \* "ok", "eos" after SendEOS, "quit" after a failed push
    pushed      \* how many buffers were pushed, to bound them

playlistVars == <<list, loop, calling, current, left, pos, flow, pushed>>

\* The constructor, and the callback registered by OnAppSrcCreatedCreated.
PlaylistInit ==
    /\ list \in Lists /\ loop \in BOOLEAN
    /\ calling = FALSE /\ current = 0 /\ left = 0 /\ pos = 0
    /\ flow = "ok" /\ pushed = 0

\* need_data_callback
NeedData ==
    /\ flow = "ok" /\ ~calling /\ pushed < MaxPushed
    /\ calling' = TRUE
    /\ UNCHANGED <<list, loop, current, left, pos, flow, pushed>>

\* Mutant: the position is set back whether or not the list loops.
AlwaysWraps == FALSE

\* OpenNextFile of a list that does not loop returns nullptr at its end.
NoMoreFiles == ~loop /\ pos >= Len(list)

SendEOS == flow' = "eos" /\ calling' = FALSE

\* The end of the list.
ListEnds ==
    /\ calling /\ current = 0
    /\ NoMoreFiles
    /\ SendEOS
    /\ UNCHANGED <<list, loop, current, left, pos, pushed>>

\* OpenNextFile: a file that cannot be opened ends the whole list.
OpenNextFile ==
    /\ calling /\ current = 0
    /\ ~NoMoreFiles
    /\ LET at == IF pos >= Len(list) THEN 0 ELSE pos
       IN  /\ pos' = at + 1
           /\ \/ /\ current' = at + 1 /\ left' = list[at + 1]
                 /\ UNCHANGED <<calling, flow>>
              \/ /\ SendEOS
                 /\ UNCHANGED <<current, left>>
    /\ UNCHANGED <<list, loop, pushed>>

\* fread returns nothing: the file is closed, and the loop goes on.
EmptyRead ==
    /\ calling /\ current # 0 /\ left = 0
    /\ current' = 0
    /\ UNCHANGED <<list, loop, calling, left, pos, flow, pushed>>

\* A buffer is read and pushed; when the appsrc refuses it the stream quits
\* with EXIT_INNER.
PushBuffer ==
    /\ calling /\ current # 0 /\ left > 0
    /\ left' = left - 1
    /\ pushed' = pushed + 1
    /\ calling' = FALSE
    /\ flow' \in {"ok", "quit"}
    /\ UNCHANGED <<list, loop, current, pos>>

PlaylistNext ==
    \/ NeedData \/ ListEnds \/ OpenNextFile \/ EmptyRead \/ PushBuffer

\* The streaming thread runs while it is in the callback.
PlaylistFairness == WF_playlistVars(ListEnds \/ OpenNextFile \/ EmptyRead \/ PushBuffer)

-----------------------------------------------------------------------------
(* Properties.                                                             *)

Buffers(n) ==
    LET S[i \in 0..n] == IF i = 0 THEN 0 ELSE LET R == S[i - 1] IN R + list[i]
    IN  S[n]

\* HandleNeedData returns to the streaming thread, unless the list loops over
\* files that are all empty: then nothing but a failing open ends the call.
NeedDataReturns ==
    (calling /\ ~(loop /\ Buffers(Len(list)) = 0)) ~> ~calling

=============================================================================
