------------------------------ MODULE HttpVods ------------------------------
(***************************************************************************)
(* The HTTP server and the server of the VODs, each the thread of one loop *)
(* that takes a request to its end, and a VOD: the folder with its playlist*)
(* and its chunks, written by a child process that the service starts when *)
(* the playlist is asked for and the VOD is not complete. The folder is in *)
(* vods_links_ throughout (Daemon.SyncService puts it there).              *)
(***************************************************************************)
EXTENDS Integers, FiniteSets

CONSTANTS
    Conns,        \* connections
    To,           \* the server of each
    Chunks,       \* how many chunks the VOD has
    MaxPending,   \* bound on the closures in the queue of the service's loop
    MaxCrashes,   \* bound on the children that die at their work or are not made
    MaxEarly      \* bound on the cleanups that meet a child at its work

ASSUME VodsAssumption ==
    /\ To \in [Conns -> {"http", "vods"}] /\ Chunks \in Nat \ {0}
    /\ MaxPending \in Nat \ {0}
    /\ MaxCrashes \in Nat /\ MaxEarly \in Nat

VARIABLES
    viewers,   \* the connections that are ever made
    cleanupTS, \* cleanup_ts of the stream
    open,      \* open connections
    online,    \* online_clients_ of each handler
    serving,   \* the request each server's thread is at
    pending,   \* closures OnHttpRequest has put into the service's loop
    playlist,  \* [listed, ended] of the file, or NoPlaylist
    chunks,    \* the chunks in the folder
    child,     \* the process of the VOD: "none", "starting", "running"
    written,   \* chunks this process has written
    crashes, early  \* history, for the bounds

folder == <<playlist, chunks>>
process == <<child, written, crashes>>
vodVars == <<open, online, serving, pending, folder, process, early>>

NoRequest == [target |-> -2, stage |-> "none", conn |-> "none", keep |-> FALSE]
NoPlaylist == [listed |-> -1, ended |-> FALSE]
Playlist == 0       \* what a request may be for: the playlist, a folder or a
Folder == -1        \* chunk, by its number
Targets == {Playlist, Folder} \cup (1 .. Chunks)

VodInit ==
    /\ viewers \in SUBSET Conns /\ cleanupTS \in BOOLEAN
    /\ open = {} /\ online = [s \in {"http", "vods"} |-> 0]
    /\ serving = [s \in {"http", "vods"} |-> NoRequest]
    /\ pending = 0 /\ playlist = NoPlaylist /\ chunks = {}
    /\ child = "none" /\ written = 0 /\ crashes = 0 /\ early = 0

-----------------------------------------------------------------------------
(* The handlers of the two servers                                         *)

Accepted(c) ==
    /\ c \in viewers \ open
    /\ open' = open \cup {c} /\ online' = [online EXCEPT ![To[c]] = @ + 1]
    /\ UNCHANGED <<serving, pending, folder, process, early>>

Closed(c) == open' = open \ {c} /\ online' = [online EXCEPT ![To[c]] = @ - 1]
Stays == UNCHANGED <<open, online>>

\* The peer has closed the connection, or reading fails.
ReadFails(c) ==
    /\ c \in open /\ serving[To[c]] = NoRequest /\ Closed(c)
    /\ UNCHANGED <<serving, pending, folder, process, early>>

\* The request on connection c is over; it is closed unless it is to be kept.
Answered(c, keep) ==
    /\ serving' = [serving EXCEPT ![To[c]] = NoRequest]
    /\ IF keep THEN Stays ELSE Closed(c)

\* Requests that end before a file is looked at: one that cannot be parsed, the
\* root, whose answer leaves the connection open, and methods other than GET
\* and HEAD, which have no answer.
Refuse(c) ==
    /\ c \in open /\ serving[To[c]] = NoRequest
    /\ \E keep \in BOOLEAN : Answered(c, keep)
    /\ UNCHANGED <<pending, folder, process, early>>

\* The observer hears of the file before it is looked at; a playlist of the VODs
\* makes it post a closure.
Notify(c, target) ==
    IF To[c] = "vods" /\ target = Playlist
    THEN pending < MaxPending /\ pending' = pending + 1
    ELSE UNCHANGED pending

\* What the live streams keep in the folders of the HTTP server comes and goes.
Exists(s, target) ==
    IF s = "http" \/ target = Folder THEN TRUE
    ELSE IF target = Playlist THEN playlist # NoPlaylist ELSE target \in chunks

Gone(s, target) == s = "http" \/ ~Exists(s, target)

\* A GET or a HEAD of a file.
Request(c, target, keep) ==
    /\ c \in open /\ serving[To[c]] = NoRequest
    /\ Notify(c, target)
    /\ serving' = [serving EXCEPT ![To[c]] =
           [target |-> target, stage |-> "stat", conn |-> c, keep |-> keep]]
    /\ UNCHANGED <<open, online, folder, process, early>>

Is(s, stage) == serving[s].stage = stage

\* stat(): 404 and 400 leave the connection open.
Stat(s) ==
    /\ Is(s, "stat")
    /\ \/ /\ Gone(s, serving[s].target) \/ serving[s].target = Folder
          /\ Answered(serving[s].conn, TRUE)
       \/ /\ Exists(s, serving[s].target) /\ serving[s].target # Folder
          /\ serving' = [serving EXCEPT ![s].stage = "open"]
          /\ Stays
    /\ UNCHANGED <<pending, folder, process, early>>

\* open(): the file may be gone by now (403), and sending the headers may fail;
\* both leave the connection open.
Send(s) ==
    /\ Is(s, "open")
    /\ \/ Answered(serving[s].conn, TRUE)
       \/ /\ Exists(s, serving[s].target)
          /\ Answered(serving[s].conn, serving[s].keep)
    /\ UNCHANGED <<pending, folder, process, early>>

\* The two handlers have the same code.
HttpProcessReceived(c) ==
    /\ To[c] = "http"
    /\ Refuse(c) \/ \E t \in Targets, k \in BOOLEAN : Request(c, t, k)

VodsProcessReceived(c) ==
    /\ To[c] = "vods"
    /\ Refuse(c) \/ \E t \in Targets, k \in BOOLEAN : Request(c, t, k)

-----------------------------------------------------------------------------
(* The service's loop                                                      *)

\* The reader needs a chunk or the last line.
Parses == playlist # NoPlaylist /\ (playlist.listed > 0 \/ playlist.ended)

\* Mutant: a playlist that can be read is enough.
ParsedIsFull == Parses

CheckIsFullVod == Parses /\ 1 .. playlist.listed \subseteq chunks

\* A child that is there already is left alone (CreateChildStream). That no
\* child could be made, for want of a folder or of a process, nobody hears.
OnHttpRequest ==
    /\ pending > 0 /\ pending' = pending - 1
    /\ \/ (CheckIsFullVod \/ child # "none") /\ UNCHANGED process
       \/ /\ ~CheckIsFullVod /\ child = "none"
          /\ \/ child' = "starting" /\ UNCHANGED crashes
             \/ crashes < MaxCrashes /\ crashes' = crashes + 1 /\ UNCHANGED child
          /\ UNCHANGED written
    /\ UNCHANGED <<open, online, serving, folder, early>>

RemoveFilesByExtension == chunks' = {} /\ UNCHANGED playlist

\* cleanup_files_timer_ removes the chunks of every VOD, also of one that is
\* being written.
CleanupTimer ==
    /\ child # "none" => early < MaxEarly
    /\ early' = IF child # "none" THEN early + 1 ELSE early
    /\ chunks # {} /\ RemoveFilesByExtension
    /\ UNCHANGED <<open, online, serving, pending, process>>

-----------------------------------------------------------------------------
(* The child                                                               *)

\* Chunks are removed, but those written in the same second; the playlist stays.
PreExecCleanup ==
    /\ child = "starting" /\ child' = "running" /\ written' = 0
    /\ chunks' \in {{}} \cup {{i} : i \in chunks}
    /\ UNCHANGED <<open, online, serving, pending, playlist, crashes, early>>

\* hlssink with no limit for playlist and files: another chunk, and a playlist
\* that lists all of them.
WriteChunk ==
    /\ child = "running" /\ written < Chunks
    /\ written' = written + 1
    /\ chunks' = chunks \cup {written'}
    /\ playlist' = [listed |-> written', ended |-> FALSE]
    /\ UNCHANGED <<open, online, serving, pending, child, crashes, early>>

PostExecCleanup(here) == IF cleanupTS THEN {} ELSE here

\* The end of the input: the last line, and the process goes.
Finish ==
    /\ child = "running" /\ written = Chunks
    /\ playlist' = [playlist EXCEPT !.ended = TRUE]
    /\ chunks' = PostExecCleanup(chunks)
    /\ child' = "none" /\ written' = 0
    /\ UNCHANGED <<open, online, serving, pending, crashes, early>>

\* The process dies; what it has written stays.
Crash ==
    /\ child # "none" /\ crashes < MaxCrashes
    /\ child' = "none" /\ written' = 0 /\ crashes' = crashes + 1
    /\ UNCHANGED <<open, online, serving, pending, folder, early>>

-----------------------------------------------------------------------------
Handler ==
    \/ \E c \in Conns : Accepted(c) \/ ReadFails(c) \/ HttpProcessReceived(c)
                        \/ VodsProcessReceived(c)
    \/ \E s \in {"http", "vods"} : Stat(s) \/ Send(s)

Work == PreExecCleanup \/ WriteChunk \/ Finish

VodNext ==
    /\ Handler \/ OnHttpRequest \/ CleanupTimer \/ Work \/ Crash
    /\ UNCHANGED <<viewers, cleanupTS>>

Ask == \E c \in Conns, k \in BOOLEAN : To[c] = "vods" /\ Request(c, Playlist, k)

\* Viewers keep coming and asking for the playlist, threads and processes are
\* scheduled and the timer of the service fires.
VodFairness ==
    /\ \A c \in Conns : WF_vodVars(Accepted(c))
    /\ SF_vodVars(Ask)
    /\ \A s \in {"http", "vods"} : WF_vodVars(Stat(s) \/ Send(s))
    /\ WF_vodVars(OnHttpRequest) /\ WF_vodVars(Work) /\ WF_vodVars(CleanupTimer)

-----------------------------------------------------------------------------
(* Properties                                                              *)

\* The last chunk is written, and so was every one before it.
Whole == playlist.listed = Chunks /\ 1 .. Chunks \subseteq chunks

\* A VOD that is asked for becomes complete, again and again: after the cleanup
\* timer removed its chunks, after the cleanup met the child that writes
\* them, and after a child that died with half of the VOD written. The last
\* one CheckIsFullVod takes for a full VOD; it is the timer that mends it.
VodBecomesWhole == []<>(Whole \/ \A c \in viewers : To[c] # "vods")
=============================================================================
