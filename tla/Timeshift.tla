------------------------------ MODULE Timeshift -----------------------------
(***************************************************************************)
(* The directory of a timeshift: a recorder (or a catchup stream) that     *)
(* writes one numbered chunk after the other, comes and goes and removes   *)
(* what is too old; the catchup's list of chunks and its file master.m3u8; *)
(* and a player that looks for the moment Delay ago and plays on from it.  *)
(* A chunk is known by its index; what a file is, is when its recording    *)
(* began (of which the program knows nothing) and its modification time.   *)
(***************************************************************************)
EXTENDS Integers, Sequences, FiniteSets, FiniteSetsExt

CONSTANTS
    Kinds,        \* which recorders: "recorder", "catchup"
    Duration,     \* timeshift_chunk_duration
    Shortest,     \* how long chunks come to be: splitmuxsink ends them at key
    Longest,      \* frames, so that they may be shorter or longer than that
    Windows,      \* what the player reads for it from a configuration that
                  \* has no such field
    Delay,        \* timeshift_delay, in seconds
    LifeTime,     \* timeshift_chunk_life_time of each kind
    PanicSec,     \* no_data_panic_sec
    Hundredth,    \* what %.2f can tell apart
    MaxTime,      \* bound on the clock of each kind
    MaxSessions   \* bound on the starts of each kind of recorder

ASSUME TimeshiftAssumption ==
    /\ Kinds \subseteq {"recorder", "catchup"}
    /\ Duration \in Nat \ {0} /\ Shortest \in 1..Duration
    /\ Longest \in Nat /\ Duration <= Longest /\ Windows \subseteq Nat /\ Delay \in Nat
    /\ LifeTime \in [Kinds -> Nat]
    /\ PanicSec \in Nat \ {0} /\ Hundredth \in Nat \ {0}
    /\ MaxTime \in [Kinds -> Nat] /\ MaxSessions \in [Kinds -> Nat]

VARIABLES
    kind,      \* the class of the recorder
    now,       \* the clock
    files,     \* the directory: index of a chunk -> [from, mtime]
    on,        \* a recorder runs
    began,     \* when it was started, for GetElipsedTime
    index,     \* chunk_.index
    mark,      \* chunk_.duration: the time of the first sample of the chunk
    open,      \* splitmuxsink writes to files[index]
    chunks,    \* chunks_ of the catchup
    m3u8,      \* master.m3u8: its first number, its chunks, its last line
    sessions,  \* history: starts of the recorder
    since,     \* history: recording has not paused after this moment
    emptied,   \* history: a catchup with a list found no chunk to go on from
    silent,    \* history: a chunk was begun without a sample
    player     \* what the player plays and when that ends

vars == <<kind, now, files, on, began, index, mark, open, chunks, m3u8,
          sessions, since, emptied, silent, player>>

Invalid == -1       \* invalid_chunk_index
NoTime == -1        \* GST_CLOCK_TIME_NONE
Looking == [state |-> "looking", index |-> Invalid, until |-> 0, found |-> 0,
            since |-> 0, window |-> 0]

-----------------------------------------------------------------------------
(* TimeShiftInfo                                                           *)

\* The directory holds nothing but chunks that filter_files accepts; sorted by
\* compare_files the last one is the one with the largest index.
FindLastChunk == IF DOMAIN files = {} THEN Invalid ELSE Max(DOMAIN files)

Desired == now - Delay

\* Mutant: the modification time is taken for the beginning of the chunk.
InWindowUnshifted(i, window) ==
    LET diff == Desired - files[i].mtime
    IN  -window < diff /\ diff < window

InWindow(i, window) ==
    LET diff == (Desired - files[i].mtime) + window
    IN  -window < diff /\ diff < window

\* The first chunk in the window, or the one before it when the moment lies
\* within the chunk.
FindChunkToPlay(window) ==
    LET fit == {i \in DOMAIN files : InWindow(i, window)}
        first == Min(fit)
        before == {i \in DOMAIN files : i < first}
    IN  IF fit = {} THEN Invalid
        ELSE IF (Desired - files[first].mtime) + window > 0 /\ before # {}
        THEN Max(before)
        ELSE first

\* Mutant: a chunk is as old as its first sample.
RemoveByBeginning(oldest) ==
    LET kept == {i \in DOMAIN files : files[i].from >= oldest}
    IN  [i \in kept |-> files[i]]

\* utils::RemoveOldFilesByTime
RemoveOldFilesByTime(oldest) ==
    LET kept == {i \in DOMAIN files : files[i].mtime >= oldest}
    IN  [i \in kept |-> files[i]]

-----------------------------------------------------------------------------
(* The list of the catchup                                                 *)

\* WriteLine: a duration as hundredths of a second.
Written(d) == ((d + Hundredth \div 2) \div Hundredth) * Hundredth

\* WriteM3u8List gives every chunk a duration.
Completed(list) ==
    [i \in 1..Len(list) |->
        IF list[i].duration # NoTime THEN list[i]
        ELSE [list[i] EXCEPT !.duration = Duration]]

NoFile == [sequence |-> 0, lines |-> <<>>, footer |-> FALSE]

\* The file after WriteHeader, n times WriteLine and perhaps WriteFooter.
M3u8Writer(list, n, footer) ==
    [sequence |-> IF list = <<>> THEN 0 ELSE list[1].index,
     lines |-> [i \in 1..n |-> [list[i] EXCEPT !.duration = Written(list[i].duration)]],
     footer |-> footer]

\* ParseChunks returns at the footer or at the end of the file; a list without
\* either is not an error if it has chunks.
ParseChunks(file) ==
    [ok |-> file.footer \/ file.lines # <<>>, chunks |-> file.lines]

\* ParseFile reads the header lines and leaves the rest to ParseChunks. The
\* catchup takes the chunks whatever Parse returns.
ParseFile(file) ==
    IF file = NoFile THEN [ok |-> FALSE, chunks |-> <<>>] ELSE ParseChunks(file)

-----------------------------------------------------------------------------
(* The recorder                                                            *)

\* Mutant: the recorder goes on with the number of chunks it finds.
CountedIndex ==
    IF DOMAIN files = {} THEN Invalid
    ELSE IF kind = "catchup" THEN FindLastChunk + 1 ELSE Cardinality(DOMAIN files)

\* GetNextChunkStrategy of the two classes; a recorder leaves out the indices
\* of the chunks it has missed.
GetNextChunkStrategy ==
    LET last == FindLastChunk
        diff == now - files[last].mtime
    IN  IF last = Invalid THEN Invalid
        ELSE IF kind = "catchup" THEN last + 1
        ELSE IF diff > 0 THEN last + diff \div Duration ELSE last

\* Mutant: the mark of a new stream is zero, as the constructor of ChunkInfo
\* leaves it.
MarkAtStart == 0

\* OnSplitmuxsinkCreated sets it again.
MarkCreated == NoTime

\* The constructor reads the list, and OnSplitmuxsinkCreated chooses where to
\* go on.
StartRecorder ==
    /\ ~on /\ sessions < MaxSessions[kind]
    /\ on' = TRUE /\ began' = now /\ open' = FALSE
    /\ index' = GetNextChunkStrategy
    /\ mark' = MarkCreated
    /\ chunks' = IF kind = "catchup" THEN ParseFile(m3u8).chunks ELSE <<>>
    /\ emptied' = (emptied \/ (m3u8.lines # <<>> /\ FindLastChunk = Invalid))
    /\ sessions' = sessions + 1
    /\ since' = IF kind = "catchup" THEN since ELSE now
    /\ UNCHANGED <<kind, now, files, m3u8, silent, player>>

CalcNextIndex ==
    LET i == IF index = Invalid THEN 0 ELSE index
    IN  IF i \in DOMAIN files THEN i + 1 ELSE i

\* splitmuxsink asks for the path of the next chunk, at the key frame at which it
\* ends the one before. Its sample is the first of the chunk; it may have no
\* time, and there may be none at all.
OnPathSet(sample) ==
    /\ on
    /\ open => now - files[index].from \in Shortest..Longest
    /\ kind = "recorder" => sample = "timed"    \* which makes no use of it
    /\ LET next == CalcNextIndex
           time == CASE sample = "timed" -> now - began
                     [] sample = "untimed" -> NoTime
                     [] OTHER -> mark
           known == sample = "timed" /\ mark # NoTime /\ chunks # <<>>
           ended == IF known
                    THEN [chunks EXCEPT ![Len(chunks)].duration = now - began - mark]
                    ELSE chunks
       IN  /\ index' = next
           /\ files' = [i \in DOMAIN files \union {next} |->
                            IF i = next THEN [from |-> now, mtime |-> now]
                            ELSE files[i]]
           /\ IF kind = "catchup"
              THEN /\ chunks' = Append(ended, [index |-> next, duration |-> NoTime])
                   /\ mark' = time
              ELSE UNCHANGED <<chunks, mark>>
    /\ open' = TRUE
    /\ silent' = (silent \/ sample = "none")
    /\ UNCHANGED <<kind, now, on, began, m3u8, sessions, since, emptied, player>>

\* HandleMainTimerTick, the part that is the recorder's.
HandleMainTimerTick ==
    /\ on
    /\ (now - began) % PanicSec = 0
    /\ files' = RemoveOldFilesByTime(now - LifeTime[kind])
    /\ open' = (open /\ index \in DOMAIN files')
    /\ UNCHANGED <<kind, now, on, began, index, mark, chunks, m3u8, sessions,
                   since, emptied, silent, player>>

\* What is left of the stream object.
Destroyed ==
    /\ on' = FALSE /\ open' = FALSE /\ began' = 0 /\ index' = Invalid
    /\ mark' = NoTime /\ chunks' = <<>>

\* PostLoop: the catchup writes its list, if the file can be opened, up to the
\* line at which a write fails.
StopRecorder ==
    /\ on
    /\ Destroyed
    /\ \/ UNCHANGED m3u8
       \/ /\ kind = "catchup"
          /\ \/ \E n \in 0..Len(chunks) :
                   m3u8' = M3u8Writer(Completed(chunks), n, FALSE)
             \/ m3u8' = M3u8Writer(Completed(chunks), Len(chunks), TRUE)
    /\ UNCHANGED <<kind, now, files, sessions, since, emptied, silent, player>>

\* The process is killed.
CrashRecorder ==
    /\ on
    /\ Destroyed
    /\ UNCHANGED <<kind, now, files, m3u8, sessions, since, emptied, silent, player>>

-----------------------------------------------------------------------------
(* The player                                                              *)

\* FindChunkToPlay in StreamController::Exec; without a chunk it looks again.
\* Its window is GetTimeShiftChunkDuration of a RelayConfig that was cast to
\* a TimeshiftConfig.
PlayerFind(window) ==
    /\ kind = "recorder"
    /\ player.state = "looking"
    /\ FindChunkToPlay(window) # Invalid
    /\ player' = [state |-> "playing", index |-> FindChunkToPlay(window),
                  until |-> now, found |-> now, since |-> since, window |-> window]
    /\ UNCHANGED <<kind, now, files, on, began, index, mark, open, chunks, m3u8,
                   sessions, since, emptied, silent>>

\* multifilesrc opens the next chunk, and the stream ends when it is not there.
PlayerNext ==
    /\ player.state = "playing" /\ player.until = now
    /\ IF player.index \in DOMAIN files
       THEN player' = [player EXCEPT
                !.index = @ + 1,
                !.until = now + Max({1, files[player.index].mtime
                                            - files[player.index].from})]
       ELSE player' = [player EXCEPT !.state = "starved"]
    /\ UNCHANGED <<kind, now, files, on, began, index, mark, open, chunks, m3u8,
                   sessions, since, emptied, silent>>

\* The controller makes a new stream, which looks for a chunk.
PlayerRestart ==
    /\ player.state = "starved"
    /\ player' = Looking
    /\ UNCHANGED <<kind, now, files, on, began, index, mark, open, chunks, m3u8,
                   sessions, since, emptied, silent>>

-----------------------------------------------------------------------------
Init ==
    /\ kind \in Kinds
    /\ now = 0 /\ files = <<>> /\ on = FALSE /\ began = 0 /\ index = Invalid
    /\ mark = NoTime /\ open = FALSE /\ chunks = <<>> /\ m3u8 = NoFile
    /\ sessions = 0 /\ since = 0 /\ emptied = FALSE
    /\ silent = FALSE /\ player = Looking

\* A second goes by. Data comes while a chunk is open: a recorder without data
\* is restarted. A key frame comes in time, and the player keeps pace.
Tick ==
    /\ now < MaxTime[kind]
    /\ open => now - files[index].from < Longest
    /\ player.state = "playing" => now < player.until
    /\ player.state # "starved"
    /\ now' = now + 1
    /\ files' = IF open THEN [files EXCEPT ![index].mtime = now + 1] ELSE files
    /\ since' = IF open \/ kind = "catchup" THEN since ELSE now + 1
    /\ UNCHANGED <<kind, on, began, index, mark, open, chunks, m3u8, sessions,
                   emptied, silent, player>>

Next ==
    \/ StartRecorder
    \/ \E sample \in {"timed", "untimed", "none"} : OnPathSet(sample)
    \/ HandleMainTimerTick
    \/ StopRecorder
    \/ CrashRecorder
    \/ \E window \in Windows : PlayerFind(window)
    \/ PlayerNext \/ PlayerRestart
    \/ Tick

Spec == Init /\ [][Next]_vars

-----------------------------------------------------------------------------
(* Properties.                                                             *)

\* CalcNextIndex and the two strategies: whatever was started, stopped, killed
\* and removed before, a path given to splitmuxsink is never that of a chunk
\* in the directory, and it comes after all of them.
ChunksAreKept ==
    [][\A i \in DOMAIN files' :
        /\ i \in DOMAIN files => files'[i].from = files[i].from
        /\ i \notin DOMAIN files => \A j \in DOMAIN files : j < i]_vars

\* FindChunkToPlay, called with the configured duration: where the recording has
\* not paused for Delay and two chunks more, and no chunk is as long as two were
\* meant to be, it finds a chunk that begins with or before the moment that is
\* wanted, at most two early.
FindsTheMoment ==
    (/\ kind = "recorder" /\ on /\ Longest < 2 * Duration
     /\ since + 2 * Longest <= Desired /\ Desired < now
     /\ LifeTime[kind] >= Delay + Longest) =>
        LET i == FindChunkToPlay(Duration)
        IN  /\ i # Invalid
            /\ files[i].from <= Desired
            /\ Desired - files[i].from <= 2 * Longest

\* The recorder's clean-up and the player: a chunk lives long enough to be
\* played, and is complete by then. A player that knew the duration of the
\* chunks, is behind by one at least, and began where the recording had not
\* paused for two chunks, only runs dry when it pauses.
PlayerNotStarved ==
    (/\ player.state = "starved" /\ player.window = Duration
     /\ Longest < 2 * Duration /\ Longest <= Delay
     /\ player.since + 2 * Longest <= player.found - Delay
     /\ LifeTime[kind] >= Delay + 2 * Longest - Shortest) =>
        since # player.since

Increasing(list) ==
    \A i \in 1..Len(list) : \A j \in 1..(i - 1) : list[j].index < list[i].index

\* OnPathSet, WriteM3u8List and the reader: over restarts, kills and failed
\* writes the catchup lists its chunks in the order of their numbers, unless
\* all of them were gone when it started; none is longer than a chunk may be,
\* if each came with a sample; and while it runs every chunk it has recorded is listed.
CatchupInOrder ==
    kind = "catchup" =>
        /\ emptied \/ (Increasing(chunks) /\ Increasing(m3u8.lines))
        /\ silent \/ \A i \in 1..Len(chunks) : chunks[i].duration <= Longest + Hundredth
        /\ on => \A i \in DOMAIN files : files[i].from > began =>
                    \E k \in 1..Len(chunks) : chunks[k].index = i
=============================================================================
