---------------------------- MODULE MCRecordings ----------------------------
(***************************************************************************)
(* Files that streams write and read: the directory of a timeshift, and    *)
(* the files of a playlist. The two never meet; a behaviour is one of      *)
(* either, while the other one has nothing to do.                          *)
(***************************************************************************)
EXTENDS Timeshift, Playlist

VARIABLE part

MCLifeTime == [k \in Kinds |-> IF k = "catchup" THEN 1 ELSE 7]
MCMaxTime == [k \in Kinds |-> IF k = "catchup" THEN 6 ELSE 12]
MCMaxSessions == [k \in Kinds |-> IF k = "catchup" THEN 3 ELSE 2]
MCWindows == {0, Duration, 3 * Duration}
MCLists == {<<1>>, <<0>>, <<0, 0>>, <<2, 0, 1>>, <<0, 1, 0>>}

\* A recorder for every kind with a playlist that is not asked for, or a
\* playlist with a directory whose clock stands still.
MCInit ==
    /\ Init /\ PlaylistInit
    /\ \/ part = "timeshift" /\ list = <<1>> /\ ~loop
       \/ part = "playlist" /\ kind = CHOOSE k \in Kinds : TRUE

MCNext ==
    \/ part = "timeshift" /\ Next /\ UNCHANGED <<part, playlistVars>>
    \/ part = "playlist" /\ PlaylistNext /\ UNCHANGED <<part, vars>>

MCSpec == MCInit /\ [][MCNext]_<<part, vars, playlistVars>> /\ PlaylistFairness
=============================================================================
