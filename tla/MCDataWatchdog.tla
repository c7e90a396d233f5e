--------------------------- MODULE MCDataWatchdog ---------------------------
(* Instances of DataWatchdog for TLC.                                      *)
EXTENDS DataWatchdog, TLC

CONSTANTS in1, out1, video, audio, mixed, stray

\* A pad for each channel.
MCOnePadEach == (video :> in1) @@ (audio :> out1)

\* The output has two counted pads, whose sums may be written over each other;
\* of the two pads of the input one has a number beyond the channels.
MCTwoPads == (mixed :> in1) @@ (stray :> in1) @@ (video :> out1) @@ (audio :> out1)

\* The wall clock may be set ahead, or back.
MCJumpsAhead == {1, 2}
MCStepsBack == {-1, 1}

\* A short duration; an unknown one is the largest size_t.
MCDurations == {1, SizeMod - 1}
=============================================================================
