------------------------- MODULE MCPlaybackPipeline -------------------------
(***************************************************************************)
(* PlaybackPipeline for TLC: files of a few packets.                       *)
(***************************************************************************)
EXTENDS PlaybackPipeline

a(time) == [s |-> "a", t |-> time]
v(time) == [s |-> "v", t |-> time]

\* The video does not outlast the audio, and the streams are interleaved closely.
Interleaved == <<a(0), v(0), v(1), v(1), a(1)>>

\* More packets than the lists take, and one of a third stream.
Longer ==
    <<a(0), v(0), v(0), v(1), [s |-> "other", t |-> 1], a(1), a(1), v(2), a(2), a(2), v(2)>>

=============================================================================
