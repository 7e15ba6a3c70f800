--------------------------- MODULE PlayerProtocol ---------------------------
(***************************************************************************)
(* What VideoPlayer promises to its user: one session at a time, which is  *)
(* opened, played, paused and resumed, and closed; media resources are     *)
(* taken only while it opens, given back only while it closes, and none    *)
(* is held between two sessions.  A stop() has no effect on a session that *)
(* is still opening: the only ways out of "opening" are to fail or to play.*)
(* PlayerLifecycle implements this until one of its named races occurs,    *)
(* which is the step Break.                                                *)
(***************************************************************************)
VARIABLES
    phase,      \* where the session is
    held        \* codecs, conversion buffers or the audio device are held

view == <<phase, held>>

Init == phase = "off" /\ held = FALSE

Move(from, to) == phase = from /\ phase' = to /\ UNCHANGED held

Start  == Move("off", "opening")
Fail   == Move("opening", "off") /\ ~held
Begin  == Move("opening", "playing")
Pause  == Move("playing", "paused")
Resume == Move("paused", "playing")
Stop   == \E s \in {"playing", "paused"} : Move(s, "closing")
Finish == Move("closing", "off") /\ ~held

Take == phase = "opening" /\ held' = TRUE /\ UNCHANGED phase
Drop == phase = "closing" /\ held' = FALSE /\ UNCHANGED phase

Break == phase' = "broken"

Next ==
    \/ Start \/ Fail \/ Begin \/ Pause \/ Resume \/ Stop \/ Finish
    \/ Take \/ Drop \/ Break

Spec == Init /\ [][Next]_view

\* No session stays in its opening, and none in its closing.
Fairness ==
    /\ []<>(phase # "opening")
    /\ []<>(phase # "closing")

FairSpec == Spec /\ Fairness

=============================================================================
