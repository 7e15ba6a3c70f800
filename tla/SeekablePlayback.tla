-------------------------- MODULE SeekablePlayback --------------------------
(***************************************************************************)
(* What playing a file means to who watches it.  The packets of each       *)
(* stream are presented in the order of the file, each at most once, from  *)
(* the position the last seek led to.  Between two that are presented only *)
(* packets before the target of the seek are left out, and when the file   *)
(* is over no more is still to come than the decoders have in hand.        *)
(* PlaybackPipeline implements this.                                       *)
(*                                                                         *)
(* A seek sets the targets of the two streams one after the other, and a   *)
(* request that comes in between makes them differ.  That a packet before  *)
(* the target is left out is not promised: see SeekHonoured there.         *)
(***************************************************************************)
EXTENDS Integers, Sequences, FiniteSets

CONSTANTS
    File,       \* the packets, with a stream and a time
    Targets,    \* the times that may be sought
    InHand      \* packets of a stream its decoder may have in hand

VARIABLES
    start,      \* the position the last seek led to
    target,     \* for each stream what its packets must not be before
    presented,  \* the packets presented since
    over        \* the end of the file has been reached

view == <<start, target, presented, over>>

Presentable == {"a", "v"}
Due(s) == {i \in start .. Len(File) : File[i].s = s /\ File[i].t >= target[s]}

Init == start = 1 /\ target = [a |-> -1, v |-> -1] /\ presented = {} /\ over = FALSE

\* Nothing that lies at the time sought or after it is passed over.
Seek(p, time) ==
    /\ ~over
    /\ \A i \in 1 .. Len(File) : File[i].t >= time => p <= i
    /\ start' = p /\ presented' = {}
    /\ UNCHANGED <<target, over>>

Aim(s, time) ==
    /\ ~over /\ presented = {}
    /\ target' = [target EXCEPT ![s] = time]
    /\ UNCHANGED <<start, presented, over>>

Present(i) ==
    /\ i >= start /\ File[i].s \in Presentable
    /\ \A j \in presented : File[j].s = File[i].s => j < i
    /\ \A j \in Due(File[i].s) : j < i => j \in presented
    /\ presented' = presented \cup {i}
    /\ UNCHANGED <<start, target, over>>

Finish ==
    /\ ~over /\ over' = TRUE
    /\ \A s \in Presentable : Cardinality(Due(s) \ presented) <= InHand
    /\ UNCHANGED <<start, target, presented>>

Next ==
    \/ \E time \in Targets : (\E p \in 1 .. Len(File) + 1 : Seek(p, time))
                             \/ \E s \in Presentable : Aim(s, time)
    \/ \E i \in 1 .. Len(File) : Present(i)
    \/ Finish

Spec == Init /\ [][Next]_view

=============================================================================
