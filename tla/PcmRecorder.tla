---------------------------- MODULE PcmRecorder ----------------------------
(***************************************************************************)
(* record of AudioViewController: a block appends captured packets to      *)
(* pcmData; when there is enough in it, it dispatches a block that writes  *)
(* it to the file and empties it.  The barrier blocks go to a global       *)
(* queue, where a barrier has no effect: they run beside the reader and    *)
(* beside each other (AudioViewController.mm:287-364).                     *)
(*                                                                         *)
(* The packets of a recording are 1, 2, ...  What another recording has    *)
(* left in the file is not modelled, but that there is a file is.          *)
(***************************************************************************)
EXTENDS Naturals, Sequences, SequencesExt

CONSTANTS
    Flushes,        \* blocks that may be dispatched: a bound
    MaxPackets,     \* packets that may be captured: a bound
    BufferSize      \* packets after which pcmData is written to the file

ASSUME BoundsAssumption == MaxPackets \in Nat /\ BufferSize \in Nat \ {0}

VARIABLES
    isInterruptionRequested,
    pc,             \* where the reader is
    captured,       \* packets captured so far
    pcmData,
    flush,          \* where each dispatched block is
    writeData,      \* its copy of pcmData
    exists, file,   \* the file, and the packets of this recording in it
    mishaps         \* auxiliary: races that have happened

reader == <<isInterruptionRequested, pc, captured>>
blocks == <<flush, writeData>>
vars == <<reader, pcmData, blocks, exists, file, mishaps>>

Races == {"append_in_flush", "two_flushes", "end_in_flush", "no_file"}

TypeOK ==
    /\ isInterruptionRequested \in BOOLEAN /\ exists \in BOOLEAN
    /\ pc \in {"test", "read", "append", "write", "append_rest", "empty", "done"}
    /\ captured \in 0 .. MaxPackets
    /\ pcmData \in Seq(1 .. MaxPackets) /\ file \in Seq(1 .. MaxPackets)
    /\ flush \in [Flushes -> {"unborn", "copy", "look", "create", "extend", "empty", "done"}]
    /\ writeData \in [Flushes -> Seq(1 .. MaxPackets)]
    /\ mishaps \subseteq Races

Init ==
    /\ isInterruptionRequested = FALSE
    /\ pc = "test" /\ captured = 0 /\ pcmData = <<>>
    /\ flush = [f \in Flushes |-> "unborn"] /\ writeData = [f \in Flushes |-> <<>>]
    /\ exists \in BOOLEAN /\ file = <<>>
    /\ mishaps = {}

\* blocks that have copied the data and not yet emptied it
Copied == {f \in Flushes : flush[f] \in {"look", "create", "extend", "empty"}}
Note(m, happened) == mishaps' = IF happened THEN mishaps \cup {m} ELSE mishaps

-----------------------------------------------------------------------------
(***************************************************************************)
(* The reader.                                                             *)
(***************************************************************************)
Go(from, to) == pc = from /\ pc' = to

Stop ==
    /\ isInterruptionRequested' = TRUE
    /\ UNCHANGED <<pc, captured, pcmData, blocks, exists, file, mishaps>>

Test ==
    /\ Go("test", IF isInterruptionRequested THEN "write" ELSE "read")
    /\ UNCHANGED <<isInterruptionRequested, captured, pcmData, blocks, exists, file, mishaps>>

\* EAGAIN, or an error: the loop goes on
ReadNothing ==
    /\ Go("read", "test")
    /\ UNCHANGED <<isInterruptionRequested, captured, pcmData, blocks, exists, file, mishaps>>

Read ==
    /\ Go("read", "append")
    /\ captured < MaxPackets
    /\ captured' = captured + 1
    /\ IF Len(pcmData) >= BufferSize
       THEN \E f \in Flushes : flush[f] = "unborn" /\ flush' = [flush EXCEPT ![f] = "copy"]
       ELSE UNCHANGED flush
    /\ UNCHANGED <<isInterruptionRequested, pcmData, writeData, exists, file, mishaps>>

\* Mutant: the packet that finds the buffer full is not appended.
AppendUnlessFull ==
    /\ Go("append", "test")
    /\ pcmData' = IF Len(pcmData) >= BufferSize THEN pcmData ELSE Append(pcmData, captured)
    /\ Note("append_in_flush", Copied # {})
    /\ UNCHANGED <<isInterruptionRequested, captured, blocks, exists, file>>

AppendPacket ==
    /\ Go("append", "test")
    /\ pcmData' = Append(pcmData, captured)
    /\ Note("append_in_flush", Copied # {})
    /\ UNCHANGED <<isInterruptionRequested, captured, blocks, exists, file>>

\* The rest: a handle is nil if there is no file, and writing to it does nothing.
OpenRest ==
    /\ Go("write", IF exists THEN "append_rest" ELSE "empty")
    /\ Note("no_file", ~exists /\ pcmData # <<>>)
    /\ UNCHANGED <<isInterruptionRequested, captured, pcmData, blocks, exists, file>>

WriteRest ==
    /\ Go("append_rest", "empty")
    /\ file' = file \o pcmData
    /\ Note("end_in_flush", Copied # {})
    /\ UNCHANGED <<isInterruptionRequested, captured, pcmData, blocks, exists>>

Finish ==
    /\ Go("empty", "done")
    /\ pcmData' = <<>>
    /\ UNCHANGED <<isInterruptionRequested, captured, blocks, exists, file, mishaps>>

Reader == Test \/ ReadNothing \/ Read \/ AppendPacket \/ OpenRest \/ WriteRest \/ Finish

-----------------------------------------------------------------------------
(***************************************************************************)
(* A block that writes pcmData to the file.                                *)
(***************************************************************************)
Step(f, from, to) == flush[f] = from /\ flush' = [flush EXCEPT ![f] = to]

Copy(f) ==
    /\ Step(f, "copy", "look")
    /\ writeData' = [writeData EXCEPT ![f] = pcmData]
    /\ mishaps' = mishaps \cup (IF Copied # {} THEN {"two_flushes"} ELSE {})
                          \cup (IF pc = "empty" THEN {"end_in_flush"} ELSE {})
    /\ UNCHANGED <<reader, pcmData, exists, file>>

LookForFile(f) ==
    /\ Step(f, "look", IF exists THEN "extend" ELSE "create")
    /\ UNCHANGED <<reader, pcmData, writeData, exists, file, mishaps>>

CreateFile(f) ==
    /\ Step(f, "create", "empty")
    /\ file' = writeData[f] /\ exists' = TRUE
    /\ UNCHANGED <<reader, pcmData, writeData, mishaps>>

ExtendFile(f) ==
    /\ Step(f, "extend", "empty")
    /\ file' = file \o writeData[f]
    /\ UNCHANGED <<reader, pcmData, writeData, exists, mishaps>>

\* Mutant: pcmData is not emptied.
EmptyForgotten(f) ==
    /\ Step(f, "empty", "done")
    /\ UNCHANGED <<reader, pcmData, writeData, exists, file, mishaps>>

Empty(f) ==
    /\ Step(f, "empty", "done")
    /\ pcmData' = <<>>
    /\ UNCHANGED <<reader, writeData, exists, file, mishaps>>

Flush(f) == Copy(f) \/ LookForFile(f) \/ CreateFile(f) \/ ExtendFile(f) \/ Empty(f)

Next == Stop \/ Reader \/ \E f \in Flushes : Flush(f)

Spec == Init /\ [][Next]_vars

-----------------------------------------------------------------------------
(***************************************************************************)
(* Properties.                                                             *)
(***************************************************************************)
\* No packet is in the file twice, unless two blocks, or a block and the end of the
\* recording, have written the same data (AudioViewController.mm:325, 334, 355).
NothingTwice ==
    \/ mishaps \cap {"two_flushes", "end_in_flush"} # {}
    \/ IsInjective(file)

Upto(n) == [i \in 1 .. n |-> i]

\* When the recording is over and every block is done, each packet is in the file, in
\* order, unless one was appended to data that was about to be emptied, blocks have run
\* into each other, or there was no file to write the rest to
\* (AudioViewController.mm:325-337, 343, 353).
NothingMissing ==
    \/ mishaps # {}
    \/ pc = "done" /\ (\A f \in Flushes : flush[f] \in {"unborn", "done"}) =>
           file = Upto(captured)

-----------------------------------------------------------------------------
(***************************************************************************)
(* Why they hold.                                                          *)
(***************************************************************************)
\* The last packet that is in pcmData or has been.
Latest == IF pc = "append" THEN captured - 1 ELSE captured

InFlush == {f \in Flushes : flush[f] \in {"look", "create", "extend"}}
\* What the file says and what pcmData says overlap.
Stale == pc = "empty" \/ \E f \in Flushes : flush[f] = "empty"

Rising(s) == \A i, j \in 1 .. Len(s) : i < j => s[i] < s[j]
Before(s, t) == \A i \in 1 .. Len(s), j \in 1 .. Len(t) : s[i] < t[j]
Below(s, n) == \A i \in 1 .. Len(s) : s[i] <= n

CountInv == pc = "append" => captured > 0

\* What is in the file comes before what is going to be written.
OrderInv ==
    \/ mishaps \cap {"two_flushes", "end_in_flush"} # {}
    \/ /\ \A f, g \in Copied : f = g
       /\ Rising(file) /\ Below(file, Latest)
       /\ Rising(pcmData) /\ Below(pcmData, Latest)
       /\ ~Stale => Before(file, pcmData)
       /\ \A f \in InFlush :
            Rising(writeData[f]) /\ Below(writeData[f], Latest) /\ Before(file, writeData[f])

\* The file and pcmData together are the recording.
CompleteInv ==
    \/ mishaps # {}
    \/ /\ \A f, g \in Copied : f = g
       /\ IF Stale THEN file = Upto(Latest) ELSE file \o pcmData = Upto(Latest)
       /\ \A f \in InFlush : writeData[f] = pcmData
       /\ \A f \in Flushes : flush[f] = "create" => ~exists
       /\ \A f \in Flushes : flush[f] \in {"extend", "empty"} => exists
       /\ ~exists => file = <<>>
       /\ pc = "append_rest" => exists
       /\ pc = "empty" /\ Copied # {} => pcmData = <<>>
       /\ pc = "done" => pcmData = <<>>

=============================================================================
