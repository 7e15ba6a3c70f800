---------------------------- MODULE PcmPlayback ----------------------------
(***************************************************************************)
(* Sound from a file through SDL's one legacy device: WavPlayer, which     *)
(* loads a whole WAV file, and playPCM of AudioViewController, which       *)
(* refills its buffer with one pull at a time (WavPlayer.mm,               *)
(* AudioViewController.mm, AudioBuffer.hpp).                               *)
(*                                                                         *)
(* The callback and the loop of a session share an AudioBuffer without a   *)
(* lock.  Data is counted in pulls: a file is the chunks 1 .. Chunks, and  *)
(* chunk 0 stands for memory that holds none.  SDL_OpenAudio fails while   *)
(* a device is open; SDL_CloseAudio and SDL_Quit close whatever device is  *)
(* open and wait for its callback.                                         *)
(***************************************************************************)
EXTENDS Naturals, Sequences, FiniteSets

CONSTANTS
    Players,        \* calls of playWithFile that may be made
    Feeders,        \* calls of playPCM that may be made
    MaxSessions,    \* calls that are made: a bound
    Chunks,         \* pulls in the file
    None

ASSUME SessionsAssumption ==
    /\ Players \cap Feeders = {} /\ None \notin Players \cup Feeders
    /\ Chunks \in Nat \ {0} /\ MaxSessions \in Nat

Session == Players \cup Feeders

VARIABLES
    selected,       \* the button of WavPlayer
    requested,      \* interruptionRequested of each of the two classes
    device,         \* the session that has opened SDL's device
    running,        \* the device is not paused
    cb,             \* where the callback of the device is
    pc,             \* where each session is
    len, data,      \* its AudioBuffer
    loaded,         \* its WAV data is allocated
    chunk,          \* chunks it has read from the file
    mixed,          \* auxiliary: the chunks the callback has mixed for it
    stopping,       \* auxiliary: sessions a stop was meant for
    robbed,         \* auxiliary: sessions whose device another session has closed
    mishaps         \* auxiliary: races that have happened

audio == <<device, running, cb>>
buffer == <<len, data, loaded, chunk>>
aux == <<mixed, stopping, robbed>>
vars == <<selected, requested, audio, pc, buffer, aux, mishaps>>

Class(s) == IF s \in Players THEN "wav" ELSE "pcm"
InLoop == {"loop", "look", "read", "set"}
Left == {"free", "close"}
Point == {"unborn", "posted", "load", "open", "unpause", "quit", "done"} \cup InLoop \cup Left

TypeOK ==
    /\ selected \in BOOLEAN
    /\ requested \in [{"wav", "pcm"} -> BOOLEAN]
    /\ device \in Session \cup {None} /\ running \in BOOLEAN
    /\ cb \in {"off", "mix", "data", "len"} /\ (cb # "off" => device # None)
    /\ pc \in [Session -> Point]
    /\ len \in [Session -> 0 .. Chunks]
    /\ data \in [Session -> 0 .. Chunks + 1]
    /\ loaded \in [Session -> BOOLEAN]
    /\ chunk \in [Session -> 0 .. Chunks]
    /\ mixed \in [Session -> Seq(0 .. Chunks)]
    /\ stopping \subseteq Session /\ robbed \subseteq Session
    /\ mishaps \subseteq {"stop_forgotten", "pulled_early"}

Init ==
    /\ selected = FALSE
    /\ requested = [c \in {"wav", "pcm"} |-> FALSE]
    /\ device = None /\ running = FALSE /\ cb = "off"
    /\ pc = [s \in Session |-> "unborn"]
    /\ len = [s \in Session |-> 0] /\ data = [s \in Session |-> 0]
    /\ loaded = [s \in Session |-> FALSE]
    /\ chunk = [s \in Session |-> 0]
    /\ mixed = [s \in Session |-> <<>>]
    /\ stopping = {} /\ robbed = {} /\ mishaps = {}

Note(m, happened) == mishaps' = IF happened THEN mishaps \cup {m} ELSE mishaps
Goto(s, from, to) == pc[s] = from /\ pc' = [pc EXCEPT ![s] = to]
Alive(c) == {s \in Session : Class(s) = c /\ pc[s] \in InLoop \cup {"posted", "load", "open", "unpause"}}

-----------------------------------------------------------------------------
(***************************************************************************)
(* The buttons.                                                            *)
(***************************************************************************)
MayStart == Cardinality({s \in Session : pc[s] # "unborn"}) < MaxSessions

PlayWav(s) ==
    /\ s \in Players /\ ~selected /\ MayStart
    /\ Goto(s, "unborn", "posted")
    /\ selected' = TRUE
    /\ UNCHANGED <<requested, audio, buffer, aux, mishaps>>

StopWav ==
    /\ selected
    /\ selected' = FALSE
    /\ requested' = [requested EXCEPT !["wav"] = TRUE]
    /\ stopping' = stopping \cup Alive("wav")
    /\ UNCHANGED <<audio, pc, buffer, mixed, robbed, mishaps>>

\* playPCM does not reset the flag, which is the recorder's too.
PlayPcm(s) ==
    /\ s \in Feeders /\ MayStart
    /\ Goto(s, "unborn", "open")
    /\ stopping' = IF requested["pcm"] THEN stopping \cup {s} ELSE stopping
    /\ UNCHANGED <<selected, requested, audio, buffer, mixed, robbed, mishaps>>

ToggleRecord ==
    /\ requested' = [requested EXCEPT !["pcm"] = ~@]
    /\ IF requested["pcm"]
       THEN Note("stop_forgotten", stopping \cap Alive("pcm") # {}) /\ UNCHANGED stopping
       ELSE stopping' = stopping \cup Alive("pcm") /\ UNCHANGED mishaps
    /\ UNCHANGED <<selected, audio, pc, buffer, mixed, robbed>>

-----------------------------------------------------------------------------
(***************************************************************************)
(* A session.                                                              *)
(***************************************************************************)
\* The block resets the flag, whoever set it and whenever.
Begin(s) ==
    /\ Goto(s, "posted", "load")
    /\ requested' = [requested EXCEPT !["wav"] = FALSE]
    /\ Note("stop_forgotten", stopping \cap Alive("wav") # {})
    /\ UNCHANGED <<selected, audio, buffer, aux>>

InitFails(s) ==
    /\ \/ Goto(s, "posted", "done")
       \/ s \in Feeders /\ Goto(s, "open", "done")
    /\ UNCHANGED <<selected, requested, audio, buffer, aux, mishaps>>

LoadWav(s) ==
    /\ Goto(s, "load", "open")
    /\ loaded' = [loaded EXCEPT ![s] = TRUE]
    /\ data' = [data EXCEPT ![s] = 1]
    /\ len' = [len EXCEPT ![s] = Chunks]
    /\ UNCHANGED <<selected, requested, audio, chunk, aux, mishaps>>

OpenAudio(s) ==
    /\ Goto(s, "open", "unpause")
    /\ device = None
    /\ device' = s /\ running' = FALSE
    /\ UNCHANGED <<selected, requested, cb, buffer, aux, mishaps>>

\* SDL_LoadWAV or SDL_OpenAudio fails; the data of a session that has loaded it is lost.
OpenFails(s) ==
    /\ Goto(s, "load", "quit") \/ Goto(s, "open", "quit")
    /\ UNCHANGED <<selected, requested, audio, buffer, aux, mishaps>>

\* Mutant: SDL_PauseAudio(0) is not called.
UnpauseForgotten(s) ==
    /\ Goto(s, "unpause", "loop")
    /\ UNCHANGED <<selected, requested, audio, buffer, aux, mishaps>>

Unpause(s) ==
    /\ Goto(s, "unpause", "loop")
    /\ running' = (device # None)
    /\ UNCHANGED <<selected, requested, device, cb, buffer, aux, mishaps>>

\* What follows the loop.
After(s) == IF s \in Players THEN "free" ELSE "close"

\* Mutant: the flag is not looked at again.
LoopTestOnce(s) ==
    /\ Goto(s, "loop", IF requested[Class(s)] /\ mixed[s] = <<>> THEN After(s) ELSE "look")
    /\ UNCHANGED <<selected, requested, audio, buffer, aux, mishaps>>

LoopTest(s) ==
    /\ Goto(s, "loop", IF requested[Class(s)] THEN After(s) ELSE "look")
    /\ UNCHANGED <<selected, requested, audio, buffer, aux, mishaps>>

\* Mutant: the loop ends with the last chunk still in the buffer.
LookOneLess(s) ==
    /\ Goto(s, "look", IF len[s] > 1 THEN "loop" ELSE IF s \in Players THEN "free" ELSE "read")
    /\ UNCHANGED <<selected, requested, audio, buffer, aux, mishaps>>

Look(s) ==
    /\ Goto(s, "look", IF len[s] > 0 THEN "loop" ELSE IF s \in Players THEN "free" ELSE "read")
    /\ UNCHANGED <<selected, requested, audio, buffer, aux, mishaps>>

\* playPCM sets the length first.
Read(s) ==
    /\ Goto(s, "read", "set")
    /\ chunk[s] < Chunks
    /\ chunk' = [chunk EXCEPT ![s] = @ + 1]
    /\ len' = [len EXCEPT ![s] = 1]
    /\ UNCHANGED <<selected, requested, audio, data, loaded, aux, mishaps>>

ReadEnd(s) ==
    /\ Goto(s, "read", "close")
    /\ chunk[s] = Chunks
    /\ len' = [len EXCEPT ![s] = 0]
    /\ UNCHANGED <<selected, requested, audio, data, loaded, chunk, aux, mishaps>>

SetData(s) ==
    /\ Goto(s, "set", "loop")
    /\ data' = [data EXCEPT ![s] = chunk[s]]
    /\ UNCHANGED <<selected, requested, audio, len, loaded, chunk, aux, mishaps>>

FreeWav(s) ==
    /\ Goto(s, "free", "close")
    /\ loaded' = [loaded EXCEPT ![s] = FALSE]
    /\ UNCHANGED <<selected, requested, audio, len, data, chunk, aux, mishaps>>

\* Mutant: the device is closed without waiting for its callback.
CloseDeviceNow(s) ==
    /\ Goto(s, "close", "quit") \/ Goto(s, "quit", "done")
    /\ device' = None /\ running' = FALSE
    /\ robbed' = IF device \in {None, s} THEN robbed ELSE robbed \cup {device}
    /\ UNCHANGED <<selected, requested, cb, buffer, mixed, stopping, mishaps>>

\* SDL_CloseAudio, SDL_Quit
CloseDevice(s) ==
    /\ Goto(s, "close", "quit") \/ Goto(s, "quit", "done")
    /\ cb = "off"
    /\ device' = None /\ running' = FALSE
    /\ robbed' = IF device \in {None, s} THEN robbed ELSE robbed \cup {device}
    /\ UNCHANGED <<selected, requested, cb, buffer, mixed, stopping, mishaps>>

Run(s) ==
    \/ Begin(s) \/ InitFails(s) \/ LoadWav(s) \/ OpenAudio(s) \/ OpenFails(s) \/ Unpause(s)
    \/ LoopTest(s) \/ Look(s) \/ Read(s) \/ ReadEnd(s) \/ SetData(s) \/ FreeWav(s)

-----------------------------------------------------------------------------
(***************************************************************************)
(* The callback of the open device: pull_audio_data, pulAudioData.         *)
(***************************************************************************)
Pull ==
    /\ cb = "off" /\ running /\ device # None
    /\ len[device] > 0
    /\ cb' = "mix"
    /\ Note("pulled_early", pc[device] = "set")
    /\ UNCHANGED <<selected, requested, device, running, pc, buffer, aux>>

Mix ==
    /\ cb = "mix"
    /\ mixed' = [mixed EXCEPT ![device] = Append(@, data[device])]
    /\ cb' = "data"
    /\ UNCHANGED <<selected, requested, device, running, pc, buffer, stopping, robbed, mishaps>>

\* Behind the only chunk of a feeder there is none.
AdvanceData ==
    /\ cb = "data"
    /\ data' = [data EXCEPT ![device] = IF device \in Players THEN @ + 1 ELSE 0]
    /\ cb' = "len"
    /\ UNCHANGED <<selected, requested, device, running, pc, len, loaded, chunk, aux, mishaps>>

AdvanceLen ==
    /\ cb = "len"
    /\ len' = [len EXCEPT ![device] = @ - 1]
    /\ cb' = "off"
    /\ UNCHANGED <<selected, requested, device, running, pc, data, loaded, chunk, aux, mishaps>>

Callback == Pull \/ Mix \/ AdvanceData \/ AdvanceLen

Next ==
    \/ \E s \in Session : PlayWav(s) \/ PlayPcm(s) \/ Run(s) \/ CloseDevice(s)
    \/ StopWav \/ ToggleRecord \/ Callback

Spec == Init /\ [][Next]_vars

\* The blocks and SDL's thread go on.  A session that closes the device gets it: SDL tells
\* its thread to end and joins it, so the callback does not run again and again.
Fairness ==
    /\ \A s \in Session : WF_vars(Run(s)) /\ SF_vars(CloseDevice(s))
    /\ WF_vars(Callback)

FairSpec == Spec /\ Fairness

-----------------------------------------------------------------------------
(***************************************************************************)
(* Properties.                                                             *)
(***************************************************************************)
\* The callback mixes from WAV data that has been freed only in a session that was left by
\* stop(): FreeWAV comes before CloseAudio (WavPlayer.mm:108), but a session that plays to
\* the end frees its data when no callback touches it any more.
DataLive ==
    cb = "mix" /\ device \in Players => loaded[device] \/ device \in stopping

\* No callback is in an AudioBuffer on the stack of a block that has returned, although
\* the loop may leave while the callback runs (WavPlayer.mm:84-87, 109).
BufferLive ==
    cb # "off" => device # None /\ pc[device] # "done"

Upto(n) == [i \in 1 .. n |-> i]

\* A session that nobody stops has had all its chunks mixed, once and in order, when it
\* leaves its loop, whatever other sessions do; a feeder unless the callback came between
\* the length and the data (AudioViewController.mm:417, 427).
WholeFilePlayed ==
    \A s \in Session :
        pc[s] \in {"free", "close"} =>
            \/ s \in stopping
            \/ s \in Feeders /\ "pulled_early" \in mishaps
            \/ mixed[s] = Upto(Chunks)

\* After a stop a session takes no further turn of its loop, unless a block that began
\* later has reset the flag (WavPlayer.mm:72, 97).
StopTakes ==
    [][\A s \in stopping : pc[s] = "loop" /\ pc'[s] = "look" => "stop_forgotten" \in mishaps]_vars

\* Who has opened the device has it until its own SDL_CloseAudio, and it runs while the
\* session is in its loop, so its callback will take what is in the buffer and no second
\* session plays.  The exception is a session whose device another one has closed, in one
\* of three ways: by the SDL_Quit after a failure (WavPlayer.mm:78, 90,
\* AudioViewController.mm:407), by the SDL_Quit of a session that has ended and closed
\* its own device before (WavPlayer.mm:109-110, AudioViewController.mm:430-431), or by the
\* SDL_CloseAudio of a session that has been robbed itself.
DeviceIsOwn ==
    \A s \in Session \ robbed :
        /\ pc[s] \in {"unpause"} \cup InLoop \cup Left => device = s
        /\ pc[s] \in InLoop => running

\* Every session that has begun to play ends, even when its stop is forgotten.  The only
\* exception is one that another has robbed of its device, in one of the three ways above,
\* and nobody stops, or whose stop is forgotten: a stop ends a robbed session too
\* (WavPlayer.mm:78, 90, 97, 110, AudioViewController.mm:407, 414, 431).
SessionsEnd ==
    \A s \in Session :
        pc[s] \in InLoop ~>
            \/ pc[s] = "done"
            \/ s \in robbed /\ (s \notin stopping \/ "stop_forgotten" \in mishaps)

-----------------------------------------------------------------------------
(***************************************************************************)
(* Why they hold.                                                          *)
(***************************************************************************)
Going == {"load", "open", "unpause"} \cup InLoop

\* Who has the device is past its opening and has not closed it, and what the callback is
\* taking is still counted in the buffer.
ControlInv ==
    /\ device # None => pc[device] \in {"unpause"} \cup InLoop \cup Left
    /\ cb # "off" => device # None /\ len[device] > 0
    /\ \A s \in Feeders : pc[s] \notin {"posted", "load", "free"}
    /\ \A s \in Players : pc[s] \notin {"read", "set"}

\* What the callback has done to the buffer, but not to its length.
Moved(s, points) == IF device = s /\ cb \in points THEN 1 ELSE 0

\* The data of a player is allocated until it is freed, and position and length agree; a
\* feeder has one chunk at most, and none when it reads.
BufferInv ==
    /\ \A s \in Players :
        /\ pc[s] \in {"unborn", "posted", "load"} => data[s] = 0
        /\ pc[s] \in {"open", "unpause"} \cup InLoop \cup Left => data[s] # 0
        /\ pc[s] \in {"open", "unpause", "free"} \cup InLoop => loaded[s]
        /\ IF data[s] = 0 THEN len[s] = 0
           ELSE data[s] = Chunks + 1 - len[s] + Moved(s, {"len"})
    /\ \A s \in Feeders :
        /\ len[s] <= 1 /\ len[s] <= chunk[s] /\ data[s] <= Chunks
        /\ pc[s] = "read" => len[s] = 0

\* A session goes on until it is asked to stop or has nothing left, and a flag that is up
\* was meant for those that go on.
StopInv ==
    /\ \A s \in stopping : pc[s] # "unborn"
    /\ \A s \in Session : pc[s] \in Left =>
        \/ s \in stopping
        \/ len[s] = 0 /\ (s \in Feeders => chunk[s] = Chunks)
    /\ \A s \in Session : pc[s] \in Going /\ requested[Class(s)] => s \in stopping
    /\ \A s \in stopping :
        pc[s] \in Going \cup {"posted"} => requested[Class(s)] \/ "stop_forgotten" \in mishaps

\* Chunks that have been in the buffer of s.
Given(s) == IF s \in Feeders THEN chunk[s] ELSE IF data[s] = 0 THEN 0 ELSE Chunks

\* The callback has mixed what is not in the buffer any more.
MixedInv ==
    /\ \A s \in Players : mixed[s] = Upto(Given(s) - len[s] + Moved(s, {"data", "len"}))
    /\ \/ "pulled_early" \in mishaps
       \/ \A s \in Feeders :
            /\ mixed[s] = Upto(Given(s) - len[s] + Moved(s, {"data", "len"}))
            /\ IF pc[s] = "set" THEN len[s] = 1 /\ (device = s => cb = "off")
               ELSE len[s] = 1 /\ Moved(s, {"len"}) = 0 => data[s] = chunk[s]

PlaybackInv == ControlInv /\ BufferInv /\ StopInv /\ MixedInv

=============================================================================
