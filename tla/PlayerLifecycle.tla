--------------------------- MODULE PlayerLifecycle ---------------------------
(***************************************************************************)
(* Start, pause, stop and teardown of VideoPlayer                          *)
(* (FaceWorkflow/VideoPlayer/Player/VideoPlayer.cpp, VideoPlayerAudio.cpp, *)
(* VideoPlayerVideo.cpp).                                                  *)
(*                                                                         *)
(* Four kinds of thread share the player object without a lock around its  *)
(* state: the UI thread (play, pause, stop, setTime), the reader thread    *)
(* that play() detaches (readFile), the decoder thread that readFile       *)
(* detaches (decodeVideo), and SDL's audio thread (sdlAudioCallback).      *)
(* stop() may run on the UI thread or, at the end of the file, on the      *)
(* reader.  It sets state, spins on three "can free" flags, and then       *)
(* releases what the other threads were using.                             *)
(*                                                                         *)
(* Every access to a shared member is a step of its own, so a test and the *)
(* assignment it guards are two steps.  Packets, clocks and seeking are    *)
(* abstracted to nondeterministic outcomes here.  The build modelled is    *)
(* the one that reloads a flag on every turn of a spin loop.               *)
(***************************************************************************)
EXTENDS Naturals, FiniteSets

CONSTANTS
    Main,       \* the UI thread
    Readers     \* reader threads: one for each session that may be started

ASSUME MainAssumption == Main \notin Readers

Threads == Readers \cup {Main}      \* the threads that can execute stop()
State == {"Stopped", "Playing", "Paused"}

VARIABLES
    state,          \* VideoPlayer::state
    hasAudio,       \* an audio stream was found and its decoder and SDL opened
    hasVideo,
    aCanFree,       \* "the audio may be freed", set by the SDL callback
    vCanFree,       \* set by decodeVideo as its last step
    fmtCtxCanFree,  \* set by readFile
    fmtCtx,         \* the demuxer context is open
    audioRes,       \* aDecodeCtx, aSwrCtx and the audio frames are allocated
    videoRes,       \* vDecodeCtx, vSwsCtx and the video frames are allocated
    device,         \* SDL's audio device
    pc,             \* where each thread of Threads is
    vpc,            \* where the decoder thread detached by each reader is
    apc,            \* where SDL's audio thread is in sdlAudioCallback
    mishaps         \* auxiliary: the races that have occurred so far

flags == <<aCanFree, vCanFree, fmtCtxCanFree>>
media == <<hasAudio, hasVideo, fmtCtx, audioRes, videoRes, device>>
vars == <<state, flags, media, pc, vpc, apc, mishaps>>

(***************************************************************************)
(* The races a step can be.  mishaps never appears in a guard: it only     *)
(* lets a property say "unless one of these happened".                     *)
(***************************************************************************)
Mishap == {"second_reader",     \* play() started a reader beside a live one
           "second_stop",       \* two threads passed the test in stop()
           "revived",           \* setState overwrote Stopped on the UI thread
           "late_release",      \* readFile set fmtCtxCanFree after free() ran
           "late_signal",       \* the callback set aCanFree after free() reset it
           "unwatched_decoder", \* decodeVideo started with hasVideo = false
           "seek_in_close",     \* fmtCtx closed inside the UI's getDuration
           "probe_failed"}      \* find_stream_info failed, fmtCtx left open

Note(m, happened) == mishaps' = IF happened THEN mishaps \cup {m} ELSE mishaps

Goto(t, label) == pc' = [pc EXCEPT ![t] = label]
VGoto(r, label) == vpc' = [vpc EXCEPT ![r] = label]

(***************************************************************************)
(* Program points.                                                         *)
(***************************************************************************)
\* in free(), after the three waits
Releasing == {"close", "reset_fmt", "reset_audio", "release_audio",
              "pause_device", "close_device", "release_video", "reset_video"}
\* in free(), called by stop()
Teardown == {"await_audio", "await_video", "await_fmt"} \cup Releasing
\* a reader before it has set Playing
Starting == {"open", "probe", "init_audio", "init_video", "test_playing",
             "write_playing"}
\* a reader from there to the end of readFile, free() excepted
Running == {"unpause", "spawn", "loop", "read", "eof", "tail", "release",
            "stop", "stopping"}
UiPoints == {"idle", "play", "seek", "stopping", "test_playing", "write_playing",
             "test_paused", "write_paused"}
\* a reader that has not been started or whose thread has ended
Off == {"unborn", "done"}

\* the points at which a thread uses fmtCtx, the audio or the video resources
UsesFmt == {"probe", "init_audio", "init_video", "read"}
UsesVideo == {"pop", "decode", "sync", "emit"}

Alive(r) == pc[r] \notin Off

ValuesOK ==
    /\ state \in State
    /\ hasAudio \in BOOLEAN /\ hasVideo \in BOOLEAN
    /\ aCanFree \in BOOLEAN /\ vCanFree \in BOOLEAN /\ fmtCtxCanFree \in BOOLEAN
    /\ fmtCtx \in BOOLEAN /\ audioRes \in BOOLEAN /\ videoRes \in BOOLEAN
    /\ device \in {"closed", "paused", "running"}

PointsOK ==
    /\ pc \in [Threads -> UiPoints \cup Off \cup Starting \cup Running \cup Teardown]
    /\ pc[Main] \in UiPoints \cup Teardown
    /\ \A r \in Readers : pc[r] \in Off \cup Starting \cup Running \cup Teardown
    /\ vpc \in [Readers -> Off \cup UsesVideo \cup
                           {"pause_test", "stop_test", "signal"}]
    /\ apc \in {"idle", "pause_test", "stop_test", "signal", "decode"}
    /\ mishaps \subseteq Mishap

TypeOK == ValuesOK /\ PointsOK

Init ==
    /\ state = "Stopped"
    /\ hasAudio = FALSE /\ hasVideo = FALSE
    /\ aCanFree = FALSE /\ vCanFree = FALSE /\ fmtCtxCanFree = FALSE
    /\ fmtCtx = FALSE /\ audioRes = FALSE /\ videoRes = FALSE
    /\ device = "closed"
    /\ pc = [t \in Threads |-> IF t = Main THEN "idle" ELSE "unborn"]
    /\ vpc = [r \in Readers |-> "unborn"]
    /\ apc = "idle"
    /\ mishaps = {}

-----------------------------------------------------------------------------
(***************************************************************************)
(* setState(s): a comparison, then the assignment and the notification.    *)
(* A reader always calls it with Playing, the UI from play() and pause().  *)
(***************************************************************************)
TestPoint(s) == IF s = "Playing" THEN "test_playing" ELSE "test_paused"
WritePoint(s) == IF s = "Playing" THEN "write_playing" ELSE "write_paused"
AfterSetState(t) == IF t = Main THEN "idle" ELSE "unpause"

SetStateTest(t, s) ==
    /\ pc[t] = TestPoint(s)
    /\ Goto(t, IF state = s THEN AfterSetState(t) ELSE WritePoint(s))
    /\ UNCHANGED <<state, flags, media, vpc, apc, mishaps>>

SetStateWrite(t, s) ==
    /\ pc[t] = WritePoint(s)
    /\ state' = s
    /\ Goto(t, AfterSetState(t))
    /\ Note("revived", t = Main /\ state = "Stopped")
    /\ UNCHANGED <<flags, media, vpc, apc>>

(***************************************************************************)
(* stop(), on the UI thread or at the tail of readFile: a test, the        *)
(* assignment, then free().                                                *)
(***************************************************************************)
\* Mutant: the reader's thread does not end after stop().
AfterStopNoExit(t) == "idle"

AfterStop(t) == IF t = Main THEN "idle" ELSE "done"

StopTest(t) ==
    /\ pc[t] = IF t = Main THEN "idle" ELSE "stop"
    /\ Goto(t, IF state = "Stopped" THEN AfterStop(t) ELSE "stopping")
    /\ UNCHANGED <<state, flags, media, vpc, apc, mishaps>>

\* Mutant: stop() does not set state before it frees.
StopWriteForgotten(t) ==
    /\ pc[t] = "stopping"
    /\ Goto(t, "await_audio")
    /\ Note("second_stop", state = "Stopped")
    /\ UNCHANGED <<state, flags, media, vpc, apc>>

StopWrite(t) ==
    /\ pc[t] = "stopping"
    /\ state' = "Stopped"
    /\ Goto(t, "await_audio")
    /\ Note("second_stop", state = "Stopped")
    /\ UNCHANGED <<flags, media, vpc, apc>>

(***************************************************************************)
(* free(): three spin loops, then the releases, each resetting its flag.   *)
(***************************************************************************)
AwaitAudio(t) ==
    /\ pc[t] = "await_audio"
    /\ hasAudio => aCanFree
    /\ Goto(t, "await_video")
    /\ UNCHANGED <<state, flags, media, vpc, apc, mishaps>>

\* Mutant: free() does not wait for the decoder thread.
AwaitVideoSkipped(t) ==
    /\ pc[t] = "await_video"
    /\ Goto(t, "await_fmt")
    /\ UNCHANGED <<state, flags, media, vpc, apc, mishaps>>

AwaitVideo(t) ==
    /\ pc[t] = "await_video"
    /\ hasVideo => vCanFree
    /\ Goto(t, "await_fmt")
    /\ UNCHANGED <<state, flags, media, vpc, apc, mishaps>>

AwaitFmt(t) ==
    /\ pc[t] = "await_fmt"
    /\ fmtCtxCanFree
    /\ Goto(t, "close")
    /\ UNCHANGED <<state, flags, media, vpc, apc, mishaps>>

CloseInput(t) ==
    /\ pc[t] = "close"
    /\ fmtCtx' = FALSE
    /\ Goto(t, "reset_fmt")
    /\ Note("seek_in_close", pc[Main] = "seek")
    /\ UNCHANGED <<state, flags, hasAudio, hasVideo, audioRes, videoRes, device, vpc, apc>>

ResetFmt(t) ==
    /\ pc[t] = "reset_fmt"
    /\ fmtCtxCanFree' = FALSE
    /\ Goto(t, "reset_audio")
    /\ UNCHANGED <<state, aCanFree, vCanFree, media, vpc, apc, mishaps>>

\* freeAudio() resets the flag first, ...
FreeAudioReset(t) ==
    /\ pc[t] = "reset_audio"
    /\ aCanFree' = FALSE
    /\ Goto(t, "release_audio")
    /\ UNCHANGED <<state, vCanFree, fmtCtxCanFree, media, vpc, apc, mishaps>>

FreeAudioRelease(t) ==
    /\ pc[t] = "release_audio"
    /\ audioRes' = FALSE
    /\ Goto(t, "pause_device")
    /\ UNCHANGED <<state, flags, hasAudio, hasVideo, fmtCtx, videoRes, device,
                   vpc, apc, mishaps>>

\* ... and only then silences the callback.  SDL_PauseAudio takes the lock that
\* SDL holds during a callback, SDL_CloseAudio joins the audio thread.
PauseDevice(t) ==
    /\ pc[t] = "pause_device"
    /\ apc = "idle"
    /\ device' = IF device = "running" THEN "paused" ELSE device
    /\ Goto(t, "close_device")
    /\ UNCHANGED <<state, flags, hasAudio, hasVideo, fmtCtx, audioRes, videoRes,
                   vpc, apc, mishaps>>

\* Mutant: freeAudio() pauses the device but does not close it.
CloseDeviceForgotten(t) ==
    /\ pc[t] = "close_device"
    /\ Goto(t, "release_video")
    /\ UNCHANGED <<state, flags, media, vpc, apc, mishaps>>

CloseDevice(t) ==
    /\ pc[t] = "close_device"
    /\ apc = "idle"
    /\ device' = "closed"
    /\ Goto(t, "release_video")
    /\ UNCHANGED <<state, flags, hasAudio, hasVideo, fmtCtx, audioRes, videoRes,
                   vpc, apc, mishaps>>

\* freeVideo() releases first and resets vCanFree at its end.
FreeVideoRelease(t) ==
    /\ pc[t] = "release_video"
    /\ videoRes' = FALSE
    /\ Goto(t, "reset_video")
    /\ UNCHANGED <<state, flags, hasAudio, hasVideo, fmtCtx, audioRes, device,
                   vpc, apc, mishaps>>

\* Mutant: freeVideo() leaves vCanFree up.
FreeVideoResetForgotten(t) ==
    /\ pc[t] = "reset_video"
    /\ Goto(t, AfterStop(t))
    /\ UNCHANGED <<state, flags, media, vpc, apc, mishaps>>

FreeVideoReset(t) ==
    /\ pc[t] = "reset_video"
    /\ vCanFree' = FALSE
    /\ Goto(t, AfterStop(t))
    /\ UNCHANGED <<state, aCanFree, fmtCtxCanFree, media, vpc, apc, mishaps>>

Stop(t) ==
    \/ StopTest(t) \/ StopWrite(t)
    \/ AwaitAudio(t) \/ AwaitVideo(t) \/ AwaitFmt(t)
    \/ CloseInput(t) \/ ResetFmt(t)
    \/ FreeAudioReset(t) \/ FreeAudioRelease(t) \/ PauseDevice(t) \/ CloseDevice(t)
    \/ FreeVideoRelease(t) \/ FreeVideoReset(t)

-----------------------------------------------------------------------------
(***************************************************************************)
(* The UI thread.  A call that returns at its first test changes nothing   *)
(* and is a stuttering step.                                               *)
(***************************************************************************)
\* play(): `state == Playing' and `state == Stopped' are two reads.  A play is
\* only begun while a reader is left: the bound on the number of sessions.
PlayBegin ==
    /\ pc[Main] = "idle"
    /\ state # "Playing"
    /\ \E r \in Readers : pc[r] = "unborn"
    /\ Goto(Main, "play")
    /\ UNCHANGED <<state, flags, media, vpc, apc, mishaps>>

PlayStart(r) ==
    /\ pc[Main] = "play"
    /\ state = "Stopped"
    /\ pc[r] = "unborn"
    /\ pc' = [pc EXCEPT ![Main] = "idle", ![r] = "open"]
    /\ Note("second_reader", \E s \in Readers : Alive(s))
    /\ UNCHANGED <<state, flags, media, vpc, apc>>

PlayResume ==
    /\ pc[Main] = "play"
    /\ state # "Stopped"
    /\ Goto(Main, TestPoint("Playing"))
    /\ UNCHANGED <<state, flags, media, vpc, apc, mishaps>>

PauseBegin ==
    /\ pc[Main] = "idle"
    /\ state = "Playing"
    /\ Goto(Main, TestPoint("Paused"))
    /\ UNCHANGED <<state, flags, media, vpc, apc, mishaps>>

\* setTime() calls getDuration(), which tests fmtCtx and then reads through it.
SeekBegin ==
    /\ pc[Main] = "idle"
    /\ fmtCtx
    /\ Goto(Main, "seek")
    /\ UNCHANGED <<state, flags, media, vpc, apc, mishaps>>

SeekUse ==
    /\ pc[Main] = "seek"
    /\ Goto(Main, "idle")
    /\ UNCHANGED <<state, flags, media, vpc, apc, mishaps>>

Ui ==
    \/ PlayBegin \/ PlayResume \/ PauseBegin \/ SeekBegin \/ SeekUse
    \/ \E r \in Readers : PlayStart(r)
    \/ \E s \in {"Playing", "Paused"} : SetStateTest(Main, s) \/ SetStateWrite(Main, s)
    \/ Stop(Main)

-----------------------------------------------------------------------------
(***************************************************************************)
(* The reader thread: readFile().                                          *)
(***************************************************************************)
\* avformat_open_input frees and clears fmtCtx when it fails; END returns.  The
\* context may be one that an earlier failed probe left open.
Open(r, ok) ==
    /\ pc[r] = "open"
    /\ fmtCtx' = ok
    /\ Goto(r, IF ok THEN "probe" ELSE "done")
    /\ Note("seek_in_close", ~ok /\ pc[Main] = "seek")
    /\ UNCHANGED <<state, flags, hasAudio, hasVideo, audioRes, videoRes, device,
                   vpc, apc>>

\* A failing avformat_find_stream_info returns with fmtCtx open.
Probe(r, ok) ==
    /\ pc[r] = "probe"
    /\ Goto(r, IF ok THEN "init_audio" ELSE "done")
    /\ Note("probe_failed", ~ok)
    /\ UNCHANGED <<state, flags, media, vpc, apc>>

\* initAudioInfo: decoder, resampler, device.  SDL has one legacy device, so
\* SDL_OpenAudio fails while it is open; what was allocated before a failure
\* stays allocated.
InitAudio(r, ok) ==
    /\ pc[r] = "init_audio"
    /\ ok => device = "closed"
    /\ hasAudio' = ok
    /\ audioRes' \in BOOLEAN /\ (ok \/ audioRes => audioRes')
    /\ device' = IF ok THEN "paused" ELSE device
    /\ Goto(r, "init_video")
    /\ UNCHANGED <<state, flags, hasVideo, fmtCtx, videoRes, vpc, apc, mishaps>>

InitVideo(r, ok) ==
    /\ pc[r] = "init_video"
    /\ hasVideo' = ok
    /\ videoRes' \in BOOLEAN /\ (ok \/ videoRes => videoRes')
    /\ Goto(r, TestPoint("Playing"))
    /\ UNCHANGED <<state, flags, hasAudio, fmtCtx, audioRes, device, vpc, apc, mishaps>>

Unpause(r) ==
    /\ pc[r] = "unpause"
    /\ apc = "idle"
    /\ device' = IF device = "paused" THEN "running" ELSE device
    /\ Goto(r, "spawn")
    /\ UNCHANGED <<state, flags, hasAudio, hasVideo, fmtCtx, audioRes, videoRes,
                   vpc, apc, mishaps>>

\* The decoder thread is detached whether or not there is a video stream.
SpawnDecoder(r) ==
    /\ pc[r] = "spawn"
    /\ VGoto(r, "pause_test")
    /\ Goto(r, "loop")
    /\ Note("unwatched_decoder", ~hasVideo)
    /\ UNCHANGED <<state, flags, media, apc>>

LoopTest(r) ==
    /\ pc[r] = "loop"
    /\ Goto(r, IF state = "Stopped" THEN "tail" ELSE "read")
    /\ UNCHANGED <<state, flags, media, vpc, apc, mishaps>>

\* One turn of the loop: a seek, a packet queued, full lists, an error, or the
\* end of the file with packets still queued all go back to the test; the end of
\* the file with both lists empty leaves the loop.
ReadFrame(r) ==
    /\ pc[r] = "read"
    /\ \E next \in {"loop", "eof"} : Goto(r, next)
    /\ UNCHANGED <<state, flags, media, vpc, apc, mishaps>>

ReaderFinished(r) ==
    /\ pc[r] = "eof"
    /\ fmtCtxCanFree' = TRUE
    /\ Goto(r, "tail")
    /\ UNCHANGED <<state, aCanFree, vCanFree, media, vpc, apc, mishaps>>

ReaderTail(r) ==
    /\ pc[r] = "tail"
    /\ Goto(r, IF fmtCtxCanFree THEN "stop" ELSE "release")
    /\ UNCHANGED <<state, flags, media, vpc, apc, mishaps>>

ReaderRelease(r) ==
    /\ pc[r] = "release"
    /\ fmtCtxCanFree' = TRUE
    /\ Goto(r, "done")
    /\ Note("late_release", ~fmtCtx)
    /\ UNCHANGED <<state, aCanFree, vCanFree, media, vpc, apc>>

Reader(r) ==
    \/ \E ok \in BOOLEAN : Open(r, ok) \/ Probe(r, ok) \/ InitAudio(r, ok) \/ InitVideo(r, ok)
    \/ SetStateTest(r, "Playing") \/ SetStateWrite(r, "Playing")
    \/ Unpause(r) \/ SpawnDecoder(r)
    \/ LoopTest(r) \/ ReadFrame(r) \/ ReaderFinished(r) \/ ReaderTail(r) \/ ReaderRelease(r)
    \/ Stop(r)

-----------------------------------------------------------------------------
(***************************************************************************)
(* The decoder thread: decodeVideo().                                      *)
(***************************************************************************)
\* A paused decoder spins, unless a seek is pending.
DecoderPauseTest(r) ==
    /\ vpc[r] = "pause_test"
    /\ state # "Paused"
    /\ VGoto(r, "stop_test")
    /\ UNCHANGED <<state, flags, media, pc, apc, mishaps>>

DecoderSeekWhilePaused(r) ==
    /\ vpc[r] = "pause_test"
    /\ state = "Paused"
    /\ VGoto(r, "stop_test")
    /\ UNCHANGED <<state, flags, media, pc, apc, mishaps>>

\* Mutant: the loop returns when the player is stopped, without setting vCanFree.
DecoderStopTestReturns(r) ==
    /\ vpc[r] = "stop_test"
    /\ VGoto(r, IF state = "Stopped" THEN "done" ELSE "pop")
    /\ UNCHANGED <<state, flags, media, pc, apc, mishaps>>

DecoderStopTest(r) ==
    /\ vpc[r] = "stop_test"
    /\ VGoto(r, IF state = "Stopped" THEN "signal" ELSE "pop")
    /\ UNCHANGED <<state, flags, media, pc, apc, mishaps>>

\* The list is empty, or a packet is taken and sent to the codec.
DecoderPop(r) ==
    /\ vpc[r] = "pop"
    /\ \E next \in {"pause_test", "decode"} : VGoto(r, next)
    /\ UNCHANGED <<state, flags, media, pc, apc, mishaps>>

\* A frame came out and is converted; frames before the seek time are dropped.
DecoderFrame(r) ==
    /\ vpc[r] = "decode"
    /\ VGoto(r, IF hasAudio THEN "sync" ELSE "emit")
    /\ UNCHANGED <<state, flags, media, pc, apc, mishaps>>

\* The codec wants another packet, or failed.
DecoderDrained(r) ==
    /\ vpc[r] = "decode"
    /\ VGoto(r, "pause_test")
    /\ UNCHANGED <<state, flags, media, pc, apc, mishaps>>

\* while (vTime > aTime && state == Playing)
DecoderClockReached(r) ==
    /\ vpc[r] = "sync"
    /\ VGoto(r, "emit")
    /\ UNCHANGED <<state, flags, media, pc, apc, mishaps>>

\* Mutant: while (vTime > aTime && state != Paused)
DecoderSyncOnlyPause(r) ==
    /\ vpc[r] = "sync"
    /\ state = "Paused"
    /\ VGoto(r, "emit")
    /\ UNCHANGED <<state, flags, media, pc, apc, mishaps>>

DecoderSyncAborted(r) ==
    /\ vpc[r] = "sync"
    /\ state # "Playing"
    /\ VGoto(r, "emit")
    /\ UNCHANGED <<state, flags, media, pc, apc, mishaps>>

\* Copies the converted frame and hands it to the service.
DecoderEmit(r) ==
    /\ vpc[r] = "emit"
    /\ VGoto(r, "decode")
    /\ UNCHANGED <<state, flags, media, pc, apc, mishaps>>

DecoderSignal(r) ==
    /\ vpc[r] = "signal"
    /\ vCanFree' = TRUE
    /\ VGoto(r, "done")
    /\ UNCHANGED <<state, aCanFree, fmtCtxCanFree, media, pc, apc, mishaps>>

\* the steps the thread takes by itself
DecoderStep(r) ==
    \/ DecoderPauseTest(r) \/ DecoderStopTest(r) \/ DecoderPop(r) \/ DecoderFrame(r)
    \/ DecoderSyncAborted(r) \/ DecoderEmit(r) \/ DecoderSignal(r)

Decoder(r) ==
    \/ DecoderStep(r) \/ DecoderDrained(r)
    \/ DecoderSeekWhilePaused(r) \/ DecoderClockReached(r)

-----------------------------------------------------------------------------
(***************************************************************************)
(* SDL's audio thread: sdlAudioCallback(), called while the device runs.   *)
(***************************************************************************)
CallbackStart ==
    /\ apc = "idle"
    /\ device = "running"
    /\ apc' = "pause_test"
    /\ UNCHANGED <<state, flags, media, pc, vpc, mishaps>>

CallbackPauseTest ==
    /\ apc = "pause_test"
    /\ apc' = IF state = "Paused" THEN "idle" ELSE "stop_test"
    /\ UNCHANGED <<state, flags, media, pc, vpc, mishaps>>

CallbackStopTest ==
    /\ apc = "stop_test"
    /\ apc' = IF state = "Stopped" THEN "signal" ELSE "decode"
    /\ UNCHANGED <<state, flags, media, pc, vpc, mishaps>>

CallbackSignal ==
    /\ apc = "signal"
    /\ aCanFree' = TRUE
    /\ apc' = "idle"
    /\ Note("late_signal",
            \E t \in Threads : pc[t] \in {"release_audio", "pause_device", "close_device"})
    /\ UNCHANGED <<state, vCanFree, fmtCtxCanFree, media, pc, vpc>>

\* decodeAudio() and SDL_MixAudio(), then another turn if the buffer is not full.
\* decodeAudio reports the time to the controller, which asks for the duration.
CallbackDecode ==
    /\ apc = "decode"
    /\ apc' \in {"pause_test", "idle"}
    /\ UNCHANGED <<state, flags, media, pc, vpc, mishaps>>

Callback ==
    CallbackStart \/ CallbackPauseTest \/ CallbackStopTest \/ CallbackSignal \/ CallbackDecode

-----------------------------------------------------------------------------
Next ==
    \/ Ui
    \/ \E r \in Readers : Reader(r) \/ Decoder(r)
    \/ Callback

Spec == Init /\ [][Next]_vars

(***************************************************************************)
(* Threads that are scheduled keep running: the UI thread finishes a call  *)
(* it has begun (it need not begin one), readers and decoders go on, and   *)
(* SDL calls back periodically.  Two strong assumptions: a packet gives    *)
(* finitely many frames, and SDL's lock is free between two callbacks long *)
(* enough for SDL_PauseAudio to take it.                                   *)
(***************************************************************************)
UiCall == pc[Main] # "idle" /\ Ui

Fairness ==
    /\ WF_vars(UiCall)
    /\ WF_vars(Callback)
    /\ \A t \in Threads : SF_vars(PauseDevice(t))
    /\ \A r \in Readers :
        /\ WF_vars(Reader(r))
        /\ WF_vars(DecoderStep(r))
        /\ SF_vars(DecoderDrained(r))

FairSpec == Spec /\ Fairness

-----------------------------------------------------------------------------
(***************************************************************************)
(* Properties.                                                             *)
(***************************************************************************)
\* A failed probe leaks the demuxer context but is not a race.
Raced == mishaps \ {"probe_failed"} # {}

\* No thread is inside something that free() has released: the reader in the
\* demuxer, the decoder thread in its codec and frames and, with the time base of its
\* stream, in the demuxer (VideoPlayerVideo.cpp:92), the audio callback in its codec
\* (and, through aStream and getDuration, in the demuxer), the UI in getDuration.
NoUseAfterFree ==
    /\ \A r \in Readers : pc[r] \in UsesFmt => fmtCtx
    /\ \A r \in Readers : vpc[r] \in UsesVideo => videoRes
    /\ \A r \in Readers : vpc[r] = "pop" => fmtCtx
    /\ apc = "decode" => audioRes /\ fmtCtx
    /\ pc[Main] = "seek" => fmtCtx

\* The handshake of free() with the other threads (VideoPlayer.cpp:202-211) works
\* unless one of the races listed in Mishap has occurred.
TeardownSafe == Raced \/ NoUseAfterFree

\* At most one thread is inside free() (VideoPlayer.cpp:32-42 and 195-196): nothing
\* is released twice, unless one of the races has occurred.
SingleTeardown ==
    Raced \/ \A t, u \in Threads : pc[t] \in Teardown /\ pc[u] \in Teardown => t = u

AtRest ==
    /\ state = "Stopped"
    /\ pc[Main] = "idle"
    /\ \A r \in Readers : pc[r] \in Off

\* Between two sessions nothing of the last one is left behind: no resource, no
\* raised flag that the next free() would take for an answer, no running thread.
CleanBetweenSessions ==
    mishaps = {} /\ AtRest =>
        /\ ~fmtCtx /\ ~audioRes /\ ~videoRes /\ device = "closed"
        /\ ~aCanFree /\ ~vCanFree /\ ~fmtCtxCanFree
        /\ apc = "idle" /\ \A r \in Readers : vpc[r] \in Off

\* The flag a spin loop of free() waits for is up, or the thread that raises it has not
\* gone by the place where it does.
AudioAnswers ==
    hasAudio /\ ~aCanFree => device = "running" \/ \E r \in Readers : pc[r] = "unpause"
VideoAnswers ==
    hasVideo /\ ~vCanFree =>
        \E r \in Readers : vpc[r] \notin Off \/ pc[r] \in {"unpause", "spawn"}
ReaderAnswers ==
    ~fmtCtxCanFree => \E r \in Readers : pc[r] \in Running \ {"stop", "stopping"}

\* free() never waits for an answer that cannot come (VideoPlayer.cpp:203-211): no
\* thread has missed the stop, and no earlier free() has taken its flag down again,
\* unless one of the races has occurred.
StopIsAnswered ==
    Raced \/ \A t \in Threads :
        /\ pc[t] = "await_audio" => AudioAnswers /\ VideoAnswers /\ ReaderAnswers
        /\ pc[t] = "await_video" => VideoAnswers /\ ReaderAnswers
        /\ pc[t] = "await_fmt" => ReaderAnswers

\* A stop() that has begun returns and notifies: the thread that called it does not
\* stay in one of the spin loops of free() unless one of the races has occurred.
StopReturns ==
    \A t \in Threads :
        pc[t] \in Teardown ~> (pc[t] \notin Teardown \/ Raced)

(***************************************************************************)
(* What comments of the code say, without the exception for races.         *)
(***************************************************************************)
\* VideoPlayer.cpp:38 "notify the outside": every stop() that passes its test gets
\* to the notification that follows free().
StopNotifies == \A t \in Threads : pc[t] \in Teardown ~> pc[t] \notin Teardown

-----------------------------------------------------------------------------
(***************************************************************************)
(* The player as its user sees it.                                         *)
(***************************************************************************)
Opening == \E r \in Readers : pc[r] \in Starting
Closing == \E t \in Threads : pc[t] \in Teardown

Phase ==
    CASE Raced -> "broken"
      [] ~Raced /\ state = "Playing" -> "playing"
      [] ~Raced /\ state = "Paused" -> "paused"
      [] ~Raced /\ state = "Stopped" /\ Opening -> "opening"
      [] ~Raced /\ state = "Stopped" /\ ~Opening /\ Closing -> "closing"
      [] OTHER -> "off"

Held == audioRes \/ videoRes \/ device # "closed"

User == INSTANCE PlayerProtocol WITH phase <- Phase, held <- Held

\* The four threads together do what PlayerProtocol says (VideoPlayer.cpp:32-42 and
\* 202-240): sessions do not overlap, nothing is taken or given back outside opening and
\* closing, a stopped player holds nothing, and an opening and a closing end.
ImplementsProtocol == User!FairSpec

-----------------------------------------------------------------------------
(***************************************************************************)
(* The inductive invariant behind TeardownSafe, SingleTeardown and         *)
(* CleanBetweenSessions: why the handshake works while no race occurs.     *)
(***************************************************************************)
\* a reader whose decoder thread does not exist yet
Before == Starting \cup {"unpause", "spawn"}
\* a reader that may still touch the demuxer
Reading == Before \cup {"loop", "read", "eof"}
AfterAudio == Teardown \ {"await_audio"}
AfterVideo == {"await_fmt"} \cup Releasing
AfterClose == Releasing \ {"close"}
AfterResetFmt == AfterClose \ {"reset_fmt"}
AfterResetAudio == AfterResetFmt \ {"reset_audio"}
AfterReleaseAudio == AfterResetAudio \ {"release_audio"}
AfterDevice == {"release_video", "reset_video"}

Decoding(r) == vpc[r] \notin Off

Clean ==
    /\ fmtCtx => "probe_failed" \in mishaps /\ \A r \in Readers : ~Alive(r)
    /\ ~audioRes /\ ~videoRes /\ device = "closed"
    /\ ~aCanFree /\ ~vCanFree /\ ~fmtCtxCanFree
    /\ \A r \in Readers : ~Decoding(r) /\ pc[r] \notin Reading

\* Who can be where: one reader, one stopper, and no stopper beside a reader that
\* has not reached Playing.
ControlInv ==
    /\ \A r, s \in Readers : Alive(r) /\ Alive(s) => r = s
    /\ \A t, u \in Threads : pc[t] \in Teardown /\ pc[u] \in Teardown => t = u
    /\ \A t \in Threads : pc[t] \in Teardown => state = "Stopped"
    /\ \A r \in Readers : pc[r] \in Starting =>
          state = "Stopped" /\ pc[Main] \notin Teardown \cup {"stopping"}
    /\ \A t \in Threads : pc[t] \in Releasing => \A r \in Readers : pc[r] \notin Reading

\* fmtCtx is open while a reader may use it, and fmtCtxCanFree is down.
DemuxerInv ==
    /\ \A r \in Readers : pc[r] \in Reading => ~fmtCtxCanFree
    /\ \A r \in Readers : pc[r] \in Reading \ {"open"} => fmtCtx
    /\ state # "Stopped" => fmtCtx
    /\ \A t \in Threads : pc[t] \in AfterClose => ~fmtCtx
    /\ \A t \in Threads : pc[t] \in AfterResetFmt => ~fmtCtxCanFree
    /\ pc[Main] = "seek" => fmtCtx

\* aCanFree is up only while Stopped keeps the callback from decoding again.
AudioInv ==
    /\ device # "closed" => hasAudio
    /\ apc # "idle" => device = "running"
    /\ apc = "decode" => audioRes /\ fmtCtx /\ ~aCanFree
    /\ apc = "signal" => state = "Stopped"
    /\ aCanFree => state = "Stopped"
    /\ device # "closed" /\ (\A t \in Threads : pc[t] \notin AfterReleaseAudio) => audioRes
    /\ \A t \in Threads :
          /\ pc[t] \in AfterAudio => apc # "decode"
          /\ pc[t] \in AfterResetAudio => ~aCanFree
          /\ pc[t] \in AfterReleaseAudio => ~audioRes
          /\ pc[t] = "close_device" => device # "running"
          /\ pc[t] \in AfterDevice => device = "closed"
    /\ \A r \in Readers :
          /\ pc[r] \in Starting => device # "running" /\ ~aCanFree
          /\ pc[r] \in {"open", "probe", "init_audio"} => device = "closed"
          /\ pc[r] \in {"open", "probe"} => ~audioRes

\* vCanFree is up only when no decoder thread is left.
VideoInv ==
    /\ \A r \in Readers : Decoding(r) => hasVideo /\ videoRes /\ fmtCtx /\ ~vCanFree
    /\ \A r, s \in Readers : Decoding(r) /\ Decoding(s) => r = s
    /\ \A r \in Readers : pc[r] \in Before =>
          ~vCanFree /\ \A s \in Readers : ~Decoding(s)
    /\ \A r \in Readers : pc[r] \in {"open", "probe"} => ~videoRes
    /\ \A r \in Readers : pc[r] \in Before \ {"open", "probe", "init_audio", "init_video"} =>
          (hasVideo => videoRes)
    /\ \A t \in Threads :
          /\ pc[t] \in AfterVideo => \A s \in Readers : ~Decoding(s)
          /\ pc[t] = "await_fmt" /\ hasVideo => vCanFree
          /\ pc[t] = "reset_video" => ~videoRes

\* When nobody is starting or stopping, Stopped means that nothing is left.
RestInv ==
    /\ state = "Stopped"
    /\ \A t \in Threads : pc[t] \notin Teardown
    /\ \A r \in Readers : pc[r] \notin Starting
    => Clean

\* From Playing on, every flag that is down has a thread that will raise it, until
\* free() has waited for it.
AnswerInv ==
    /\ hasAudio => \A r \in Readers :
          pc[r] \in {"init_video", "test_playing", "write_playing", "unpause"} => device = "paused"
    /\ state # "Stopped" => AudioAnswers /\ VideoAnswers /\ ReaderAnswers
    /\ \A t \in Threads :
          /\ pc[t] = "await_audio" => AudioAnswers /\ VideoAnswers /\ ReaderAnswers
          /\ pc[t] = "await_video" => VideoAnswers /\ ReaderAnswers
          /\ pc[t] = "await_fmt" => ReaderAnswers

HandshakeInv == ControlInv /\ DemuxerInv /\ AudioInv /\ VideoInv /\ RestInv /\ AnswerInv

LifecycleInv == Raced \/ HandshakeInv

=============================================================================
