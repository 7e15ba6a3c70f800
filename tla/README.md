# TLA+ specifications of FaceWorkflow

FaceWorkflow is an iOS application about audio and video: a player built on FFmpeg and
SDL, and around it a set of smaller programs that record, convert, encode, decode and
show sound and pictures. This directory holds its specifications: TLA+ modules, their
TLC configurations, and TLAPS proofs. Paths below are relative to `src/FaceWorkflow/`;
`Lib/` (FFmpeg, SDL) and `Pods/` are third-party code and are not modelled except by
what the application relies on.

## 1. Inventory

### The player (`VideoPlayer/`)

| part | state | operations | threads |
|---|---|---|---|
| `VideoPlayer` | `state`, `fmtCtx`, three "can free" flags, codec and conversion contexts, two packet lists, two clocks, three seek marks, `filename`, volume | `play`, `pause`, `stop`, `setTime`, `setFilename`, `readFile`, `decodeVideo`, `sdlAudioCallback`, `free` | UI, reader, decoder, SDL's audio thread |
| `CondMutex` | an SDL mutex and condition variable | `lock`, `unlock`, `signal`, `wait` (never called) | all of them |
| `VideoService` | previous frame and its buffer | callbacks of the player, `generateImage`, `releasePreFrame` | decoder, reader, audio |
| `VideoPlayerVC`, `PlayerView` | labels, layer | buttons, slider, delegate methods | UI, and the player's threads through the delegate |

`play()` detaches a *reader* thread. The reader opens the file, initialises the
decoders and the audio device, sets `Playing`, starts SDL's callbacks and detaches a
*decoder* thread, then reads packets into two lists until the end of the file. SDL's
audio thread pops audio packets, decodes and mixes them and sets the audio clock; the
decoder thread pops video packets, decodes and converts them, waits until the audio
clock has reached the frame, and hands it to the service. `setTime()` leaves a request
that the reader carries out at the top of its loop. `stop()` sets `Stopped`, spins
until the three other threads have raised their flags and releases everything; it runs
on the UI thread or, at the end of the file, on the reader. The lists are protected by
mutexes; `state`, the flags, the clocks and the marks by nothing.

What is hard here: four threads, tests and assignments that are not atomic, a teardown
that must wait for every user of every resource, flags that survive a session, a seek
of eight separate steps in the middle of decoding, and three threads that wait for one
another (room in a list, a packet, a clock).

What makes it correct: nothing is used after `free()` released it; `free()` runs once
per session and ends; a stopped player is as good as new; a frame is given back once,
shown in order, and its pixels live while they are shown; packets are played in order,
none is lost, none of before a seek or before its target is played; the lists are
bounded; the session ends when the file does.

### The other programs

| part | what it does | hard behaviour |
|---|---|---|
| `MutexCond/` | consumers and producers over one list, one mutex, two condition variables | lost wakeups, spurious wakeups, destruction while in use |
| `PlayWav/WavPlayer.mm`, `RecordAudio/AudioViewController.mm` (`playPCM`) | SDL callback that consumes a buffer refilled or freed by another thread; one device for all | unsynchronised `len` / `data`, freeing before closing, `SDL_Quit` for everybody |
| `RecordWAV/`, `RecordVideo/`, `PcmToWav/` | capture to a file, WAV header rewritten at the end | stop flag reset by the next recording, one path, 32-bit sizes |
| `RecordAudio/AudioViewController.mm` (`record`) | capture into `pcmData`, which blocks on a global queue write and empty | barriers without effect, append between copy and empty |
| `Demux/`, `AACDecode/`, `AccEncode/`, `H264Decode/`, `H264Encode/` | file codecs: parser, send, receive, flush | end of input, refill, errors in the middle |
| `Utils/PermenantThread.m` | a thread kept alive by its run loop | stop twice, tasks after stop |
| `Utils/FFMpegs.mm`, `PictureEncoder/`, `H264Encode/VideoToolboxEncoder.m` | sequential conversions by FFmpeg or the system | none of their own |
| `YUVPlayer*/`, `ShowYUV/`, `ShowBMP/`, `PlayYUV/` | show frames | none: one thread |
| `CopyVideoPlayer/` | a partial copy of the player, unused | that of the player |
| `AppDelegate`, `ViewController`, categories | application shell | none |

`PROJECT.json` lists these components, the hazards with their lines, and which
property covers which hazard.

## 2. Modules

| module | models | size of the instance checked | proofs |
|---|---|---|---|
| `PlayerProtocol` | what `VideoPlayer` promises its user: the abstract specification | refined by the next | |
| `PlayerLifecycle` | start, pause, stop and teardown of `VideoPlayer` | 1 UI thread, 2 sessions | `PlayerLifecycleProofs`: any number of sessions |
| `SeekablePlayback` | what playing a file with seeks means to who watches: the abstract specification | refined by the next | |
| `PlaybackPipeline` | packets, clocks, seek and end of file within one session | files of 5 and 11 packets, up to 2 seeks | `PlaybackPipelineProofs`: any file, limit, codec delay, targets and number of seeks |
| `FrameHandoff` | a frame from `decodeVideo` through `VideoService` and the main queue to the layer | 3 frames, 2 decoder threads | `FrameHandoffProofs`: any number of both |
| `MutexCond` | `MutexCond.cpp` | 4 consumers, 4 producers, as in the code | `MutexCondProofs`: any number of threads |
| `PcmPlayback` | `WavPlayer` and `playPCM` on SDL's one device | 2 of 3 sessions, 2 chunks | `PcmPlaybackProofs`: any number of sessions, any file |
| `Capture` | `RecordWAV`, `RecordVideo`, `WavHeader` | 2 recordings of up to 4 bytes, a word of 4 | `CaptureProofs`: any number, any sizes |
| `PcmRecorder` | `record` of `AudioViewController` | 4 packets, 3 blocks | `PcmRecorderProofs`: any number of both |
| `PermenantThread` | `PermenantThread.m` | 2 callers, 2 tasks | `PermenantThreadProofs`: any number of both |

`MCPlayerLifecycle` and `MCPlaybackPipeline` hold the state constraints and the files
of the runs; the other modules are checked directly.

`PlayerLifecycle`, `PlaybackPipeline` and `FrameHandoff` are three views of the same
threads. `PlayerLifecycle` keeps every access to `state`, the flags and the resources,
and abstracts what a turn of a loop does with packets to a nondeterministic outcome.
`PlaybackPipeline` keeps every access to the lists, clocks and marks, for as long as
the state is `Playing`. `FrameHandoff` starts where `VideoEmit` ends, and takes from
`PlayerLifecycle` when a decoder thread starts and ends: that two of them can overlap
is there the race `unwatched_decoder` or `second_reader` and here the mishap
`overlap`.

**Named mishaps.** The code has races, so a plain statement such as "nothing is used
after it is freed" is false. The auxiliary variable `mishaps`, which no guard reads,
collects *named* races when they happen, and a property says what holds unless one of
those it lists has occurred. So the list is complete for the property: there is no
other way to break it, and a reader learns which repairs would make it hold outright.

### PlayerProtocol and PlayerLifecycle

A read and a write of a shared member are two steps, so `if (state == Stopped) return;
state = Stopped;` is `StopTest` then `StopWrite`. The program counters are `pc` (the
UI thread `Main` and each reader), `vpc` (the decoder thread each reader detaches) and
`apc` (SDL's audio thread). The actions follow the code:

| code | actions |
|---|---|
| `play`, `pause`, `setState` | `PlayBegin`, `PlayStart`, `PlayResume`, `PauseBegin`, `SetStateTest`, `SetStateWrite` |
| `getDuration` in `setTime` | `SeekBegin`, `SeekUse` |
| `stop`, `free`, `freeAudio`, `freeVideo` | `StopTest` ... `FreeVideoReset`, in the order of the statements |
| `readFile` | `Open`, `Probe`, `InitAudio`, `InitVideo`, `Unpause`, `SpawnDecoder`, `LoopTest`, `ReadFrame`, `ReaderFinished`, `ReaderTail`, `ReaderRelease` |
| `decodeVideo` | `DecoderPauseTest` ... `DecoderSignal` |
| `sdlAudioCallback` | `CallbackStart` ... `CallbackDecode` |

The error paths are those of the code: a failing `avformat_open_input` clears
`fmtCtx`, a failing `avformat_find_stream_info` leaves it open, a failing
`initAudioInfo` or `initVideoInfo` may leave what it allocated. `SDL_PauseAudio` and
`SDL_CloseAudio` wait for a running callback, as SDL's do. The mishaps are
`second_reader`, `second_stop`, `revived`, `late_release`, `late_signal`,
`unwatched_decoder` and `seek_in_close`.

`PlayerProtocol` has a phase (`off`, `opening`, `playing`, `paused`, `closing`,
`broken`) and whether media resources are held. They are taken only while a session
opens, given back only while it closes, and none is left between sessions; a `stop()`
has no effect on a session that is opening, which is what the code does
(`VideoPlayer.cpp:33`: the state is still `Stopped`). `PlayerLifecycle` implements it
under the mapping `Phase` (the value of `state`, where `Stopped` is told apart by
whether a reader is opening or a thread is in `free()`, and `broken` once a mishap has
occurred) and `Held` (some codec, conversion context or the device).

### PlaybackPipeline

`File` is a sequence of packets with a stream and a time. The reader's loop is
`LoopTop`, then either a seek (`Seek` or `SeekFails`, `MarkVideo`, `MarkAudio`,
`Unmark`, `ResetAudioClock`, `ResetVideoClock`, `ClearAudio`, `ClearVideo`, one action
per statement) or `ReadSizes`, and then `ReadPacket`, `ReadEof` or `ReadFails`. The
audio side is `AudioPop`, `AudioClock`, `AudioTest`, `AudioUnseek`, `AudioPlay`; the
video side `VideoPop`, `VideoClock`, `VideoDecode`, `VideoTest`, `VideoUnseek`,
`VideoSync`, `VideoEmit`. `Delay` is the number of packets the video codec holds back.
`av_seek_frame` with `AVSEEK_FLAG_BACKWARD` may go to any position that misses nothing
from the target on. The auxiliary `hist` and the field `e` of a packet tell packets
read before and after a seek apart; no guard reads them.

`SeekablePlayback` has no threads, lists, clocks or codec: a position the last seek led
to, a target for each stream, the set of packets presented since, and whether the file
is over. A packet may be presented if it lies after all of its stream that were, and if
between them only packets before the target are left out; the file may end when no more
is missing than the decoders have in hand. A seek goes to a position that misses nothing
from the target on, and sets the targets of the two streams one at a time, as the code
does (`VideoPlayer.cpp:159-160`). `PlaybackPipeline` implements it under the mapping
`Promise`: `hist.start`, `hist.played`, the targets recorded in `hist`, and `~Playing`.
Packets read before a seek and played after it are not in `hist.played`, so the promise
is about what was read since; that a packet before the target is left out is
`SeekHonoured`, which has an exception the promise could not state.

### FrameHandoff

The decoder thread copies a frame and makes an image of the copy (`Render`);
`VideoService` then gives the previous one back and keeps the new one, a pointer at a
time (`DataTest`, `DeleteData`, `ClearData`, `ImageTest`, `ReleaseImage`,
`ClearImage`, `SetImage`, `SetData`); the controller posts the image to the main queue
(`Post`). The main thread runs the blocks (`ShowFrame`), commits the layer (`Commit`),
and is inside `stop()` between `StopBegin` and `StopEnd`, where it does neither. A
block and a layer retain the image, not the copy its pixels are in. Mishaps:
`overlap`, two decoder threads; `behind`, a frame is decoded before the previous one
has been shown and committed, which nothing in the code prevents.

### MutexCond

The list is its length. A thread is waiting for the mutex (`acquire`), blocked on its
condition variable, or inside (`work`, `signal`, `wait`). A woken thread goes to the
top of its loop, because the code tests nothing after `SDL_CondWait`.

### PcmPlayback

A session of `WavPlayer` is `Begin`, `LoadWav`, `OpenAudio`, `Unpause`, the loop
`LoopTest` and `Look`, `FreeWav`, `CloseDevice` (twice: `SDL_CloseAudio` and
`SDL_Quit`); one of `playPCM` has no WAV data and refills its buffer with `Read`
(which sets the length) and `SetData` (which sets the position). The callback is
`Pull`, `Mix`, `AdvanceData`, `AdvanceLen`, one per assignment to the shared
`AudioBuffer`; the buttons are `PlayWav`, `StopWav`, `PlayPcm`, `ToggleRecord`. Data
is counted in pulls. There is one device; opening it fails while it is open, and
closing it waits for the callback, whoever's it is. Mishaps: `stop_forgotten`, the
flag is reset behind a stop; `pulled_early`, a callback between `Read` and `SetData`.
The auxiliary `robbed` holds the sessions whose device another one has closed, which
`CloseDevice` does in three ways: the `SDL_Quit` after a failure (`WavPlayer.mm:78, 90`,
`AudioViewController.mm:407`), the `SDL_Quit` of a session that has ended, when another
has opened the device since its `SDL_CloseAudio` (`WavPlayer.mm:109-110`,
`AudioViewController.mm:430-431`), and the `SDL_CloseAudio` of a session that has lost
its own device before. It is kept per session, so that the loss of one excuses no other.

### PermenantThread

The loop of the thread is `SelfTest`, `FlagTest` (the two halves of `while (weakSelf
&& !weakSelf.isStopped)`) and a turn of the run loop, which performs a task or a stop
(`PerformTask`, `PerformStop`). A call tests `innerThread` (`ExcuteTask`, `Stop`) and
hands its request over later (`HandTask`, `HandStop`). `Release` drops the callers'
reference; the last reference may also go on the thread itself (`Drop`), where
`dealloc` performs `__stop` at once. Mishaps: `late_task` and `late_stop`, handed over
when a stop is on its way or the thread is over; `gone`, the thread sees the object
gone before it is stopped; `leaked`, the object goes with the reference of the
condition, after the last look at the flag.

### Capture

`Record` and `StopRecord` are the two calls; a block goes through `OpenDevice`,
`CreateFile`, `OpenFile`, `WriteHeader`, the loop `Test`, `Read`, `Write`, and
`WriteDataSize`, `WriteRiffSize`, `Close`. The variable `wav` says which of the two
programs it is; `RecordVideo` has no header and leaves its loop on an error. Both use
one path: `createFileAtPath` puts a new file there and a handle stays with the file it
was opened on. `WavHeader header;` leaves `dataChunkSize` as it is, so it begins with
`garbage`. Sizes are taken modulo `Word`, 2^32 in the code. Mishaps: `stop_forgotten`,
`overlap`.

### PcmRecorder

The reader is `Test`, `Read` or `ReadNothing`, `AppendPacket`, and at the end
`OpenRest`, `WriteRest`, `Finish`; a block is `Copy`, `LookForFile`, `CreateFile` or
`ExtendFile`, `Empty`. Mishaps: `append_in_flush`, a packet is appended between a
block's copy and its emptying; `two_flushes`, a block copies what another has in hand;
`end_in_flush`, the same with the end of the recording; `no_file`, the rest is written
to a file that does not exist yet.

## 3. Runs

| run | shows |
|---|---|
| `lifecycle` | The handshake of `free()`: `TeardownSafe`, `SingleTeardown`, `StopIsAnswered` (a spin loop never waits for a flag nobody will raise), `CleanBetweenSessions`, `StopReturns`, and that it implements `PlayerProtocol` with its fairness, in two sessions. Behaviours end at a named race (`UntilRaced`), where the properties hold by their form. |
| `stop_hang` | *Violation.* Two concurrent `stop()`: one waits for ever for a flag the other has reset. |
| `pipeline_plays` | Without seeks: bounded lists, and the session ends by itself. |
| `pipeline_seeks` | Two seeks at any point: order and completeness of the lists, no packet of before the seek left in a list, nothing early played unless an old packet stole the mark, nothing from the target on missed, no standstill of the three threads (`NoStandstill`), and that the session implements `SeekablePlayback` (`PlaysTheFile`). |
| `pipeline_seek_drop` | *Violation.* A frame of before the seek removes the mark, and early frames are shown. |
| `pipeline_seek_freeze` | *Violation.* A packet popped before a seek sets the video clock after its reset; the decoder waits for audio that is never read. |
| `frame_handoff` | Every copy and image is given back once, what is committed is live while the main thread keeps up, what a player at rest shows is live in any case, frames are shown in order without leaving one out, and all of them are. |
| `mutex_cond` | No lost wakeup, a bounded list, and emptying and refilling for ever. |
| `pcm_playback` | A session that is not robbed has the device until it closes it, and it runs (`DeviceIsOwn`); no callback in freed WAV data but after a stop, none in a block that has returned; a session nobody stops plays the whole file in order; a stop takes, unless its flag is reset; sessions end, even robbed ones that are stopped. |
| `permanent_thread` | Nothing is left to a thread that has ended or sleeps for ever (`NothingStranded`), a task is performed, a stop returns and the thread ends, unless one of the four mishaps has occurred. |
| `capture` | A recording that is over is whole and its header is right, unless recordings overlap or the size wraps; it leaves its loop at the flag exactly when it was stopped (`EndsWhenAsked`), and a stop ends it, unless it is forgotten. |
| `pcm_recorder` | Which races write a packet twice or lose it, and that nothing else does. |

The violations are disagreements between what a comment says and what the code does;
`PROJECT.json` quotes both.

Two more weaknesses of the player are visible in the models and in no violation. A
callback between `freeAudio`'s reset of `aCanFree` and `SDL_CloseAudio` raises the
flag for the next session, whose `free()` then does not wait (`late_signal`). And in a
file whose video outlasts its audio the decoder thread waits for a clock that stands
still: `EndsByItself` is stated for a file where it does not.

**Bounds.** Two sessions are the least in which a flag left over from one can hurt the
next. `pipeline_plays` has more packets in each stream than a list takes (`MaxPkt` = 2
for 1000 in the code), so the limit is reached, and a packet of a third stream.
`pipeline_seeks` has two seeks with two targets, which is what it takes for a request to
arrive in the middle of a seek and tear its marks; the position a seek goes to is free.
Its file of five packets has the two streams close enough together for `NoStandstill` to
say something of each frame, and as much video in a row as the list and the codec hold.
Three frames are the least with a previous frame whose predecessor has been given back,
and two decoder threads carry a frame over from one session to the next. `MutexCond` is
checked with the numbers of the code and one spurious wakeup. `PcmPlayback` has two
sessions out of two of `WavPlayer` and one of `playPCM`, so each pair that can share the
device is tried; two chunks tell order and repetition. Two sessions show the first two
ways to be robbed, the third needs one more and is covered by the proof. `Capture` has a
word of 4, so that the sum of a recording and the size of the rest both wrap, and one
does while the other does not. `PcmRecorder` writes after each packet (`BufferSize` 1),
with enough packets for two blocks to meet while a third is dispatched.
`PermenantThread` has two callers, so that two stops, or a task and a stop, cross.
Sessions (`Readers`, `MaxSessions`), seeks (`MaxSeeks`), spurious wakeups
(`MaxSpurious`), `MaxFrames`, `MaxBytes`, `MaxPackets` and `Flushes` are bounded in
guards. The safety theorems below hold for every value of all of these.

**Deadlock.** It is checked in `lifecycle` and `mutex_cond`. The other systems end, or
reach a bound, so their runs do not check it, and in `stop_hang` the system does stop.

**Fairness.** Threads that can run do run: weak fairness of each thread, block or
callback once it has begun, and of the UI once it is inside a call (it need not begin
one; no fairness for buttons, seeks, starts or stops). Strong fairness only where the
code or its libraries justify more: SDL's lock is free long enough between callbacks
for `SDL_PauseAudio` to take it; SDL tells its thread to end and joins it when a
device is closed, so `CloseDevice` of `PcmPlayback` is not starved by the callback; a
packet gives finitely many frames; and a read that fails does not fail for ever
(`ReadPacket \/ ReadEof`). `Capture` needs no fairness of successful reads: even a
device that only gives errors is stopped. `PcmRecorder` has no liveness property.
`stop_hang` and `pipeline_seek_freeze` are violations under these assumptions, so they
are not a matter of scheduling.

## 4. Proofs

Except for the action properties `ShowsInOrder`, `StopTakes`, `EndsWhenAsked` and the
two refinements, the theorems are of the form `Spec => []P`; all are for every value of
the constants allowed by the named assumptions. Each of the safety properties of the
passing runs, invariant or action property, is proved, in modules of their own; so is
type correctness of every module, which three of the runs check too.

`PlayerLifecycleProofs` (assumption: `Main` is not a reader). `TypeCorrect` is a case
split over all actions. The safety theorems rest on `LifecycleInv`: either a named race
has occurred (and stays recorded), or the handshake invariant holds. It has six parts:
`ControlInv` (one reader alive, one thread in `free()`, and `Stopped` while it is
there), `DemuxerInv`, `AudioInv` and `VideoInv` (while a flag is up its thread has left
the resource, and each point of `free()` knows what is gone already), `RestInv` (a
stopped player at rest is clean, which is what the next session starts from), and
`AnswerInv` (from `Playing` on, each flag that is down has a thread on its way to raise
it, until `free()` has waited for it). The properties alone are not inductive: that the
decoder has left its codec when `free()` releases it follows only from what `vCanFree`
means at every earlier point. The step lemma is split by thread. From it:
`TeardownIsSafe`, `TeardownIsSingle`, `StopGetsItsAnswers`, `StoppedIsClean`, and
`ImplementsProtocolSafely`: in a state of the invariant every step of the four threads
maps, under `Phase` and `Held`, to a step of `PlayerProtocol` or a stutter. Its fairness
is left to TLC. `StopGetsItsAnswers` is the safety part of `StopReturns`: what remains
for fairness is only that the thread that owes the flag is scheduled. The audio flag is
answered because the device runs or is about to, the decoder's because the thread is
there or is about to be detached, the reader's because it is in its loop or behind it.

`MutexCondProofs` (assumptions: finite, disjoint, non-empty sets of threads; a
positive batch). `NeverAllBlocked` needs `WakeInv`: a thread that has signalled and is
about to wait leaves one of the other side awake, since that one cannot run before the
mutex is released. `BoundedList` needs `BoundInv`, which counts what awake producers
can still push as pushed already.

`PlaybackPipelineProofs` (assumptions: the times of the file do not decrease, the
limit of the lists is positive, targets are not negative). From `TypeOK` and `SeekInv`
follow `BoundedLists`, `NoOldPackets` and `SeekIsHonoured`. `SeekInv` has five parts:

- `CountInv`: no more seeks are performed than requested, so the count in a packet is
  bounded;
- `BoundInv`: between `ReadSizes` and `ReadPacket` the lists are shorter than the
  limit (the decoders only take from them);
- `FreshInv`: what a list holds outside a seek is of the present position;
- `AudioInv` and `VideoInv`: from `av_seek_frame` to the clear of a list everything in
  it and in its decoder's hand is old (`AllOld`); what is new is in file order
  (`InOrder`); and once a new packet has removed the mark, everything new in the list,
  in hand and ahead in the file is from the target on (`AllLate`). The last part is
  why a mark that is gone does no harm: `SeekHonoured` says it only of the packet in
  hand and is not inductive by itself.

Lemmas say what popping, dropping, clearing, appending and seeking do to the three
predicates; the reader's steps and the decoders' steps are then one case each. For
video the packet in hand is the one last given to the codec (`DecodeSends`), whose
time is in the clock.

The second part of the module adds `WholeInv` (the theorem `NothingGoesAstray`) and from
it `NoPacketIsLost` and `SessionPlaysAll`. `Gapless` says that what was read after a
waiting packet waits too, `Covers` that what was read since the seek and is due is
played, waits, or is in hand or in the codec. That a frame dropped after a seek is
really early is the hard case (`DroppedIsEarly`): the clock tested is that of the packet
last sent, so the invariant must say that the codec keeps packets in order, `CodecInv`.
`EndInv` says that the sizes read before `av_read_frame` still bound the lists at the
end of the file.

On both rests `FlowInv` (`PlaybackFlows`). Its `PlayedInv` says that what is listed, in
hand or in the codec has not been played and that the codec holds at most `Delay`; its
`ClockInv` that the audio clock has reached every audio packet read since the seek that
is not still to come, and that an old packet can set it back only while all of them are.
From it `NobodyBlocks`: if the decoder thread waits for the clock, the audio packet that
will satisfy it is not behind the clock, so it is listed, in hand or ahead in the file;
in the last case the video list holds only packets between the frame and it, fewer than
the limit, and the audio list is empty or the callback has work, so the reader has room.
`AudioNear` is the assumption on the file, and a frame of before the seek is excluded,
which is the freeze of `pipeline_seek_freeze`.

`ImplementsPlayback` is the refinement of `SeekablePlayback`. `Seek`, the two marks, the
two steps that play, and the end of the file map to a step; all others leave the view
alone. That a step that plays may leave out only what is before the target is `Covers`,
that it is later than all played is `Gapless` and `PlayedInv`, and what the decoders
have in hand at the end is `CodecInv` and `EndInv`.

`FrameHandoffProofs` (assumption: the bound is a number). `FramesGivenBackOnce` needs
what each statement of the callback leaves behind (`Trace`): how often every copy and
image has been given back is a function of the newest frame and the statement. On it
rest `DisplayInv` (the queue is the run of frames after the one shown last, up to the
last posted) for `RestsLive` and `FramesInOrder`, and `CommitInv` for
`PixelsAreLive`.

`PcmPlaybackProofs` (assumptions: the two kinds of session are disjoint; a file has a
chunk). The invariant counts for each session what the callback has mixed against what
is left in its buffer, at every point of the callback (`MixedInv`, `BufferInv`), who has
the device (`ControlInv`), and whom a raised flag was meant for (`StopInv`).
`DeviceIsOwn`, of `DeviceHasOneSession`, is inductive with `ControlInv` as it stands:
who is robbed is recorded per session, and a session at its `SDL_CloseAudio` has its
device still or has been robbed, so the three ways to rob another are all there are.

`CaptureProofs` (assumptions: packets are not empty, the counted part of the header is
not longer than it). `FileInv`: unless recordings overlap, each writes to its own file,
which is empty, then whole, and at the end has its sizes. `StopInv`, for
`RecordingsEndWhenAsked`: a flag that is up was meant for every recording that runs, and
the flag of a stopped one stays up, unless a new recording has reset it.

`PcmRecorderProofs` (assumption: a positive buffer size). `OrderInv`: unless two
writers share data, what is in the file comes before what is about to be written;
`CompleteInv`: unless any race occurs, file and buffer together are the recording.

`PermenantThreadProofs` (assumption: a caller is not a task). `ThreadInv` has three
parts. `QueueInv`: a caller waits exactly while its one stop is in the queue, and every
task submitted is performed or queued. `LifeInv`: who may still be in a call when the
object goes, and what ends or wakes the thread. `OrderInv`: as long as no race is noted
no task stands behind a stop, and one caller at most waits. From them `StrandsNobody`.
It is the safety part of the module's liveness: what fairness adds is only that the
thread performs what is in its queue.

Only model-checked, because TLAPS does not prove liveness under fairness: `StopReturns`
(of both modules), the fairness of `ImplementsProtocol`, `EndsByItself`,
`EveryFrameShown`, `ListAlternates`, `SessionsEnd`, `StopEnds`, `TasksPerformed` and
`ThreadEnds`. What each needs besides scheduling is proved as a safety theorem:
`StopIsAnswered` for the spin loops of `free()`, `NoStandstill` and `EverythingPlayed`
for the end of a session, `ShowsInOrder` for the frames, `SomeoneAwake` for the list,
`DeviceIsOwn` for the sessions on the device, `EndsWhenAsked` for a stopped recording,
and `NothingStranded` for the thread.

## 5. Not modelled

- `Lib/` and `Pods/`: copies of FFmpeg, SDL and other libraries, nearly all of the
  repository's lines. They are represented by what the application relies on.
- Memory order. Each access is atomic and is performed; a build that hoists the read
  out of a loop such as `while (!fmtCtxCanFree);` spins for ever. Likewise `pcmData`
  is an `NSMutableData` that two threads use: the model interleaves whole operations
  on it.
- A file without an audio stream: `readFile` dereferences a null `aStream`.
- `setFilename` while a reader runs, volume, mute, the PCM buffer of the player's
  callback.
- In `PlaybackPipeline` packets without a time stamp, decoding errors, several frames
  from one packet, and reordering: the codec is a queue with a fixed delay, and one time
  stands for the `dts` that sets the video clock and the `pts` that sets the audio clock
  (`VideoPlayerVideo.cpp:92`, `VideoPlayerAudio.cpp:179`). `AudioTest` and `VideoTest`
  look at mark and clock in one step; a whole seek between two of these accesses is
  left out.
- In `FrameHandoff` the data provider of an image, which is not released; in
  `PcmPlayback` the state of the play button apart from being selected; `playPCM` has
  no caller in the application and is modelled as if a button called it. `StopEnd`
  of `FrameHandoff` waits for every decoder thread where the code waits for `vCanFree`,
  which differs only after `overlap`; the flag itself is in `PlayerLifecycle`.
- In `PcmRecorder` the seek to the end and the write are one step, and what an earlier
  recording has left in the file is left out. In `Capture` creating a file is taken to
  replace the old one at once, and opening it may always fail; two handles on one file
  append, which matters only after `overlap`; and `RecordVideo`, which writes the size of
  an image whatever the size of the packet (`RecordVideo.mm:96`), writes some number of
  bytes. `PcmRecorder` has one recording: that a second one resets
  `isInterruptionRequested` (`AudioViewController.mm:159`) is left out.
- The destruction of `MutexCond` while its eight threads run.
- `Demux/`, `AACDecode/`, `AccEncode/`, `H264Decode/`, `H264Encode/`,
  `Utils/FFMpegs.mm`: sequential loops around FFmpeg, in which each branch forwards a
  return value. A model would check assumptions about FFmpeg's contract and none of
  the code's own decisions; reading is enough to see that `Demux.mm:154` hands
  `av_freep` the picture instead of the address of its pointer, and that
  `H264Encoder.mm:106` encodes one picture of the file where it needs a loop.
- The components marked `not_modelled` in `PROJECT.json`, with the reason there.

## 6. What is left

- A composition of `PlayerLifecycle` and `PlaybackPipeline` in which a stop comes in
  the middle of a seek; today a session of the second ends only by itself.
- Several frames from one packet and packets without a time stamp in
  `PlaybackPipeline`.
- The destructor of `MutexCond` and the screen of `AudioViewController` that owns it.
