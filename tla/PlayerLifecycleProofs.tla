------------------------ MODULE PlayerLifecycleProofs ------------------------
(***************************************************************************)
(* For any number of sessions: the teardown handshake of VideoPlayer is    *)
(* safe, and nobody waits in it for an answer that cannot come, as long as *)
(* none of the races listed in Mishap has occurred.                        *)
(*                                                                         *)
(* The argument is the invariant LifecycleInv of PlayerLifecycle.  It has  *)
(* six parts, which support each other: who can be where (ControlInv);     *)
(* what each of the three flags means while it is up (DemuxerInv,          *)
(* AudioInv, VideoInv); who will raise it while it is down (AnswerInv);    *)
(* and that a stopped player at rest holds nothing (RestInv), which is     *)
(* what lets the next session start.  There is one lemma per thread, with  *)
(* one step per part.                                                      *)
(***************************************************************************)
EXTENDS PlayerLifecycle, TLAPS

\* The program points and the small operators the actions are written with.
USE MainAssumption
USE DEF Threads, State, Mishap, Note, Goto, VGoto, flags, media, Raced,
        Off, Starting, Running, Teardown, Releasing, UiPoints, UsesVideo,
        Alive, Decoding, Before, Reading, AfterAudio, AfterVideo, AfterClose,
        AfterResetFmt, AfterResetAudio, AfterReleaseAudio, AfterDevice,
        AfterStop, AfterSetState, TestPoint, WritePoint

(***************************************************************************)
(* Types.                                                                  *)
(***************************************************************************)
LEMMA InitType == Init => TypeOK
BY DEF Init, TypeOK, ValuesOK, PointsOK

LEMMA StepType == TypeOK /\ [Next]_vars => TypeOK'
<1> SUFFICES ASSUME TypeOK, [Next]_vars
             PROVE  TypeOK'
    OBVIOUS
<1> USE DEF TypeOK, ValuesOK, PointsOK
<1>1. ASSUME NEW t \in Threads, Stop(t)
      PROVE  TypeOK'
    <2>1. CASE StopTest(t)
        BY <2>1 DEF StopTest
    <2>2. CASE StopWrite(t)
        BY <2>2 DEF StopWrite
    <2>3. CASE AwaitAudio(t)
        BY <2>3 DEF AwaitAudio
    <2>4. CASE AwaitVideo(t)
        BY <2>4 DEF AwaitVideo
    <2>5. CASE AwaitFmt(t)
        BY <2>5 DEF AwaitFmt
    <2>6. CASE CloseInput(t)
        <3>1. ValuesOK'
            BY <2>6, Zenon DEF CloseInput
        <3>2. PointsOK'
            BY <2>6 DEF CloseInput
        <3> QED
            BY <3>1, <3>2
    <2>7. CASE ResetFmt(t)
        <3>1. ValuesOK'
            BY <2>7, Zenon DEF ResetFmt
        <3>2. PointsOK'
            BY <2>7 DEF ResetFmt
        <3> QED
            BY <3>1, <3>2
    <2>8. CASE FreeAudioReset(t)
        <3>1. ValuesOK'
            BY <2>8, Zenon DEF FreeAudioReset
        <3>2. PointsOK'
            BY <2>8 DEF FreeAudioReset
        <3> QED
            BY <3>1, <3>2
    <2>9. CASE FreeAudioRelease(t)
        <3>1. ValuesOK'
            BY <2>9, Zenon DEF FreeAudioRelease
        <3>2. PointsOK'
            BY <2>9 DEF FreeAudioRelease
        <3> QED
            BY <3>1, <3>2
    <2>10. CASE PauseDevice(t)
        BY <2>10 DEF PauseDevice
    <2>11. CASE CloseDevice(t)
        BY <2>11 DEF CloseDevice
    <2>12. CASE FreeVideoRelease(t)
        <3>1. ValuesOK'
            BY <2>12, Zenon DEF FreeVideoRelease
        <3>2. PointsOK'
            BY <2>12 DEF FreeVideoRelease
        <3> QED
            BY <3>1, <3>2
    <2>13. CASE FreeVideoReset(t)
        <3>1. ValuesOK'
            BY <2>13, Zenon DEF FreeVideoReset
        <3>2. PointsOK'
            BY <2>13 DEF FreeVideoReset
        <3> QED
            BY <3>1, <3>2
    <2> QED
        BY <1>1, <2>1, <2>2, <2>3, <2>4, <2>5, <2>6, <2>7, <2>8, <2>9, <2>10,
           <2>11, <2>12, <2>13 DEF Stop
<1>2. ASSUME NEW t \in Threads, NEW s \in {"Playing", "Paused"}, t = Main \/ s = "Playing",
             SetStateTest(t, s) \/ SetStateWrite(t, s)
      PROVE  TypeOK'
    <2>1. CASE SetStateTest(t, s)
        BY <1>2, <2>1 DEF SetStateTest
    <2>2. CASE SetStateWrite(t, s)
        BY <1>2, <2>2 DEF SetStateWrite
    <2> QED
        BY <1>2, <2>1, <2>2
<1>3. ASSUME Ui
      PROVE  TypeOK'
    <2>1. CASE PlayBegin
        BY <2>1 DEF PlayBegin
    <2>2. CASE PlayResume
        BY <2>2 DEF PlayResume
    <2>3. CASE PauseBegin
        BY <2>3 DEF PauseBegin
    <2>4. CASE SeekBegin
        BY <2>4 DEF SeekBegin
    <2>5. CASE SeekUse
        BY <2>5 DEF SeekUse
    <2>6. CASE \E r \in Readers : PlayStart(r)
        BY <2>6 DEF PlayStart
    <2> QED
        BY <1>3, <1>1, <1>2, <2>1, <2>2, <2>3, <2>4, <2>5, <2>6 DEF Ui
<1>4. ASSUME NEW r \in Readers, Reader(r)
      PROVE  TypeOK'
    <2>1. CASE \E ok \in BOOLEAN : Open(r, ok)
        BY <2>1 DEF Open
    <2>2. CASE \E ok \in BOOLEAN : Probe(r, ok)
        BY <2>2 DEF Probe
    <2>3. CASE \E ok \in BOOLEAN : InitAudio(r, ok)
        BY <2>3 DEF InitAudio
    <2>4. CASE \E ok \in BOOLEAN : InitVideo(r, ok)
        BY <2>4 DEF InitVideo
    <2>5. CASE Unpause(r)
        BY <2>5 DEF Unpause
    <2>6. CASE SpawnDecoder(r)
        BY <2>6 DEF SpawnDecoder
    <2>7. CASE LoopTest(r)
        BY <2>7 DEF LoopTest
    <2>8. CASE ReadFrame(r)
        BY <2>8 DEF ReadFrame
    <2>9. CASE ReaderFinished(r)
        BY <2>9 DEF ReaderFinished
    <2>10. CASE ReaderTail(r)
        BY <2>10 DEF ReaderTail
    <2>11. CASE ReaderRelease(r)
        BY <2>11 DEF ReaderRelease
    <2> QED
        BY <1>4, <1>1, <1>2, <2>1, <2>2, <2>3, <2>4, <2>5, <2>6, <2>7, <2>8,
           <2>9, <2>10, <2>11 DEF Reader
<1>5. ASSUME NEW r \in Readers, Decoder(r)
      PROVE  TypeOK'
    <2>1. CASE DecoderPauseTest(r)
        BY <2>1 DEF DecoderPauseTest
    <2>2. CASE DecoderSeekWhilePaused(r)
        BY <2>2 DEF DecoderSeekWhilePaused
    <2>3. CASE DecoderStopTest(r)
        BY <2>3 DEF DecoderStopTest
    <2>4. CASE DecoderPop(r)
        BY <2>4 DEF DecoderPop
    <2>5. CASE DecoderFrame(r)
        BY <2>5 DEF DecoderFrame
    <2>6. CASE DecoderDrained(r)
        BY <2>6 DEF DecoderDrained
    <2>7. CASE DecoderClockReached(r)
        BY <2>7 DEF DecoderClockReached
    <2>8. CASE DecoderSyncAborted(r)
        BY <2>8 DEF DecoderSyncAborted
    <2>9. CASE DecoderEmit(r)
        BY <2>9 DEF DecoderEmit
    <2>10. CASE DecoderSignal(r)
        BY <2>10 DEF DecoderSignal
    <2> QED
        BY <1>5, <2>1, <2>2, <2>3, <2>4, <2>5, <2>6, <2>7, <2>8, <2>9, <2>10 DEF Decoder, DecoderStep
<1>6. ASSUME Callback
      PROVE  TypeOK'
    <2>1. CASE CallbackStart
        BY <2>1 DEF CallbackStart
    <2>2. CASE CallbackPauseTest
        BY <2>2 DEF CallbackPauseTest
    <2>3. CASE CallbackStopTest
        BY <2>3 DEF CallbackStopTest
    <2>4. CASE CallbackSignal
        BY <2>4 DEF CallbackSignal
    <2>5. CASE CallbackDecode
        BY <2>5 DEF CallbackDecode
    <2> QED
        BY <1>6, <2>1, <2>2, <2>3, <2>4, <2>5 DEF Callback
<1>7. CASE UNCHANGED vars
    BY <1>7 DEF vars
<1> QED
    BY <1>3, <1>4, <1>5, <1>6, <1>7 DEF Next

\* Every variable of PlayerLifecycle keeps its type, for any set of readers.
THEOREM TypeCorrect == Spec => []TypeOK
BY InitType, StepType, PTL DEF Spec

(***************************************************************************)
(* The handshake.  Each lemma is about steps that are not a race, taken    *)
(* when no race has occurred.                                              *)
(***************************************************************************)
USE DEF TypeOK, ValuesOK, PointsOK, HandshakeInv, ControlInv, DemuxerInv, AudioInv, VideoInv, RestInv,
        Clean

\* stop() up to the end of the three waits
LEMMA StopWaits ==
    ASSUME TypeOK, HandshakeInv, ~Raced, ~Raced', NEW t \in Threads,
           StopTest(t) \/ StopWrite(t) \/ AwaitAudio(t) \/ AwaitVideo(t) \/ AwaitFmt(t)
    PROVE  HandshakeInv'
<1> USE DEF StopTest, StopWrite, AwaitAudio, AwaitVideo, AwaitFmt
<1>1. ControlInv'
    BY SMTT(60)
<1>2. DemuxerInv'
    BY SMTT(60)
<1>3. AudioInv'
    BY SMTT(60)
<1>4. VideoInv'
    BY SMTT(60)
<1>5. RestInv'
    BY SMTT(60)
<1>6. AnswerInv'
    BY SMTT(60) DEF AnswerInv, AudioAnswers, VideoAnswers, ReaderAnswers
<1> QED
    BY <1>1, <1>2, <1>3, <1>4, <1>5, <1>6 DEF HandshakeInv

\* free(): the demuxer and the audio resources
LEMMA StopFreesAudio ==
    ASSUME TypeOK, HandshakeInv, ~Raced, ~Raced', NEW t \in Threads,
           CloseInput(t) \/ ResetFmt(t) \/ FreeAudioReset(t) \/ FreeAudioRelease(t)
    PROVE  HandshakeInv'
<1> USE DEF CloseInput, ResetFmt, FreeAudioReset, FreeAudioRelease
<1>1. ControlInv'
    BY SMTT(60)
<1>2. DemuxerInv'
    BY SMTT(60)
<1>3. AudioInv'
    BY SMTT(60)
<1>4. VideoInv'
    BY SMTT(60)
<1>5. RestInv'
    BY SMTT(60)
<1>6. AnswerInv'
    BY SMTT(60) DEF AnswerInv, AudioAnswers, VideoAnswers, ReaderAnswers
<1> QED
    BY <1>1, <1>2, <1>3, <1>4, <1>5, <1>6 DEF HandshakeInv

\* free(): the device and the video resources
LEMMA StopFreesVideo ==
    ASSUME TypeOK, HandshakeInv, ~Raced, ~Raced', NEW t \in Threads,
           PauseDevice(t) \/ CloseDevice(t) \/ FreeVideoRelease(t) \/ FreeVideoReset(t)
    PROVE  HandshakeInv'
<1> USE DEF PauseDevice, CloseDevice, FreeVideoRelease, FreeVideoReset
<1>1. ControlInv'
    BY SMTT(60)
<1>2. DemuxerInv'
    BY SMTT(60)
<1>3. AudioInv'
    BY SMTT(60)
<1>4. VideoInv'
    BY SMTT(60)
<1>5. RestInv'
    BY SMTT(60)
<1>6. AnswerInv'
    BY SMTT(60) DEF AnswerInv, AudioAnswers, VideoAnswers, ReaderAnswers
<1> QED
    BY <1>1, <1>2, <1>3, <1>4, <1>5, <1>6 DEF HandshakeInv

\* setState(), on the UI thread and on a reader
LEMMA SetStateKeeps ==
    ASSUME TypeOK, HandshakeInv, ~Raced, ~Raced', NEW t \in Threads,
           NEW s \in {"Playing", "Paused"}, t = Main \/ s = "Playing",
           SetStateTest(t, s) \/ SetStateWrite(t, s)
    PROVE  HandshakeInv'
<1> USE DEF SetStateTest, SetStateWrite
<1>1. ControlInv'
    BY SMTT(60)
<1>2. DemuxerInv'
    BY SMTT(60)
<1>3. AudioInv'
    BY SMTT(60)
<1>4. VideoInv'
    BY SMTT(60)
<1>5. RestInv'
    BY SMTT(60)
<1>6. AnswerInv'
    BY SMTT(60) DEF AnswerInv, AudioAnswers, VideoAnswers, ReaderAnswers
<1> QED
    BY <1>1, <1>2, <1>3, <1>4, <1>5, <1>6 DEF HandshakeInv

\* the other steps of the UI thread
LEMMA UiKeeps ==
    ASSUME TypeOK, HandshakeInv, ~Raced, ~Raced', 
           PlayBegin \/ PlayResume \/ PauseBegin \/ SeekBegin \/ SeekUse
             \/ \E r \in Readers : PlayStart(r)
    PROVE  HandshakeInv'
<1> USE DEF PlayBegin, PlayResume, PauseBegin, SeekBegin, SeekUse, PlayStart
<1>1. ControlInv'
    BY SMTT(60)
<1>2. DemuxerInv'
    BY SMTT(60)
<1>3. AudioInv'
    BY SMTT(60)
<1>4. VideoInv'
    BY SMTT(60)
<1>5. RestInv'
    BY SMTT(60)
<1>6. AnswerInv'
    BY SMTT(60) DEF AnswerInv, AudioAnswers, VideoAnswers, ReaderAnswers
<1> QED
    BY <1>1, <1>2, <1>3, <1>4, <1>5, <1>6 DEF HandshakeInv

\* a reader up to setState(Playing)
LEMMA OpenKeeps ==
    ASSUME TypeOK, HandshakeInv, ~Raced, ~Raced', NEW r \in Readers, NEW ok \in BOOLEAN,
           Open(r, ok) \/ Probe(r, ok) \/ InitAudio(r, ok) \/ InitVideo(r, ok)
    PROVE  HandshakeInv'
<1> USE DEF Open, Probe, InitAudio, InitVideo
<1>1. ControlInv'
    BY SMTT(60)
<1>2. DemuxerInv'
    BY SMTT(60)
<1>3. AudioInv'
    BY SMTT(60)
<1>4. VideoInv'
    BY SMTT(60)
<1>5. RestInv'
    BY SMTT(60)
<1>6. AnswerInv'
    BY SMTT(60) DEF AnswerInv, AudioAnswers, VideoAnswers, ReaderAnswers
<1> QED
    BY <1>1, <1>2, <1>3, <1>4, <1>5, <1>6 DEF HandshakeInv

\* a reader from there on
LEMMA ReadKeeps ==
    ASSUME TypeOK, HandshakeInv, ~Raced, ~Raced', NEW r \in Readers,
           Unpause(r) \/ SpawnDecoder(r) \/ LoopTest(r) \/ ReadFrame(r)
             \/ ReaderFinished(r) \/ ReaderTail(r) \/ ReaderRelease(r)
    PROVE  HandshakeInv'
<1> USE DEF Unpause, SpawnDecoder, LoopTest, ReadFrame, ReaderFinished, ReaderTail,
            ReaderRelease
<1>1. ControlInv'
    BY SMTT(60)
<1>2. DemuxerInv'
    BY SMTT(60)
<1>3. AudioInv'
    BY SMTT(60)
<1>4. VideoInv'
    BY SMTT(60)
<1>5. RestInv'
    BY SMTT(60)
<1>6. AnswerInv'
    BY SMTT(60) DEF AnswerInv, AudioAnswers, VideoAnswers, ReaderAnswers
<1> QED
    BY <1>1, <1>2, <1>3, <1>4, <1>5, <1>6 DEF HandshakeInv

\* a decoder thread
LEMMA DecoderKeeps ==
    ASSUME TypeOK, HandshakeInv, ~Raced, ~Raced', NEW r \in Readers, Decoder(r)
    PROVE  HandshakeInv'
<1> USE DEF Decoder, DecoderStep, DecoderPauseTest, DecoderSeekWhilePaused,
            DecoderStopTest, DecoderPop, DecoderFrame, DecoderDrained,
            DecoderClockReached, DecoderSyncAborted, DecoderEmit, DecoderSignal
<1>1. ControlInv'
    BY SMTT(60)
<1>2. DemuxerInv'
    BY SMTT(60)
<1>3. AudioInv'
    BY SMTT(60)
<1>4. VideoInv'
    BY SMTT(60)
<1>5. RestInv'
    BY SMTT(60)
<1>6. AnswerInv'
    BY SMTT(60) DEF AnswerInv, AudioAnswers, VideoAnswers, ReaderAnswers
<1> QED
    BY <1>1, <1>2, <1>3, <1>4, <1>5, <1>6 DEF HandshakeInv

\* SDL's audio thread
LEMMA CallbackKeeps ==
    ASSUME TypeOK, HandshakeInv, ~Raced, ~Raced', Callback
    PROVE  HandshakeInv'
<1> USE DEF Callback, CallbackStart, CallbackPauseTest, CallbackStopTest,
            CallbackSignal, CallbackDecode
<1>1. ControlInv'
    BY SMTT(60)
<1>2. DemuxerInv'
    BY SMTT(60)
<1>3. AudioInv'
    BY SMTT(60)
<1>4. VideoInv'
    BY SMTT(60)
<1>5. RestInv'
    BY SMTT(60)
<1>6. AnswerInv'
    BY SMTT(60) DEF AnswerInv, AudioAnswers, VideoAnswers, ReaderAnswers
<1> QED
    BY <1>1, <1>2, <1>3, <1>4, <1>5, <1>6 DEF HandshakeInv

(***************************************************************************)
(* The inductive step and the theorems.                                    *)
(***************************************************************************)
LEMMA InitLifecycle == Init => LifecycleInv
BY DEF Init, LifecycleInv, AnswerInv, AudioAnswers, VideoAnswers, ReaderAnswers

\* A race is not forgotten: mishaps only grows.
LEMMA RacedStays == TypeOK /\ [Next]_vars /\ Raced => Raced'
<1> SUFFICES ASSUME [Next]_vars
             PROVE  mishaps \subseteq mishaps'
    OBVIOUS
<1>1. ASSUME NEW t \in Threads, Stop(t)
      PROVE  mishaps \subseteq mishaps'
    BY <1>1 DEF Stop, StopTest, StopWrite, AwaitAudio, AwaitVideo, AwaitFmt, CloseInput,
       ResetFmt, FreeAudioReset, FreeAudioRelease, PauseDevice, CloseDevice,
       FreeVideoRelease, FreeVideoReset
<1>2. ASSUME NEW t, NEW s, SetStateTest(t, s) \/ SetStateWrite(t, s)
      PROVE  mishaps \subseteq mishaps'
    BY <1>2 DEF SetStateTest, SetStateWrite
<1>3. ASSUME Ui
      PROVE  mishaps \subseteq mishaps'
    BY <1>1, <1>2, <1>3 DEF Ui, PlayBegin, PlayResume, PauseBegin, SeekBegin, SeekUse, PlayStart
<1>4. ASSUME NEW r \in Readers, Reader(r)
      PROVE  mishaps \subseteq mishaps'
    BY <1>1, <1>2, <1>4 DEF Reader, Open, Probe, InitAudio, InitVideo, Unpause,
       SpawnDecoder, LoopTest, ReadFrame, ReaderFinished, ReaderTail, ReaderRelease
<1>5. ASSUME NEW r \in Readers, Decoder(r)
      PROVE  mishaps \subseteq mishaps'
    BY <1>5 DEF Decoder, DecoderStep, DecoderPauseTest, DecoderSeekWhilePaused,
       DecoderStopTest, DecoderPop, DecoderFrame, DecoderDrained, DecoderClockReached,
       DecoderSyncAborted, DecoderEmit, DecoderSignal
<1>6. ASSUME Callback
      PROVE  mishaps \subseteq mishaps'
    BY <1>6 DEF Callback, CallbackStart, CallbackPauseTest, CallbackStopTest,
       CallbackSignal, CallbackDecode
<1>7. CASE UNCHANGED vars
    BY <1>7 DEF vars
<1> QED
    BY <1>3, <1>4, <1>5, <1>6, <1>7 DEF Next

LEMMA StepLifecycle == TypeOK /\ LifecycleInv /\ [Next]_vars => LifecycleInv'
<1> SUFFICES ASSUME TypeOK, LifecycleInv, [Next]_vars, ~Raced'
             PROVE  HandshakeInv'
    BY DEF LifecycleInv
<1> USE DEF LifecycleInv
<1>0. ~Raced /\ HandshakeInv
    BY RacedStays
<1>1. ASSUME NEW t \in Threads, Stop(t)
      PROVE  HandshakeInv'
    BY <1>0, <1>1, StopWaits, StopFreesAudio, StopFreesVideo DEF Stop
<1>2. ASSUME Ui
      PROVE  HandshakeInv'
    BY <1>0, <1>1, <1>2, SetStateKeeps, UiKeeps DEF Ui
<1>3. ASSUME NEW r \in Readers, Reader(r)
      PROVE  HandshakeInv'
    BY <1>0, <1>1, <1>3, SetStateKeeps, OpenKeeps, ReadKeeps DEF Reader
<1>4. ASSUME NEW r \in Readers, Decoder(r)
      PROVE  HandshakeInv'
    BY <1>0, <1>4, DecoderKeeps
<1>5. CASE Callback
    BY <1>0, <1>5, CallbackKeeps
<1>6. CASE UNCHANGED vars
    BY <1>0, <1>6 DEF vars, AnswerInv, AudioAnswers, VideoAnswers, ReaderAnswers
<1> QED
    BY <1>2, <1>3, <1>4, <1>5, <1>6 DEF Next

\* LifecycleInv is an invariant of the player, for any number of sessions.
THEOREM LifecycleInvariant == Spec => []LifecycleInv
BY TypeCorrect, InitLifecycle, StepLifecycle, PTL DEF Spec

\* Unless a race has occurred, no thread uses what free() has released.
THEOREM TeardownIsSafe == Spec => []TeardownSafe
<1>1. TypeOK /\ LifecycleInv => TeardownSafe
    BY DEF LifecycleInv, TeardownSafe, NoUseAfterFree, UsesFmt
<1> QED
    BY <1>1, TypeCorrect, LifecycleInvariant, PTL

\* Unless a race has occurred, one thread at a time is in free().
THEOREM TeardownIsSingle == Spec => []SingleTeardown
<1>1. LifecycleInv => SingleTeardown
    BY DEF LifecycleInv, SingleTeardown
<1> QED
    BY <1>1, LifecycleInvariant, PTL

\* Unless a race has occurred, free() does not wait for a thread that is gone.
THEOREM StopGetsItsAnswers == Spec => []StopIsAnswered
<1>1. LifecycleInv => StopIsAnswered
    BY DEF LifecycleInv, HandshakeInv, AnswerInv, StopIsAnswered
<1> QED
    BY <1>1, LifecycleInvariant, PTL

\* Unless a race or a failed probe has occurred, a stopped player holds no resource,
\* no raised flag and no thread.
THEOREM StoppedIsClean == Spec => []CleanBetweenSessions
<1>1. TypeOK /\ LifecycleInv => CleanBetweenSessions
    BY DEF LifecycleInv, CleanBetweenSessions, AtRest
<1> QED
    BY <1>1, TypeCorrect, LifecycleInvariant, PTL

HIDE DEF TypeOK, ValuesOK, PointsOK, HandshakeInv, ControlInv, DemuxerInv, AudioInv, VideoInv,
         RestInv, Clean

(***************************************************************************)
(* The refinement: what each step is for the user of the player.  By       *)
(* ControlInv the phases exclude each other: while a reader is starting    *)
(* nobody is in free(), and the other way round.                           *)
(***************************************************************************)
Sound == TypeOK /\ ~Raced /\ HandshakeInv
Protocol == [User!Next]_(User!view)

\* A step that changes neither state, nor who is starting or in free(), nor what is held.
LEMMA Unseen ==
    ASSUME ~Raced, ~Raced', state' = state, Opening' <=> Opening, Closing' <=> Closing,
           Held' <=> Held
    PROVE  Protocol
<1>1. Phase' = Phase
    BY DEF Phase
<1>2. Held' = Held
    BY Zenon DEF Held
<1> QED
    BY <1>1, <1>2 DEF Protocol, User!view

\* Between two points that are neither in the opening nor in the teardown, or both in the
\* same of the two, the session stays where it is.
StaysInPart(t) ==
    /\ pc' = [pc EXCEPT ![t] = pc'[t]]
    /\ t \in Readers => (pc'[t] \in Starting <=> pc[t] \in Starting)
    /\ pc'[t] \in Teardown <=> pc[t] \in Teardown

LEMMA SamePart ==
    ASSUME PointsOK, NEW t \in Threads, StaysInPart(t)
    PROVE  (Opening' <=> Opening) /\ (Closing' <=> Closing)
BY DEF StaysInPart, PointsOK, Opening, Closing

LEMMA StopRefines ==
    ASSUME Sound, Sound', NEW t \in Threads, Stop(t)
    PROVE  Protocol
<1> USE DEF Sound, TypeOK
<1>1. ASSUME StopTest(t) \/ AwaitAudio(t) \/ AwaitVideo(t) \/ AwaitFmt(t) \/ ResetFmt(t)
             \/ FreeAudioReset(t)
      PROVE  Protocol
    <2>1. StaysInPart(t)
        BY <1>1 DEF StaysInPart, PointsOK, StopTest, AwaitAudio, AwaitVideo, AwaitFmt, ResetFmt, FreeAudioReset
    <2>2. (Opening' <=> Opening) /\ (Closing' <=> Closing)
        BY <2>1, SamePart
    <2>3. state' = state /\ (Held' <=> Held)
        BY <1>1 DEF StopTest, AwaitAudio, AwaitVideo, AwaitFmt, ResetFmt, FreeAudioReset, Held
    <2> QED
        BY <2>2, <2>3, Unseen
<1>2. CASE StopWrite(t)
    <2>1. state # "Stopped" /\ state' = "Stopped" /\ UNCHANGED media
        BY <1>2 DEF StopWrite
    <2>2. Closing' /\ ~Opening'
        BY <1>2, <2>1 DEF StopWrite, Closing, Opening, HandshakeInv, ControlInv, PointsOK
    <2>3. Phase' = "closing" /\ Phase \in {"playing", "paused"} /\ Held' = Held
        BY <2>1, <2>2 DEF Phase, Held, ValuesOK
    <2> QED
        BY <2>3 DEF Protocol, User!Next, User!Stop, User!Move
<1>3. ASSUME CloseInput(t) \/ FreeAudioRelease(t) \/ PauseDevice(t) \/ CloseDevice(t)
             \/ FreeVideoRelease(t)
      PROVE  Protocol
    <2> USE DEF CloseInput, FreeAudioRelease, PauseDevice, CloseDevice, FreeVideoRelease
    <2>1. StaysInPart(t)
        BY <1>3 DEF StaysInPart, PointsOK
    <2>2. (Opening' <=> Opening) /\ (Closing' <=> Closing)
        BY <2>1, SamePart
    <2>3. state' = state /\ (Held' => Held)
        BY <1>3 DEF Held
    <2>4. pc[t] \in Teardown
        BY <1>3
    <2>5. state = "Stopped" /\ ~Opening /\ Closing
        BY <2>4 DEF HandshakeInv, ControlInv, Opening, Closing
    <2>6. Phase = "closing" /\ Phase' = Phase
        BY <2>2, <2>3, <2>5 DEF Phase
    <2>7. CASE Held' <=> Held
        BY <2>2, <2>3, <2>7, Unseen
    <2>8. CASE ~Held' /\ Held
        <3>1. Held' = FALSE
            BY <2>8, Zenon DEF Held
        <3> QED
            BY <2>6, <3>1 DEF Protocol, User!Next, User!Drop
    <2> QED
        BY <2>3, <2>7, <2>8
<1>4. CASE FreeVideoReset(t)
    <2>1. pc[t] = "reset_video" /\ state' = state /\ UNCHANGED media
        BY <1>4 DEF FreeVideoReset
    <2>2. state = "Stopped" /\ ~Opening /\ Closing
        BY <2>1 DEF HandshakeInv, ControlInv, Opening, Closing
    <2>3. ~Opening' /\ ~Closing'
        BY <1>4, <2>1, <2>2 DEF FreeVideoReset, HandshakeInv, ControlInv, Opening, Closing, PointsOK
    <2>4. ~Held
        BY <2>1 DEF HandshakeInv, AudioInv, VideoInv, Held
    <2>5. Phase = "closing" /\ Phase' = "off"
        BY <2>1, <2>2, <2>3 DEF Phase
    <2>6. Held' = Held
        BY <2>1 DEF Held
    <2> QED
        BY <2>4, <2>5, <2>6 DEF Protocol, User!Next, User!Finish, User!Move
<1> QED
    BY <1>1, <1>2, <1>3, <1>4 DEF Stop

LEMMA UiRefines ==
    ASSUME Sound, Sound', Ui
    PROVE  Protocol
<1> USE DEF Sound, TypeOK
<1>1. ASSUME PlayBegin \/ PlayResume \/ PauseBegin \/ SeekBegin \/ SeekUse
             \/ \E s \in {"Playing", "Paused"} : SetStateTest(Main, s)
      PROVE  Protocol
    <2>1. StaysInPart(Main)
        <3>1. CASE PlayBegin
            BY <3>1 DEF StaysInPart, PointsOK, PlayBegin
        <3>2. CASE SeekBegin
            BY <3>2 DEF StaysInPart, PointsOK, SeekBegin
        <3>4. CASE PlayResume
            BY <3>4 DEF StaysInPart, PointsOK, PlayResume
        <3>5. CASE PauseBegin
            BY <3>5 DEF StaysInPart, PointsOK, PauseBegin
        <3>6. CASE SeekUse
            BY <3>6 DEF StaysInPart, PointsOK, SeekUse
        <3>3. ASSUME NEW s \in {"Playing", "Paused"}, SetStateTest(Main, s)
              PROVE  StaysInPart(Main)
            BY <3>3 DEF StaysInPart, PointsOK, SetStateTest
        <3> QED
            BY <1>1, <3>1, <3>2, <3>3, <3>4, <3>5, <3>6
    <2>2. (Opening' <=> Opening) /\ (Closing' <=> Closing)
        BY <2>1, SamePart
    <2>3. state' = state /\ (Held' <=> Held)
        BY <1>1 DEF PlayBegin, PlayResume, PauseBegin, SeekBegin, SeekUse, SetStateTest, Held
    <2> QED
        BY <2>2, <2>3, Unseen
<1>2. ASSUME NEW s \in {"Playing", "Paused"}, SetStateWrite(Main, s)
      PROVE  Protocol
    <2>1. state # "Stopped" /\ state' = s /\ UNCHANGED media
        BY <1>2 DEF SetStateWrite
    <2>2. /\ Phase = IF state = "Playing" THEN "playing" ELSE "paused"
          /\ Phase' = IF s = "Playing" THEN "playing" ELSE "paused"
          /\ Held' = Held
        BY <2>1 DEF Phase, Held, ValuesOK
    <2> QED
        BY <2>2 DEF Protocol, User!view, User!Next, User!Pause, User!Resume, User!Move
<1>3. ASSUME NEW r \in Readers, PlayStart(r)
      PROVE  Protocol
    <2>1. state = "Stopped" /\ state' = state /\ UNCHANGED media
        BY <1>3 DEF PlayStart
    <2>2. ~Opening /\ ~Closing
        BY <1>3 DEF PlayStart, Opening, Closing
    <2>3. Opening'
        BY <1>3 DEF PlayStart, Opening, PointsOK
    <2>4. Phase = "off" /\ Phase' = "opening" /\ Held' = Held
        BY <2>1, <2>2, <2>3 DEF Phase, Held
    <2> QED
        BY <2>4 DEF Protocol, User!Next, User!Start, User!Move
<1> QED
    BY <1>1, <1>2, <1>3, StopRefines DEF Ui

\* The part of readFile that opens the file, up to the write of Playing.
OpeningStep(r) ==
    \/ \E ok \in BOOLEAN : Open(r, ok) \/ Probe(r, ok) \/ InitAudio(r, ok) \/ InitVideo(r, ok)
    \/ SetStateTest(r, "Playing") \/ SetStateWrite(r, "Playing")

LEMMA OpenRefines ==
    ASSUME Sound, Sound', NEW r \in Readers, OpeningStep(r)
    PROVE  Protocol
<1> USE DEF Sound, TypeOK
<1>0. state = "Stopped" /\ Opening /\ Phase = "opening"
    <2>1. pc[r] \in Starting
        BY DEF OpeningStep, Open, Probe, InitAudio, InitVideo, SetStateTest, SetStateWrite
    <2>2. state = "Stopped" /\ Opening
        BY <2>1 DEF HandshakeInv, ControlInv, Opening
    <2> QED
        BY <2>2 DEF Phase
<1>1. ASSUME NEW ok \in BOOLEAN, ok, Open(r, ok) \/ Probe(r, ok)
      PROVE  Protocol
    <2>1. StaysInPart(r)
        <3>1. CASE Open(r, ok)
            BY <1>1, <3>1 DEF StaysInPart, PointsOK, Open
        <3>2. CASE Probe(r, ok)
            BY <1>1, <3>2 DEF StaysInPart, PointsOK, Probe
        <3> QED
            BY <1>1, <3>1, <3>2
    <2>2. (Opening' <=> Opening) /\ (Closing' <=> Closing)
        BY <2>1, SamePart
    <2>3. state' = state /\ audioRes' = audioRes /\ videoRes' = videoRes /\ device' = device
        BY <1>1 DEF Open, Probe
    <2>4. Held' <=> Held
        BY <2>3 DEF Held
    <2> QED
        BY <2>2, <2>3, <2>4, Unseen
<1>2. ASSUME NEW ok \in BOOLEAN, ~ok, Open(r, ok) \/ Probe(r, ok)
      PROVE  Protocol
    <2>1. pc[r] \in {"open", "probe"} /\ state' = state
          /\ audioRes' = audioRes /\ videoRes' = videoRes /\ device' = device
        BY <1>2 DEF Open, Probe
    <2>2. ~Opening' /\ ~Closing'
        BY <1>2, <2>1 DEF Open, Probe, HandshakeInv, ControlInv, Opening, Closing, PointsOK
    <2>3. ~Held
        BY <2>1 DEF HandshakeInv, AudioInv, VideoInv, Held
    <2>4. Phase' = "off" /\ Held' = Held
        BY <1>0, <2>1, <2>2 DEF Phase, Held
    <2> QED
        BY <1>0, <2>3, <2>4 DEF Protocol, User!Next, User!Fail, User!Move
<1>3. ASSUME NEW ok \in BOOLEAN, InitAudio(r, ok) \/ InitVideo(r, ok)
      PROVE  Protocol
    <2>1. StaysInPart(r)
        BY <1>3 DEF StaysInPart, PointsOK, InitAudio, InitVideo
    <2>2. (Opening' <=> Opening) /\ (Closing' <=> Closing)
        BY <2>1, SamePart
    <2>3. state' = state /\ (Held => Held')
        BY <1>3 DEF InitAudio, InitVideo, Held
    <2>4. CASE Held' <=> Held
        BY <2>2, <2>3, <2>4, Unseen
    <2>5. CASE Held' /\ ~Held
        <3>1. Held' = TRUE
            BY <2>5, Zenon DEF Held
        <3>2. Phase' = "opening"
            BY <1>0, <2>2, <2>3 DEF Phase
        <3> QED
            BY <1>0, <3>1, <3>2 DEF Protocol, User!Next, User!Take
    <2> QED
        BY <2>3, <2>4, <2>5
<1>4. CASE SetStateTest(r, "Playing")
    <2>1. StaysInPart(r)
        BY <1>0, <1>4 DEF StaysInPart, PointsOK, SetStateTest
    <2>2. (Opening' <=> Opening) /\ (Closing' <=> Closing)
        BY <2>1, SamePart
    <2>3. state' = state /\ (Held' <=> Held)
        BY <1>4 DEF SetStateTest, Held
    <2> QED
        BY <2>2, <2>3, Unseen
<1>5. CASE SetStateWrite(r, "Playing")
    <2>1. Phase' = "playing" /\ Held' = Held
        BY <1>5 DEF SetStateWrite, Phase, Held
    <2> QED
        BY <1>0, <2>1 DEF Protocol, User!Next, User!Begin, User!Move
<1> QED
    BY <1>1, <1>2, <1>3, <1>4, <1>5 DEF OpeningStep

\* The loop of readFile, the decoder thread and the callback are not seen.
LEMMA WorkRefines ==
    ASSUME Sound, Sound',
           \/ \E r \in Readers :
                 \/ Unpause(r) \/ SpawnDecoder(r) \/ LoopTest(r) \/ ReadFrame(r)
                 \/ ReaderFinished(r) \/ ReaderTail(r) \/ ReaderRelease(r) \/ Decoder(r)
           \/ Callback
    PROVE  Protocol
<1> USE DEF Sound, TypeOK
<1>1. ASSUME NEW r \in Readers,
             \/ Unpause(r) \/ SpawnDecoder(r) \/ LoopTest(r) \/ ReadFrame(r)
             \/ ReaderFinished(r) \/ ReaderTail(r) \/ ReaderRelease(r)
      PROVE  Protocol
    <2> USE DEF Unpause, SpawnDecoder, LoopTest, ReadFrame, ReaderFinished, ReaderTail,
                ReaderRelease
    <2>1. StaysInPart(r)
        BY <1>1 DEF StaysInPart, PointsOK
    <2>2. (Opening' <=> Opening) /\ (Closing' <=> Closing)
        BY <2>1, SamePart
    <2>3. state' = state /\ (Held' <=> Held)
        BY <1>1 DEF Held
    <2> QED
        BY <2>2, <2>3, Unseen
<1>2. ASSUME NEW r \in Readers, Decoder(r)
      PROVE  UNCHANGED <<state, media, pc>>
    BY <1>2 DEF Decoder, DecoderStep, DecoderPauseTest, DecoderSeekWhilePaused,
       DecoderStopTest, DecoderPop, DecoderFrame, DecoderDrained, DecoderClockReached,
       DecoderSyncAborted, DecoderEmit, DecoderSignal
<1>3. ASSUME Callback
      PROVE  UNCHANGED <<state, media, pc>>
    BY <1>3 DEF Callback, CallbackStart, CallbackPauseTest, CallbackStopTest,
       CallbackSignal, CallbackDecode
<1>4. ASSUME UNCHANGED <<state, media, pc>>
      PROVE  Protocol
    BY <1>4, Unseen DEF Opening, Closing, Held
<1> QED
    BY <1>1, <1>2, <1>3, <1>4

LEMMA StepRefines == Sound /\ Sound' /\ [Next]_vars => Protocol
<1> SUFFICES ASSUME Sound, Sound', [Next]_vars
             PROVE  Protocol
    OBVIOUS
<1>1. ASSUME NEW r \in Readers, Reader(r)
      PROVE  Protocol
    BY <1>1, OpenRefines, WorkRefines, StopRefines DEF Reader, OpeningStep
<1>2. CASE UNCHANGED vars
    BY <1>2, Unseen DEF vars, Sound, Opening, Closing, Held
<1> QED
    BY <1>1, <1>2, UiRefines, WorkRefines DEF Next

\* VideoPlayer does what PlayerProtocol promises, for any number of sessions: the
\* safety part of ImplementsProtocol.
THEOREM ImplementsProtocolSafely == Spec => User!Spec
<1>1. Init => User!Init
    BY DEF Init, User!Init, Phase, Held, Opening, Closing
<1>2. TypeOK /\ LifecycleInv /\ TypeOK' /\ LifecycleInv' /\ [Next]_vars => Protocol
    <2> SUFFICES ASSUME TypeOK, LifecycleInv, TypeOK', LifecycleInv', [Next]_vars
                 PROVE  Protocol
        OBVIOUS
    <2>1. CASE Raced'
        <3>1. Phase' = "broken"
            BY <2>1 DEF Phase
        <3> QED
            BY <3>1 DEF Protocol, User!Next, User!Break
    <2>2. CASE ~Raced'
        BY <2>2, RacedStays, StepRefines DEF LifecycleInv, Sound
    <2> QED
        BY <2>1, <2>2
<1> QED
    BY <1>1, <1>2, TypeCorrect, LifecycleInvariant, PTL DEF Spec, User!Spec, Protocol

=============================================================================
