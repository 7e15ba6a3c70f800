--------------------------- MODULE PlaybackPipeline ---------------------------
(***************************************************************************)
(* One playing session of VideoPlayer: packets from the file through the   *)
(* two packet lists to the audio callback and the decoder thread, the two  *)
(* clocks, the seek requested by the UI, and the end of the file           *)
(* (VideoPlayer.cpp:112-200, VideoPlayerAudio.cpp:97-219,                  *)
(* VideoPlayerVideo.cpp:55-148).  Both streams are present; pause and stop *)
(* are in PlayerLifecycle.                                                 *)
(*                                                                         *)
(* The lists are used under a mutex, so an operation on one is a step.     *)
(* seekTime, aSeekTime, vSeekTime, aTime and vTime are plain members that  *)
(* three threads read and write.  Times are small integers and a packet    *)
(* carries, besides its place in the file, the number of seeks that had    *)
(* been performed when it was read; only the properties look at that.      *)
(***************************************************************************)
EXTENDS Integers, Sequences, FiniteSets

CONSTANTS
    File,       \* the packets of the file: a sequence of [s : Streams, t : Nat]
    MaxPkt,     \* AUDIO_MAX_PKT_SIZE, the limit readFile uses for both lists
    Delay,      \* packets the video codec holds back before it gives a frame
    Targets,    \* the times the user seeks to
    MaxSeeks    \* bound on the number of calls of setTime

\* aStream, vStream, and any other stream of the file, whose packets are dropped
Streams == {"a", "v", "other"}

ASSUME FileAssumption ==
    /\ File \in Seq([s : Streams, t : Nat])
    /\ \A i, j \in DOMAIN File : i < j => File[i].t <= File[j].t
ASSUME BoundsAssumption ==
    MaxPkt \in Nat \ {0} /\ Delay \in Nat /\ Targets \subseteq Nat /\ MaxSeeks \in Nat

VARIABLES
    rpc,        \* where the reader is in the loop of readFile
    pos,        \* the next packet av_read_frame returns
    aSize,      \* the locals of an iteration: the sizes of the lists it has read
    vSize,
    seekTime, aSeekTime, vSeekTime,     \* -1, or the time sought
    aTime, vTime,                       \* the clocks
    aList, vList,                       \* the packet lists
    apc, aPkt,  \* where decodeAudio is and the packet it has popped
    vpc, vPkt,  \* where decodeVideo is and the packet it has popped
    codec,      \* packets inside the video codec
    frame,      \* the packet the decoded frame belongs to
    seeks,      \* calls of setTime so far
    hist        \* auxiliary: what has been played and sought

reader == <<rpc, pos, aSize, vSize>>
marks == <<seekTime, aSeekTime, vSeekTime>>
audio == <<apc, aPkt>>
video == <<vpc, vPkt, codec, frame>>
vars == <<reader, marks, aTime, vTime, aList, vList, audio, video, seeks, hist>>

NoPkt == [i |-> 0, e |-> 0]
Packet == [i : 1 .. Len(File), e : 0 .. MaxSeeks]
Time(p) == File[p.i].t

\* hist.epoch counts the seeks performed and start is where the last one led; aTarget
\* and vTarget are the marks it left, aStolen and vStolen say that a packet read before
\* it removed the mark, and played are the packets read since and played.
Marked == Targets \cup {-1}
History == [epoch : 0 .. MaxSeeks, start : 1 .. Len(File) + 1, aTarget : Marked, vTarget : Marked,
            aStolen : BOOLEAN, vStolen : BOOLEAN,
            played : SUBSET DOMAIN File]

TypeOK ==
    /\ rpc \in {"top", "seek", "mark_v", "mark_a", "unmark", "reset_a", "reset_v",
                "clear_a", "clear_v", "sizes", "read", "finished"}
    /\ pos \in 1 .. Len(File) + 1
    /\ aSize \in 0 .. MaxPkt - 1 /\ vSize \in 0 .. MaxPkt - 1
    /\ seekTime \in Marked /\ aSeekTime \in Marked /\ vSeekTime \in Marked
    /\ aTime \in Nat /\ vTime \in Nat
    /\ aList \in Seq(Packet) /\ vList \in Seq(Packet) /\ codec \in Seq(Packet)
    /\ apc \in {"idle", "clock", "test", "unseek", "play"}
    /\ aPkt \in IF apc = "idle" THEN {NoPkt} ELSE Packet
    /\ vpc \in {"idle", "clock", "decode", "test", "unseek", "sync", "emit"}
    /\ vPkt \in IF vpc \in {"clock", "decode"} THEN Packet ELSE {NoPkt}
    /\ frame \in IF vpc \in {"test", "unseek", "sync", "emit"} THEN Packet ELSE {NoPkt}
    /\ seeks \in 0 .. MaxSeeks
    /\ hist \in History

Init ==
    /\ rpc = "top" /\ pos = 1 /\ aSize = 0 /\ vSize = 0
    /\ seekTime = -1 /\ aSeekTime = -1 /\ vSeekTime = -1
    /\ aTime = 0 /\ vTime = 0
    /\ aList = <<>> /\ vList = <<>>
    /\ apc = "idle" /\ aPkt = NoPkt
    /\ vpc = "idle" /\ vPkt = NoPkt /\ codec = <<>> /\ frame = NoPkt
    /\ seeks = 0
    /\ hist = [epoch |-> 0, start |-> 1, aTarget |-> -1, vTarget |-> -1,
               aStolen |-> FALSE, vStolen |-> FALSE, played |-> {}]

Playing == rpc # "finished"

WithPlayed(pkt) == [hist EXCEPT !.played = IF pkt.e = hist.epoch THEN @ \cup {pkt.i} ELSE @]

-----------------------------------------------------------------------------
(***************************************************************************)
(* The UI thread: setTime().                                               *)
(***************************************************************************)
SetTime(target) ==
    /\ Playing
    /\ seeks < MaxSeeks
    /\ seeks' = seeks + 1
    /\ seekTime' = target
    /\ UNCHANGED <<reader, aSeekTime, vSeekTime, aTime, vTime, aList, vList, audio,
                   video, hist>>

(***************************************************************************)
(* The reader: the loop of readFile.  A seek is eight separate accesses.   *)
(***************************************************************************)
\* The next iteration starts: the locals go out of scope.
NextIteration == rpc' = "top" /\ aSize' = 0 /\ vSize' = 0

LoopTop ==
    /\ rpc = "top"
    /\ rpc' = IF seekTime >= 0 THEN "seek" ELSE "sizes"
    /\ UNCHANGED <<pos, aSize, vSize, marks, aTime, vTime, aList, vList, audio, video,
                   seeks, hist>>

\* AVSEEK_FLAG_BACKWARD: a position from which no packet at or after the target is
\* missed; how far back the key frame is depends on the file.
SeekPoints(target) ==
    {p \in 1 .. Len(File) + 1 : \A i \in DOMAIN File : File[i].t >= target => p <= i}

Seek(p) ==
    /\ rpc = "seek"
    /\ p \in SeekPoints(seekTime)
    /\ pos' = p
    /\ rpc' = "mark_v"
    /\ hist' = [hist EXCEPT !.epoch = @ + 1, !.start = p, !.played = {},
                            !.aStolen = FALSE, !.vStolen = FALSE]
    /\ UNCHANGED <<aSize, vSize, marks, aTime, vTime, aList, vList, audio, video, seeks>>

SeekFails ==
    /\ rpc = "seek"
    /\ seekTime' = -1
    /\ rpc' = "sizes"
    /\ UNCHANGED <<pos, aSize, vSize, aSeekTime, vSeekTime, aTime, vTime, aList, vList,
                   audio, video, seeks, hist>>

MarkVideo ==
    /\ rpc = "mark_v"
    /\ vSeekTime' = seekTime
    /\ rpc' = "mark_a"
    /\ hist' = [hist EXCEPT !.vTarget = seekTime]
    /\ UNCHANGED <<pos, aSize, vSize, seekTime, aSeekTime, aTime, vTime, aList, vList,
                   audio, video, seeks>>

MarkAudio ==
    /\ rpc = "mark_a"
    /\ aSeekTime' = seekTime
    /\ rpc' = "unmark"
    /\ hist' = [hist EXCEPT !.aTarget = seekTime]
    /\ UNCHANGED <<pos, aSize, vSize, seekTime, vSeekTime, aTime, vTime, aList, vList,
                   audio, video, seeks>>

Unmark ==
    /\ rpc = "unmark"
    /\ seekTime' = -1
    /\ rpc' = "reset_a"
    /\ UNCHANGED <<pos, aSize, vSize, aSeekTime, vSeekTime, aTime, vTime, aList, vList,
                   audio, video, seeks, hist>>

\* Mutant: the clock is set to the target, which has already been taken away.
ResetAudioClockToTarget ==
    /\ rpc = "reset_a"
    /\ aTime' = seekTime
    /\ rpc' = "reset_v"
    /\ UNCHANGED <<pos, aSize, vSize, marks, vTime, aList, vList, audio, video, seeks, hist>>

ResetAudioClock ==
    /\ rpc = "reset_a"
    /\ aTime' = 0
    /\ rpc' = "reset_v"
    /\ UNCHANGED <<pos, aSize, vSize, marks, vTime, aList, vList, audio, video, seeks, hist>>

ResetVideoClock ==
    /\ rpc = "reset_v"
    /\ vTime' = 0
    /\ rpc' = "clear_a"
    /\ UNCHANGED <<pos, aSize, vSize, marks, aTime, aList, vList, audio, video, seeks, hist>>

ClearAudio ==
    /\ rpc = "clear_a"
    /\ aList' = <<>>
    /\ rpc' = "clear_v"
    /\ UNCHANGED <<pos, aSize, vSize, marks, aTime, vTime, vList, audio, video, seeks, hist>>

\* Mutant: only the audio packets are thrown away.
ClearVideoForgotten ==
    /\ rpc = "clear_v"
    /\ rpc' = "sizes"
    /\ UNCHANGED <<pos, aSize, vSize, marks, aTime, vTime, aList, vList, audio, video, seeks,
                   hist>>

ClearVideo ==
    /\ rpc = "clear_v"
    /\ vList' = <<>>
    /\ rpc' = "sizes"
    /\ UNCHANGED <<pos, aSize, vSize, marks, aTime, vTime, aList, audio, video, seeks, hist>>

\* Mutant: the limit is reached one packet early.
ListsFullEarly == Len(aList) + 1 >= MaxPkt \/ Len(vList) + 1 >= MaxPkt

ListsFull == Len(aList) >= MaxPkt \/ Len(vList) >= MaxPkt

\* Mutant: off by one.
ReadSizesOneMore ==
    /\ rpc = "sizes"
    /\ IF Len(aList) > MaxPkt \/ Len(vList) > MaxPkt
       THEN NextIteration
       ELSE rpc' = "read" /\ aSize' = Len(aList) /\ vSize' = Len(vList)
    /\ UNCHANGED <<pos, marks, aTime, vTime, aList, vList, audio, video, seeks, hist>>

\* Only the reader makes the lists longer, so the two sizes may be read in one step.
ReadSizes ==
    /\ rpc = "sizes"
    /\ IF ListsFull
       THEN NextIteration
       ELSE rpc' = "read" /\ aSize' = Len(aList) /\ vSize' = Len(vList)
    /\ UNCHANGED <<pos, marks, aTime, vTime, aList, vList, audio, video, seeks, hist>>

\* Mutant: the packet is put at the front.
ReadPacketInFront ==
    /\ rpc = "read"
    /\ pos <= Len(File)
    /\ LET pkt == [i |-> pos, e |-> hist.epoch] IN
       /\ aList' = IF File[pos].s = "a" THEN <<pkt>> \o aList ELSE aList
       /\ vList' = IF File[pos].s = "v" THEN <<pkt>> \o vList ELSE vList
    /\ pos' = pos + 1
    /\ NextIteration
    /\ UNCHANGED <<marks, aTime, vTime, audio, video, seeks, hist>>

ReadPacket ==
    /\ rpc = "read"
    /\ pos <= Len(File)
    /\ LET pkt == [i |-> pos, e |-> hist.epoch] IN
       /\ aList' = IF File[pos].s = "a" THEN Append(aList, pkt) ELSE aList
       /\ vList' = IF File[pos].s = "v" THEN Append(vList, pkt) ELSE vList
    /\ pos' = pos + 1
    /\ NextIteration
    /\ UNCHANGED <<marks, aTime, vTime, audio, video, seeks, hist>>

\* Mutant: the end of the file is taken for any other failure.
ReadEofAsError ==
    /\ rpc = "read"
    /\ pos > Len(File)
    /\ NextIteration
    /\ UNCHANGED <<pos, marks, aTime, vTime, aList, vList, audio, video, seeks, hist>>

\* The end of the file ends the session when both lists were empty; free() then
\* waits for the decoders, which finish what they have in hand.
ReadEof ==
    /\ rpc = "read"
    /\ pos > Len(File)
    /\ IF vSize = 0 /\ aSize = 0
       THEN rpc' = "finished" /\ UNCHANGED <<aSize, vSize>>
       ELSE NextIteration
    /\ UNCHANGED <<pos, marks, aTime, vTime, aList, vList, audio, video, seeks, hist>>

\* Another result of av_read_frame: the loop tries again.
ReadFails ==
    /\ rpc = "read"
    /\ NextIteration
    /\ UNCHANGED <<pos, marks, aTime, vTime, aList, vList, audio, video, seeks, hist>>

Reader ==
    \/ LoopTop \/ (\E p \in 1 .. Len(File) + 1 : Seek(p)) \/ SeekFails
    \/ MarkVideo \/ MarkAudio \/ Unmark \/ ResetAudioClock \/ ResetVideoClock
    \/ ClearAudio \/ ClearVideo \/ ReadSizes \/ ReadPacket \/ ReadEof \/ ReadFails

(***************************************************************************)
(* The audio callback: decodeAudio().  With an empty list it plays silence.*)
(***************************************************************************)
AudioPop ==
    /\ apc = "idle" /\ Playing
    /\ aList # <<>>
    /\ aPkt' = Head(aList) /\ aList' = Tail(aList)
    /\ apc' = "clock"
    /\ UNCHANGED <<reader, marks, aTime, vTime, vList, video, seeks, hist>>

AudioClock ==
    /\ apc = "clock"
    /\ aTime' = Time(aPkt)
    /\ apc' = "test"
    /\ UNCHANGED <<reader, marks, vTime, aList, vList, aPkt, video, seeks, hist>>

\* Mutant: the first packet after the seek is played whatever its time.
AudioTestNoDrop ==
    /\ apc = "test"
    /\ apc' = IF aSeekTime >= 0 THEN "unseek" ELSE "play"
    /\ UNCHANGED <<reader, marks, aTime, vTime, aList, vList, aPkt, video, seeks, hist>>

\* Mutant: the packet at the target is dropped too.
AudioTestDropEqual ==
    /\ apc = "test"
    /\ IF aSeekTime >= 0 /\ aTime <= aSeekTime
       THEN apc' = "idle" /\ aPkt' = NoPkt
       ELSE apc' = (IF aSeekTime >= 0 THEN "unseek" ELSE "play") /\ UNCHANGED aPkt
    /\ UNCHANGED <<reader, marks, aTime, vTime, aList, vList, video, seeks, hist>>

\* A packet before the time sought is dropped, the first other one removes the mark.  One
\* step for the accesses to mark and clock: a mark that is set stays set until this thread
\* removes it, and the reader changes it before the clock, so they see what one look in
\* between sees, unless a whole seek passes between two of them.
AudioTest ==
    /\ apc = "test"
    /\ IF aSeekTime >= 0 /\ aTime < aSeekTime
       THEN apc' = "idle" /\ aPkt' = NoPkt
       ELSE apc' = (IF aSeekTime >= 0 THEN "unseek" ELSE "play") /\ UNCHANGED aPkt
    /\ UNCHANGED <<reader, marks, aTime, vTime, aList, vList, video, seeks, hist>>

AudioUnseek ==
    /\ apc = "unseek"
    /\ aSeekTime' = -1
    /\ apc' = "play"
    /\ hist' = [hist EXCEPT !.aStolen = @ \/ aPkt.e # hist.epoch]
    /\ UNCHANGED <<reader, seekTime, vSeekTime, aTime, vTime, aList, vList, aPkt, video,
                   seeks>>

AudioPlay ==
    /\ apc = "play"
    /\ hist' = WithPlayed(aPkt)
    /\ apc' = "idle" /\ aPkt' = NoPkt
    /\ UNCHANGED <<reader, marks, aTime, vTime, aList, vList, video, seeks>>

Audio == AudioPop \/ AudioClock \/ AudioTest \/ AudioUnseek \/ AudioPlay

(***************************************************************************)
(* The decoder thread: decodeVideo().                                      *)
(***************************************************************************)
VideoPop ==
    /\ vpc = "idle" /\ Playing
    /\ vList # <<>>
    /\ vPkt' = Head(vList) /\ vList' = Tail(vList)
    /\ vpc' = "clock"
    /\ UNCHANGED <<reader, marks, aTime, vTime, aList, audio, codec, frame, seeks, hist>>

VideoClock ==
    /\ vpc = "clock"
    /\ vTime' = Time(vPkt)
    /\ vpc' = "decode"
    /\ UNCHANGED <<reader, marks, aTime, aList, vList, audio, vPkt, codec, frame, seeks, hist>>

\* The packet last sent to the codec when a frame has come out: the one vTime is of.
LastSent == IF codec = <<>> THEN frame ELSE codec[Len(codec)]

\* Mutant: the codec gives the newest frame.
VideoDecodeNewest ==
    /\ vpc = "decode"
    /\ IF Len(codec) >= Delay
       THEN codec' = codec /\ frame' = vPkt /\ vpc' = "test"
       ELSE codec' = Append(codec, vPkt) /\ vpc' = "idle" /\ UNCHANGED frame
    /\ vPkt' = NoPkt
    /\ UNCHANGED <<reader, marks, aTime, vTime, aList, vList, audio, seeks, hist>>

\* avcodec_send_packet, then avcodec_receive_frame: a frame, or EAGAIN while the
\* codec holds no more than Delay packets.
VideoDecode ==
    /\ vpc = "decode"
    /\ LET fed == Append(codec, vPkt) IN
       IF Len(fed) > Delay
       THEN codec' = Tail(fed) /\ frame' = Head(fed) /\ vpc' = "test"
       ELSE codec' = fed /\ vpc' = "idle" /\ UNCHANGED frame
    /\ vPkt' = NoPkt
    /\ UNCHANGED <<reader, marks, aTime, vTime, aList, vList, audio, seeks, hist>>

VideoTest ==
    /\ vpc = "test"
    /\ IF vSeekTime >= 0 /\ vTime < vSeekTime
       THEN vpc' = "idle" /\ frame' = NoPkt
       ELSE vpc' = (IF vSeekTime >= 0 THEN "unseek" ELSE "sync") /\ UNCHANGED frame
    /\ UNCHANGED <<reader, marks, aTime, vTime, aList, vList, audio, vPkt, codec, seeks, hist>>

VideoUnseek ==
    /\ vpc = "unseek"
    /\ vSeekTime' = -1
    /\ vpc' = "sync"
    /\ hist' = [hist EXCEPT !.vStolen = @ \/ LastSent.e # hist.epoch]
    /\ UNCHANGED <<reader, seekTime, aSeekTime, aTime, vTime, aList, vList, audio, vPkt,
                   codec, frame, seeks>>

ClockReached == vTime <= aTime

\* while (vTime > aTime && state == Playing) SDL_Delay(5);
VideoSync ==
    /\ vpc = "sync"
    /\ ClockReached \/ ~Playing
    /\ vpc' = "emit"
    /\ UNCHANGED <<reader, marks, aTime, vTime, aList, vList, audio, vPkt, codec, frame,
                   seeks, hist>>

VideoEmit ==
    /\ vpc = "emit"
    /\ hist' = WithPlayed(frame)
    /\ vpc' = "idle" /\ frame' = NoPkt
    /\ UNCHANGED <<reader, marks, aTime, vTime, aList, vList, audio, vPkt, codec, seeks>>

Video ==
    \/ VideoPop \/ VideoClock \/ VideoDecode \/ VideoTest \/ VideoUnseek
    \/ VideoSync \/ VideoEmit

Next == (\E target \in Targets : SetTime(target)) \/ Reader \/ Audio \/ Video

Spec == Init /\ [][Next]_vars

\* The three threads run and a read that fails does not fail for ever; the user need
\* not seek.
FairSpec ==
    /\ Spec
    /\ WF_vars(Reader) /\ SF_vars(ReadPacket \/ ReadEof)
    /\ WF_vars(Audio) /\ WF_vars(Video)

-----------------------------------------------------------------------------
(***************************************************************************)
(* Properties.                                                             *)
(***************************************************************************)
\* The limit is on the sizes read at the top of the loop, not on the lists; still
\* neither list ever exceeds it.
QueuesBounded == Len(aList) <= MaxPkt /\ Len(vList) <= MaxPkt

\* One stream, in epoch e, with next the next packet read: list is its packets that wait
\* and hand the packets its decoder has popped and is not through with.  New ones are
\* ordered.
InOrder(list, hand, e, next) ==
    /\ \A k \in DOMAIN list : list[k].e <= e
    /\ \A k \in DOMAIN list : list[k].e = e => list[k].i < next
    /\ \A j, k \in DOMAIN list : j < k /\ list[j].e = e /\ list[k].e = e => list[j].i < list[k].i
    /\ \A pkt \in hand : pkt.e <= e
    /\ \A pkt \in hand : pkt.e = e =>
          pkt.i < next /\ \A k \in DOMAIN list : list[k].e = e => pkt.i < list[k].i

\* pkt is the packet i of the file, read in epoch e
IsNew(pkt, i, e) == pkt.i = i /\ pkt.e = e
Waits(list, i, e) == \E k \in DOMAIN list : IsNew(list[k], i, e)

\* All that was read of stream s after a new packet that waits or is in hand waits too.
Complete(pkt, list, s, e, next) ==
    /\ File[pkt.i].s = s
    /\ pkt.e = e => \A i \in pkt.i + 1 .. next - 1 : File[i].s = s => Waits(list, i, e)
Gapless(list, hand, s, e, next) ==
    /\ \A k \in DOMAIN list : Complete(list[k], list, s, e, next)
    /\ \A pkt \in hand : Complete(pkt, list, s, e, next)

\* the packet a decoder has popped, if any
AudioHand == IF apc = "idle" THEN {} ELSE {aPkt}
VideoPopped == IF vpc \in {"clock", "decode"} THEN {vPkt} ELSE {}

\* Packets wait in file order and none is lost, duplicated or put in the other list,
\* whatever the decoders and a seek do meanwhile.
NothingLost ==
    /\ InOrder(aList, AudioHand, hist.epoch, pos)
    /\ Gapless(aList, AudioHand, "a", hist.epoch, pos)
    /\ InOrder(vList, VideoPopped, hist.epoch, pos)
    /\ Gapless(vList, VideoPopped, "v", hist.epoch, pos)

\* After a seek no packet of before it is left in a list (VideoPlayer.cpp:164-166).
OldPacketsGone ==
    rpc \in {"top", "sizes", "read", "finished"} =>
        /\ \A k \in DOMAIN aList : aList[k].e = hist.epoch
        /\ \A k \in DOMAIN vList : vList[k].e = hist.epoch

\* Nothing that was read after a seek and lies before its target is played, provided
\* no packet read before the seek has taken the mark away.  For video the time tested
\* is that of the packet last sent, so a codec that holds frames back lets that many
\* earlier ones through.
SeekHonoured ==
    /\ apc = "play" /\ aPkt.e = hist.epoch /\ ~hist.aStolen => Time(aPkt) >= hist.aTarget
    /\ vpc \in {"sync", "emit"} /\ LastSent.e = hist.epoch /\ ~hist.vStolen =>
          Time(LastSent) >= hist.vTarget

\* When the session ends by itself (VideoPlayer.cpp:185-188), every packet from the
\* position last sought that is not before the target has been played; what the video
\* codec holds back is excepted.
Ended == rpc = "finished" /\ apc = "idle" /\ vpc = "idle"
Held == {codec[k].i : k \in DOMAIN codec}
Due(s, target) == {i \in hist.start .. Len(File) : File[i].s = s /\ File[i].t >= target}
EverythingPlayed ==
    Ended => /\ Due("a", hist.aTarget) \subseteq hist.played
             /\ Due("v", hist.vTarget) \subseteq hist.played \cup Held

\* An audio packet that the video packet i may wait for, so near in the file that the video
\* packets before it do not fill the list.
AudioNear(i) ==
    \E j \in hist.start .. Len(File) :
        /\ File[j].s = "a" /\ File[j].t >= File[i].t
        /\ Cardinality({k \in i + 1 .. j - 1 : File[k].s = "v"}) < MaxPkt

\* The three threads never wait for one another: while the decoder thread waits for the
\* audio clock, the callback has a packet or the reader has room and something to read,
\* also after any seeks.  The exceptions are a file in which no audio is near, and a packet
\* read before a seek that has set the clock after it, which is what the run that violates
\* ClockArrives shows (VideoPlayer.cpp:162-174, VideoPlayerVideo.cpp:93, 126).
NoStandstill ==
    vpc = "sync" /\ ~ClockReached /\ LastSent.e = hist.epoch /\ AudioNear(LastSent.i) =>
        apc # "idle" \/ aList # <<>> \/ (~ListsFull /\ pos <= Len(File))

Promise == INSTANCE SeekablePlayback WITH
    InHand <- Delay + 1, start <- hist.start, presented <- hist.played, over <- ~Playing,
    target <- [a |-> hist.aTarget, v |-> hist.vTarget]

\* What is played of either stream since the last seek is what the file has there, in its
\* order, once and without a gap but for what is before the target, whatever the eight
\* accesses of a seek, the two lists and the codec do to it; packets read before the seek
\* and still in hand are not counted (VideoPlayer.cpp:145-189, VideoPlayerAudio.cpp:166-219,
\* VideoPlayerVideo.cpp:81-146).
PlaysTheFile == Promise!Spec

\* Without a seek the session ends by itself: the reader, waiting for room in the
\* lists, and the decoder thread, waiting for the audio clock, do not block each other
\* (VideoPlayer.cpp:172-174, VideoPlayerVideo.cpp:126).
EndsByItself == [](seeks = 0) => <>Ended

(***************************************************************************)
(* What comments of the code say.                                          *)
(***************************************************************************)
\* VideoPlayerVideo.cpp:109 "video earlier than the seek time is dropped", for frames
\* read after the seek.
EarlyFramesDropped ==
    vpc = "emit" /\ frame.e = hist.epoch => Time(frame) >= hist.vTarget

\* VideoPlayerVideo.cpp:125 "wait for the corresponding audio clock": the wait ends.
\* It need not when the audio stream is the shorter one, nor after a seek.
ClockArrives == vpc = "sync" ~> vpc # "sync"

-----------------------------------------------------------------------------
(***************************************************************************)
(* The inductive invariants behind TypeOK, QueuesBounded, OldPacketsGone   *)
(* and SeekHonoured.                                                       *)
(***************************************************************************)
\* No more seeks are performed than were asked for.
CountInv ==
    /\ hist.epoch <= seeks
    /\ rpc = "seek" => seekTime >= 0
    /\ seekTime >= 0 /\ rpc \notin {"mark_v", "mark_a", "unmark"} => hist.epoch < seeks

BoundInv == QueuesBounded /\ (rpc = "read" => Len(aList) < MaxPkt /\ Len(vList) < MaxPkt)

\* From av_seek_frame to the clears a list holds nothing of the new position, and after
\* them nothing else.
FreshInv ==
    /\ rpc \in {"top", "seek", "sizes", "read", "finished", "clear_v"} =>
          \A k \in DOMAIN aList : aList[k].e = hist.epoch
    /\ rpc \in {"top", "seek", "sizes", "read", "finished"} =>
          \A k \in DOMAIN vList : vList[k].e = hist.epoch

AllOld(list, hand, e) ==
    (\A k \in DOMAIN list : list[k].e # e) /\ (\A pkt \in hand : pkt.e # e)

\* What is new, waiting, in hand or ahead, is not before the target.
AllLate(list, hand, e, next, target) ==
    /\ \A k \in DOMAIN list : list[k].e = e => Time(list[k]) >= target
    /\ \A pkt \in hand : pkt.e = e => Time(pkt) >= target
    /\ \A i \in next .. Len(File) : File[i].t >= target

\* the packet the decoder has in hand; for video the last one given to the codec
VideoPkt == IF vpc \in {"clock", "decode"} THEN vPkt ELSE LastSent
VideoHand == IF vpc = "idle" THEN {} ELSE {VideoPkt}

\* where the reader is from av_seek_frame to the clear of the list, and to its mark
AudioClearing == {"mark_v", "mark_a", "unmark", "reset_a", "reset_v", "clear_a"}
VideoClearing == AudioClearing \cup {"clear_v"}
AudioUnmarked == {"mark_v", "mark_a"}
VideoUnmarked == {"mark_v"}

\* While the reader is seeking nothing new exists; and once a new packet has removed the
\* mark, nothing new is before the target.
AudioInv ==
    /\ InOrder(aList, AudioHand, hist.epoch, pos)
    /\ rpc \in AudioClearing => AllOld(aList, AudioHand, hist.epoch)
    /\ rpc \notin AudioUnmarked => aSeekTime \in {-1, hist.aTarget}
    /\ rpc \notin AudioUnmarked /\ ~hist.aStolen /\ aSeekTime # hist.aTarget =>
          AllLate(aList, AudioHand, hist.epoch, pos, hist.aTarget)
    /\ apc = "test" /\ aPkt.e = hist.epoch => aTime = Time(aPkt)
    /\ apc \in {"unseek", "play"} /\ aPkt.e = hist.epoch /\ ~hist.aStolen =>
          Time(aPkt) >= hist.aTarget

VideoInv ==
    /\ InOrder(vList, VideoHand, hist.epoch, pos)
    /\ rpc \in VideoClearing => AllOld(vList, VideoHand, hist.epoch)
    /\ rpc \notin VideoUnmarked => vSeekTime \in {-1, hist.vTarget}
    /\ rpc \notin VideoUnmarked /\ ~hist.vStolen /\ vSeekTime # hist.vTarget =>
          AllLate(vList, VideoHand, hist.epoch, pos, hist.vTarget)
    /\ vpc \in {"decode", "test"} /\ VideoPkt.e = hist.epoch => vTime = Time(VideoPkt)
    /\ vpc \in {"unseek", "sync", "emit"} /\ VideoPkt.e = hist.epoch /\ ~hist.vStolen =>
          Time(VideoPkt) >= hist.vTarget

\* A seek is honoured however the eight accesses of the reader and the steps of the two
\* decoders interleave (VideoPlayer.cpp:145-170): what is in the lists and in hand is
\* older than the seek, or ordered and, once the mark is gone, not before the target.
SeekInv == CountInv /\ BoundInv /\ FreshInv /\ AudioInv /\ VideoInv

(***************************************************************************)
(* Those behind NothingLost and EverythingPlayed.                          *)
(***************************************************************************)
\* q was read after pkt, if pkt is of epoch e.
Behind(pkt, q, e) == pkt.e = e => q.e = e /\ pkt.i < q.i
FrameOut == vpc \in {"test", "unseek", "sync", "emit"}

\* What the codec holds is in order, between the frame it gave and what it has not got.
CodecInv ==
    /\ \A j, k \in DOMAIN codec : j < k => Behind(codec[j], codec[k], hist.epoch)
    /\ \A k \in DOMAIN codec :
        /\ codec[k].e <= hist.epoch
        /\ codec[k].e = hist.epoch => rpc \notin VideoClearing /\ codec[k].i < pos
        /\ FrameOut => Behind(frame, codec[k], hist.epoch)
        /\ vpc \in {"clock", "decode"} => Behind(codec[k], vPkt, hist.epoch)
        /\ \A j \in DOMAIN vList : Behind(codec[k], vList[j], hist.epoch)
    /\ FrameOut => frame.e <= hist.epoch /\ (frame.e = hist.epoch => rpc \notin VideoClearing)

\* What has been read of stream s since the seek and is not before the target is played or
\* on its way.
Covers(list, hand, s, e, next, target, start, played) ==
    \A i \in start .. next - 1 :
        File[i].s = s /\ File[i].t >= target =>
            i \in played \/ Waits(list, i, e) \/ \E pkt \in hand : IsNew(pkt, i, e)

InCodec == {codec[k] : k \in DOMAIN codec} \cup (IF FrameOut THEN {frame} ELSE {})
AudioWhole ==
    /\ Gapless(aList, AudioHand, "a", hist.epoch, pos)
    /\ Covers(aList, AudioHand, "a", hist.epoch, pos, hist.aTarget, hist.start, hist.played)
VideoWhole ==
    /\ Gapless(vList, VideoPopped, "v", hist.epoch, pos)
    /\ Covers(vList, VideoPopped \cup InCodec, "v", hist.epoch, pos, hist.vTarget, hist.start,
              hist.played)

\* The sizes the reader has read bound the lists, and at the end both are empty.
EndInv ==
    /\ rpc \in VideoClearing => pos = hist.start
    /\ rpc = "read" => (aSize = 0 => aList = <<>>) /\ (vSize = 0 => vList = <<>>)
    /\ rpc = "finished" => pos = Len(File) + 1 /\ aList = <<>> /\ vList = <<>>

WholeInv == AudioWhole /\ VideoWhole /\ CodecInv /\ EndInv

(***************************************************************************)
(* Those behind PlaysTheFile and NoStandstill.                             *)
(***************************************************************************)
\* Everything played since the seek comes before pkt in the file.
NotYet(pkt) ==
    pkt.e = hist.epoch =>
        /\ hist.start <= pkt.i
        /\ \A i \in hist.played : File[i].s = File[pkt.i].s => i < pkt.i

Listed(list) == {list[k] : k \in DOMAIN list}

\* What waits, or is in hand or in the codec, is still to be played, and nothing has been
\* when the targets are set.
PlayedInv ==
    /\ hist.start <= pos /\ hist.played \subseteq hist.start .. pos - 1
    /\ rpc \in AudioClearing => hist.played = {}
    /\ rpc \in {"mark_v", "mark_a"} => seekTime >= 0
    /\ \A pkt \in Listed(aList) \cup AudioHand : NotYet(pkt)
    /\ \A pkt \in Listed(vList) \cup VideoPopped \cup InCodec : NotYet(pkt)
    /\ \A pkt \in InCodec : File[pkt.i].s = "v"
    /\ Len(codec) <= Delay

\* The audio clock has reached all audio read since the seek that is not still to come, and
\* a packet of before the seek can set it back only while all of it is.
ClockInv ==
    /\ \A i \in hist.start .. pos - 1 : File[i].s = "a" =>
          \/ Waits(aList, i, hist.epoch)
          \/ IF apc = "clock" THEN IsNew(aPkt, i, hist.epoch) \/ (aPkt.e = hist.epoch /\ File[i].t <= aTime)
             ELSE File[i].t <= aTime
    /\ vpc \in {"unseek", "sync"} /\ LastSent.e = hist.epoch => vTime <= Time(LastSent)

FlowInv == PlayedInv /\ ClockInv

=============================================================================
