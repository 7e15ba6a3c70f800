------------------------ MODULE PlaybackPipelineProofs ------------------------
(***************************************************************************)
(* Theorems about PlaybackPipeline, for every file, limit, codec delay and *)
(* set of targets.                                                         *)
(***************************************************************************)
EXTENDS PlaybackPipeline, FiniteSetTheorems, TLAPS

USE FileAssumption, BoundsAssumption

-----------------------------------------------------------------------------
(***************************************************************************)
(* Elements, first element and rest of a sequence.                         *)
(***************************************************************************)
LEMMA ElementOf ==
    ASSUME NEW S, NEW list \in Seq(S), NEW k \in DOMAIN list
    PROVE  list[k] \in S
OBVIOUS

LEMMA HeadAndTail ==
    ASSUME NEW S, NEW list \in Seq(S), list # <<>>
    PROVE  /\ Head(list) \in S /\ Head(list) = list[1] /\ 1 \in DOMAIN list
           /\ Tail(list) \in Seq(S)
           /\ Len(Tail(list)) = Len(list) - 1
           /\ \A k \in DOMAIN Tail(list) :
                 k + 1 \in DOMAIN list /\ Tail(list)[k] = list[k + 1]
OBVIOUS

LEMMA AppendedTo ==
    ASSUME NEW S, NEW list \in Seq(S), NEW x \in S
    PROVE  /\ Append(list, x) \in Seq(S) /\ Append(list, x) # <<>>
           /\ Len(Append(list, x)) = Len(list) + 1
           /\ Append(list, x)[Len(list) + 1] = x
           /\ \A k \in DOMAIN Append(list, x) :
                 \/ k \in DOMAIN list /\ Append(list, x)[k] = list[k]
                 \/ k = Len(list) + 1
OBVIOUS

-----------------------------------------------------------------------------
(***************************************************************************)
(* Types, the count of seeks, and the limit on the lists.                  *)
(***************************************************************************)
LEMMA InitType == Init => TypeOK /\ CountInv /\ BoundInv
BY DEF Init, TypeOK, CountInv, BoundInv, QueuesBounded, Marked, History

\* What a packet in the lists or in hand says about the file.
LEMMA PacketTime == ASSUME NEW pkt \in Packet PROVE Time(pkt) \in Nat
<1>1. pkt.i \in DOMAIN File
    BY DEF Packet
<1>2. File[pkt.i] \in [s : Streams, t : Nat]
    BY <1>1, ElementOf
<1> QED
    BY <1>2 DEF Time

LEMMA FileTime == ASSUME NEW i \in DOMAIN File PROVE File[i].t \in Nat
<1>1. File[i] \in [s : Streams, t : Nat]
    BY ElementOf
<1> QED
    BY <1>1

\* What the numbers in a packet are.
LEMMA PacketFields ==
    ASSUME NEW pkt \in Packet
    PROVE  pkt.i \in Nat /\ pkt.i \in DOMAIN File /\ pkt.e \in 0 .. MaxSeeks /\ pkt.e \in Nat
BY DEF Packet

LEMMA ListFields ==
    ASSUME NEW list \in Seq(Packet), NEW k \in DOMAIN list
    PROVE  /\ list[k].i \in Nat /\ list[k].i \in DOMAIN File
           /\ list[k].e \in 0 .. MaxSeeks /\ list[k].e \in Nat
<1>1. list[k] \in Packet
    BY ElementOf
<1> QED
    BY <1>1, PacketFields

\* The auxiliary record keeps its type when one of its fields is set.
LEMMA HistType ==
    ASSUME hist \in History, NEW b \in BOOLEAN
    PROVE  /\ [hist EXCEPT !.aStolen = b] \in History
           /\ [hist EXCEPT !.vStolen = b] \in History
BY DEF History

LEMMA SeekHistType ==
    ASSUME hist \in History, NEW p \in 1 .. Len(File) + 1, hist.epoch + 1 \in 0 .. MaxSeeks
    PROVE  [hist EXCEPT !.epoch = @ + 1, !.start = p, !.played = {},
                        !.aStolen = FALSE, !.vStolen = FALSE] \in History
BY DEF History

LEMMA PlayedType ==
    ASSUME hist \in History, NEW pkt \in Packet
    PROVE  WithPlayed(pkt) \in History
<1>1. pkt.i \in DOMAIN File
    BY DEF Packet
<1>2. [hist EXCEPT !.played = @ \cup {pkt.i}] \in History
    BY <1>1 DEF History
<1>3. [hist EXCEPT !.played = @] \in History
    BY DEF History
<1> QED
    BY <1>2, <1>3 DEF WithPlayed

LEMMA ReaderType ==
    ASSUME TypeOK, CountInv, Reader
    PROVE  TypeOK'
<1> USE DEF TypeOK, Marked, reader, marks, audio, video
<1>1. CASE LoopTop
    BY <1>1 DEF LoopTop
<1>2. ASSUME NEW p \in 1 .. Len(File) + 1, Seek(p) PROVE TypeOK'
    <2>1. hist.epoch < seeks
        BY <1>2 DEF Seek, CountInv
    <2>2. hist.epoch \in 0 .. MaxSeeks
        BY DEF History
    <2>3. hist.epoch + 1 \in 0 .. MaxSeeks
        BY <2>1, <2>2
    <2>4. hist' \in History
        BY <1>2, <2>3, SeekHistType DEF Seek
    <2> QED
        BY <1>2, <2>4 DEF Seek
<1>3. CASE SeekFails
    BY <1>3 DEF SeekFails
<1>4. CASE MarkVideo
    BY <1>4 DEF MarkVideo, History
<1>5. CASE MarkAudio
    BY <1>5 DEF MarkAudio, History
<1>6. CASE Unmark
    BY <1>6 DEF Unmark
<1>7. CASE ResetAudioClock
    BY <1>7 DEF ResetAudioClock
<1>8. CASE ResetVideoClock
    BY <1>8 DEF ResetVideoClock
<1>9. CASE ClearAudio
    BY <1>9 DEF ClearAudio
<1>10. CASE ClearVideo
    BY <1>10 DEF ClearVideo
<1>11. CASE ReadSizes
    BY <1>11 DEF ReadSizes, ListsFull, NextIteration
<1>12. CASE ReadPacket
    <2> DEFINE pkt == [i |-> pos, e |-> hist.epoch]
    <2>1. pkt \in Packet
        BY <1>12 DEF ReadPacket, Packet, History
    <2>2. Append(aList, pkt) \in Seq(Packet) /\ Append(vList, pkt) \in Seq(Packet)
        BY <2>1
    <2>3. aList' \in Seq(Packet) /\ vList' \in Seq(Packet)
        BY <1>12, <2>2 DEF ReadPacket
    <2>4. pos' \in 1 .. Len(File) + 1
        BY <1>12 DEF ReadPacket
    <2> QED
        BY <1>12, <2>3, <2>4 DEF ReadPacket, NextIteration
<1>13. CASE ReadEof
    BY <1>13 DEF ReadEof, NextIteration
<1>14. CASE ReadFails
    BY <1>14 DEF ReadFails, NextIteration
<1> QED
    BY <1>1, <1>2, <1>3, <1>4, <1>5, <1>6, <1>7, <1>8, <1>9, <1>10, <1>11, <1>12, <1>13,
       <1>14 DEF Reader

LEMMA AudioType ==
    ASSUME TypeOK, Audio
    PROVE  TypeOK'
<1> USE DEF TypeOK, Marked, reader, marks, audio, video
<1>1. CASE AudioPop
    BY <1>1 DEF AudioPop
<1>2. CASE AudioClock
    BY <1>2, PacketTime DEF AudioClock
<1>3. CASE AudioTest
    BY <1>3 DEF AudioTest
<1>4. CASE AudioUnseek
    <2>1. hist' \in History
        BY <1>4, HistType, Zenon DEF AudioUnseek
    <2> QED
        BY <1>4, <2>1 DEF AudioUnseek
<1>5. CASE AudioPlay
    <2>1. hist' \in History
        BY <1>5, PlayedType DEF AudioPlay
    <2> QED
        BY <1>5, <2>1 DEF AudioPlay
<1> QED
    BY <1>1, <1>2, <1>3, <1>4, <1>5 DEF Audio

LEMMA VideoType ==
    ASSUME TypeOK, Video
    PROVE  TypeOK'
<1> USE DEF TypeOK, Marked, reader, marks, audio, video
<1>1. CASE VideoPop
    BY <1>1 DEF VideoPop
<1>2. CASE VideoClock
    BY <1>2, PacketTime DEF VideoClock
<1>3. CASE VideoDecode
    <2> DEFINE fed == Append(codec, vPkt)
    <2>1. vPkt \in Packet
        BY <1>3 DEF VideoDecode
    <2>2. fed \in Seq(Packet) /\ fed # <<>>
        BY <2>1, AppendedTo
    <2>3. Tail(fed) \in Seq(Packet) /\ Head(fed) \in Packet
        BY <2>2, HeadAndTail
    <2>4. codec' \in Seq(Packet)
        BY <1>3, <2>2, <2>3 DEF VideoDecode
    <2>5. /\ vpc' \in {"test", "idle"}
          /\ frame' \in IF vpc' = "test" THEN Packet ELSE {NoPkt}
        BY <1>3, <2>3 DEF VideoDecode
    <2> QED
        BY <1>3, <2>4, <2>5 DEF VideoDecode
<1>4. CASE VideoTest
    BY <1>4 DEF VideoTest
<1>5. CASE VideoUnseek
    <2>1. hist' \in History
        BY <1>5, HistType, Zenon DEF VideoUnseek
    <2> QED
        BY <1>5, <2>1 DEF VideoUnseek
<1>6. CASE VideoSync
    BY <1>6 DEF VideoSync
<1>7. CASE VideoEmit
    <2>1. hist' \in History
        BY <1>7, PlayedType DEF VideoEmit
    <2> QED
        BY <1>7, <2>1 DEF VideoEmit
<1> QED
    BY <1>1, <1>2, <1>3, <1>4, <1>5, <1>6, <1>7 DEF Video

LEMMA SetTimeType ==
    ASSUME TypeOK, NEW target \in Targets, SetTime(target)
    PROVE  TypeOK'
BY DEF TypeOK, History, Marked, reader, marks, audio, video, SetTime
-----------------------------------------------------------------------------
(***************************************************************************)
(* What the steps leave alone in the auxiliary record.                     *)
(***************************************************************************)
Sought(h) == <<h.epoch, h.start, h.aTarget, h.vTarget>>

LEMMA PlayedKeeps ==
    ASSUME hist \in History, NEW pkt
    PROVE  /\ Sought(WithPlayed(pkt)) = Sought(hist)
           /\ WithPlayed(pkt).aStolen = hist.aStolen
           /\ WithPlayed(pkt).vStolen = hist.vStolen
BY DEF History, Sought, WithPlayed

LEMMA StolenKeeps ==
    ASSUME hist \in History, NEW b \in BOOLEAN
    PROVE  LET ha == [hist EXCEPT !.aStolen = b]
               hv == [hist EXCEPT !.vStolen = b]
           IN  /\ Sought(ha) = Sought(hist) /\ ha.aStolen = b /\ ha.vStolen = hist.vStolen
               /\ Sought(hv) = Sought(hist) /\ hv.vStolen = b /\ hv.aStolen = hist.aStolen
BY DEF History, Sought

\* The decoders leave what was sought alone, and each the other's mark.
LEMMA AudioKeeps ==
    ASSUME TypeOK, Audio
    PROVE  Sought(hist') = Sought(hist) /\ hist'.vStolen = hist.vStolen
<1>1. hist \in History
    BY DEF TypeOK
<1>2. CASE AudioUnseek
    <2>1. hist' = [hist EXCEPT !.aStolen = hist.aStolen \/ aPkt.e # hist.epoch]
        BY <1>1, <1>2, Zenon DEF AudioUnseek
    <2> QED
        BY <1>1, <2>1, StolenKeeps, Zenon
<1>3. CASE AudioPlay
    BY <1>1, <1>3, PlayedKeeps DEF AudioPlay
<1>4. CASE hist' = hist
    BY <1>4
<1> QED
    BY <1>2, <1>3, <1>4 DEF Audio, AudioPop, AudioClock, AudioTest

LEMMA VideoKeeps ==
    ASSUME TypeOK, Video
    PROVE  Sought(hist') = Sought(hist) /\ hist'.aStolen = hist.aStolen
<1>1. hist \in History
    BY DEF TypeOK
<1>2. CASE VideoUnseek
    <2>1. hist' = [hist EXCEPT !.vStolen = hist.vStolen \/ LastSent.e # hist.epoch]
        BY <1>1, <1>2, Zenon DEF VideoUnseek
    <2> QED
        BY <1>1, <2>1, StolenKeeps, Zenon
<1>3. CASE VideoEmit
    BY <1>1, <1>3, PlayedKeeps DEF VideoEmit
<1>4. CASE hist' = hist
    BY <1>4
<1> QED
    BY <1>2, <1>3, <1>4 DEF Video, VideoPop, VideoClock, VideoDecode, VideoTest, VideoSync

\* Only seeking counts a seek or takes back what the decoders have done.
LEMMA ReaderKeeps ==
    ASSUME TypeOK, Reader
    PROVE  \/ \E p \in 1 .. Len(File) + 1 : Seek(p)
           \/ /\ hist'.epoch = hist.epoch
              /\ hist'.aStolen = hist.aStolen /\ hist'.vStolen = hist.vStolen
<1>1. hist \in History
    BY DEF TypeOK
<1>2. CASE MarkVideo
    BY <1>1, <1>2 DEF MarkVideo, History
<1>3. CASE MarkAudio
    BY <1>1, <1>3 DEF MarkAudio, History
<1>4. CASE hist' = hist
    BY <1>4
<1> QED
    BY <1>2, <1>3, <1>4 DEF Reader, LoopTop, SeekFails, Unmark, ResetAudioClock,
       ResetVideoClock, ClearAudio, ClearVideo, ReadSizes, ReadPacket, ReadEof, ReadFails

LEMMA SeekSets ==
    ASSUME TypeOK, NEW p, Seek(p)
    PROVE  /\ hist'.epoch = hist.epoch + 1 /\ hist'.start = p
           /\ hist'.aTarget = hist.aTarget /\ hist'.vTarget = hist.vTarget
           /\ ~hist'.aStolen /\ ~hist'.vStolen
BY DEF TypeOK, History, Seek

-----------------------------------------------------------------------------
(***************************************************************************)
(* The parts of the inductive invariant, one lemma for each.               *)
(***************************************************************************)
LEMMA CountStep ==
    ASSUME TypeOK, CountInv, Next
    PROVE  CountInv'
<1>1. hist.epoch \in 0 .. MaxSeeks /\ seeks \in 0 .. MaxSeeks /\ seekTime \in Marked
    BY DEF TypeOK, History
<1>2. ASSUME NEW target \in Targets, SetTime(target) PROVE CountInv'
    BY <1>1, <1>2 DEF SetTime, CountInv, reader
<1>3. CASE Audio
    <2>1. hist'.epoch = hist.epoch
        BY <1>3, AudioKeeps DEF Sought
    <2>2. UNCHANGED <<rpc, seekTime, seeks>>
        BY <1>3 DEF Audio, AudioPop, AudioClock, AudioTest, AudioUnseek, AudioPlay,
           reader, marks
    <2> QED
        BY <2>1, <2>2 DEF CountInv
<1>4. CASE Video
    <2>1. hist'.epoch = hist.epoch
        BY <1>4, VideoKeeps DEF Sought
    <2>2. UNCHANGED <<rpc, seekTime, seeks>>
        BY <1>4 DEF Video, VideoPop, VideoClock, VideoDecode, VideoTest, VideoUnseek,
           VideoSync, VideoEmit, reader, marks
    <2> QED
        BY <2>1, <2>2 DEF CountInv
<1>5. ASSUME NEW p \in 1 .. Len(File) + 1, Seek(p) PROVE CountInv'
    <2>1. rpc = "seek" /\ rpc' = "mark_v" /\ seeks' = seeks
        BY <1>5 DEF Seek
    <2>2. hist'.epoch = hist.epoch + 1
        BY <1>5, SeekSets
    <2>3. hist.epoch < seeks
        BY <2>1 DEF CountInv
    <2> QED
        BY <1>1, <2>1, <2>2, <2>3 DEF CountInv
<1>6. CASE Reader /\ hist'.epoch = hist.epoch
    <2> USE DEF CountInv, marks
    <2>1. CASE LoopTop
        BY <1>6, <2>1 DEF LoopTop
    <2>2. CASE SeekFails \/ Unmark
        BY <1>1, <1>6, <2>2 DEF SeekFails, Unmark
    <2>3. CASE MarkVideo \/ MarkAudio
        BY <1>6, <2>3 DEF MarkVideo, MarkAudio
    <2>4. CASE ResetAudioClock \/ ResetVideoClock \/ ClearAudio \/ ClearVideo
        BY <1>6, <2>4 DEF ResetAudioClock, ResetVideoClock, ClearAudio, ClearVideo
    <2>5. CASE ReadSizes \/ ReadPacket \/ ReadEof \/ ReadFails
        BY <1>6, <2>5 DEF ReadSizes, ReadPacket, ReadEof, ReadFails, NextIteration
    <2>6. ASSUME NEW p \in 1 .. Len(File) + 1, Seek(p) PROVE CountInv'
        BY <1>5, <2>6 DEF Reader
    <2> QED
        BY <1>6, <2>1, <2>2, <2>3, <2>4, <2>5, <2>6 DEF Reader
<1> QED
    BY <1>2, <1>3, <1>4, <1>5, <1>6, ReaderKeeps DEF Next

\* Between the reading of the sizes and the packet that is read the lists only shrink.
LEMMA BoundStep ==
    ASSUME TypeOK, BoundInv, Next
    PROVE  BoundInv'
<1> USE DEF BoundInv, QueuesBounded
<1>1. aList \in Seq(Packet) /\ vList \in Seq(Packet) /\ MaxPkt \in Nat \ {0}
    BY BoundsAssumption DEF TypeOK
<1>2. CASE AudioPop
    <2>1. Len(aList') = Len(aList) - 1
        BY <1>1, <1>2, HeadAndTail DEF AudioPop
    <2> QED
        BY <1>1, <1>2, <2>1 DEF AudioPop, reader
<1>3. CASE VideoPop
    <2>1. Len(vList') = Len(vList) - 1
        BY <1>1, <1>3, HeadAndTail DEF VideoPop
    <2> QED
        BY <1>1, <1>3, <2>1 DEF VideoPop, reader
<1>4. CASE ReadPacket
    <2> DEFINE pkt == [i |-> pos, e |-> hist.epoch]
    <2>1. pkt \in Packet
        <3>1. pos \in 1 .. Len(File) /\ hist.epoch \in 0 .. MaxSeeks
            BY <1>4 DEF ReadPacket, TypeOK, History
        <3> QED
            BY <3>1 DEF Packet
    <2>2. Len(Append(aList, pkt)) = Len(aList) + 1 /\ Len(Append(vList, pkt)) = Len(vList) + 1
        BY <1>1, <2>1, AppendedTo
    <2>3. /\ Len(aList') \in {Len(aList), Len(aList) + 1}
          /\ Len(vList') \in {Len(vList), Len(vList) + 1}
        BY <1>4, <2>2 DEF ReadPacket
    <2> QED
        BY <1>1, <1>4, <2>3 DEF ReadPacket, NextIteration
<1>5. CASE ClearAudio \/ ClearVideo
    BY <1>1, <1>5 DEF ClearAudio, ClearVideo
<1>6. CASE ReadSizes
    BY <1>1, <1>6 DEF ReadSizes, ListsFull, NextIteration
<1>7. CASE rpc' # "read" /\ UNCHANGED <<aList, vList>>
    BY <1>7
<1>8. CASE UNCHANGED <<rpc, aList, vList>>
    BY <1>8
<1>9. ASSUME NEW target \in Targets, SetTime(target) PROVE BoundInv'
    BY <1>8, <1>9 DEF SetTime, reader
<1>10. CASE Reader
    <2>1. ASSUME NEW p, Seek(p) PROVE BoundInv'
        BY <1>7, <2>1 DEF Seek
    <2> QED
        BY <1>4, <1>5, <1>6, <1>7, <1>10, <2>1 DEF Reader, LoopTop, SeekFails, MarkVideo,
           MarkAudio, Unmark, ResetAudioClock, ResetVideoClock, ReadEof, ReadFails,
           NextIteration
<1>11. CASE Audio
    BY <1>2, <1>8, <1>11 DEF Audio, AudioClock, AudioTest, AudioUnseek, AudioPlay, reader
<1>12. CASE Video
    BY <1>3, <1>8, <1>12 DEF Video, VideoClock, VideoDecode, VideoTest, VideoUnseek,
       VideoSync, VideoEmit, reader
<1> QED
    BY <1>9, <1>10, <1>11, <1>12 DEF Next

\* A list is emptied only after av_seek_frame has moved on, and what is read goes to the end.
LEMMA FreshStep ==
    ASSUME TypeOK, FreshInv, Next
    PROVE  FreshInv'
<1> USE DEF FreshInv
<1> DEFINE New(list, e) == \A k \in DOMAIN list : list[k].e = e
<1>1. aList \in Seq(Packet) /\ vList \in Seq(Packet) /\ hist.epoch \in 0 .. MaxSeeks
    BY DEF TypeOK, History
<1>2. CASE AudioPop
    <2>1. \A e : New(aList, e) => New(aList', e)
        BY <1>1, <1>2, HeadAndTail DEF AudioPop
    <2> QED
        BY <1>2, <2>1 DEF AudioPop, reader
<1>3. CASE VideoPop
    <2>1. \A e : New(vList, e) => New(vList', e)
        BY <1>1, <1>3, HeadAndTail DEF VideoPop
    <2> QED
        BY <1>3, <2>1 DEF VideoPop, reader
<1>4. CASE ReadPacket
    <2> DEFINE pkt == [i |-> pos, e |-> hist.epoch]
    <2>1. pkt \in Packet /\ pkt.e = hist.epoch
        <3>1. pos \in 1 .. Len(File)
            BY <1>4 DEF ReadPacket, TypeOK
        <3> QED
            BY <1>1, <3>1 DEF Packet
    <2>2. /\ New(aList, hist.epoch) => New(Append(aList, pkt), hist.epoch)
          /\ New(vList, hist.epoch) => New(Append(vList, pkt), hist.epoch)
        <3> HIDE DEF pkt
        <3> QED
            BY <1>1, <2>1, AppendedTo
    <2>3. New(aList, hist.epoch) /\ New(vList, hist.epoch)
        BY <1>4 DEF ReadPacket
    <2>4. hist' = hist /\ New(aList', hist.epoch) /\ New(vList', hist.epoch)
        BY <1>4, <2>2, <2>3 DEF ReadPacket
    <2> QED
        BY <2>4
<1>5. CASE hist'.epoch = hist.epoch /\ UNCHANGED <<rpc, aList, vList>>
    BY <1>5
<1>6. CASE Audio
    <2>1. hist'.epoch = hist.epoch
        BY <1>6, AudioKeeps DEF Sought
    <2> QED
        BY <1>2, <1>5, <1>6, <2>1 DEF Audio, AudioClock, AudioTest, AudioUnseek, AudioPlay,
           reader
<1>7. CASE Video
    <2>1. hist'.epoch = hist.epoch
        BY <1>7, VideoKeeps DEF Sought
    <2> QED
        BY <1>3, <1>5, <1>7, <2>1 DEF Video, VideoClock, VideoDecode, VideoTest, VideoUnseek,
           VideoSync, VideoEmit, reader
<1>8. ASSUME NEW target \in Targets, SetTime(target) PROVE FreshInv'
    BY <1>5, <1>8 DEF SetTime, reader
<1>9. ASSUME NEW p \in 1 .. Len(File) + 1, Seek(p) PROVE FreshInv'
    BY <1>9 DEF Seek
<1>10. CASE Reader /\ hist'.epoch = hist.epoch
    <2>1. CASE LoopTop \/ SeekFails
        BY <1>10, <2>1 DEF LoopTop, SeekFails
    <2>2. CASE MarkVideo \/ MarkAudio \/ Unmark \/ ResetAudioClock \/ ResetVideoClock
        BY <1>10, <2>2 DEF MarkVideo, MarkAudio, Unmark, ResetAudioClock, ResetVideoClock
    <2>3. CASE ClearAudio \/ ClearVideo
        BY <1>10, <2>3 DEF ClearAudio, ClearVideo
    <2>4. CASE ReadSizes \/ ReadEof \/ ReadFails
        BY <1>10, <2>4 DEF ReadSizes, ReadEof, ReadFails, NextIteration
    <2> QED
        BY <1>4, <1>9, <1>10, <2>1, <2>2, <2>3, <2>4 DEF Reader
<1> QED
    BY <1>6, <1>7, <1>8, <1>9, <1>10, ReaderKeeps DEF Next

-----------------------------------------------------------------------------
(***************************************************************************)
(* What the operations on a list do to the order of one stream, to the old *)
(* packets and to the late ones.                                           *)
(***************************************************************************)
LEMMA Popped ==
    ASSUME NEW list \in Seq(Packet), list # <<>>, NEW e, NEW next, NEW target,
           InOrder(list, {}, e, next)
    PROVE  /\ InOrder(Tail(list), {Head(list)}, e, next)
           /\ AllOld(list, {}, e) => AllOld(Tail(list), {Head(list)}, e)
           /\ AllLate(list, {}, e, next, target) =>
                 AllLate(Tail(list), {Head(list)}, e, next, target)
<1> DEFINE rest == Tail(list)
           first == Head(list)
<1>1. /\ rest \in Seq(Packet) /\ Len(rest) = Len(list) - 1
      /\ first = list[1] /\ 1 \in DOMAIN list
      /\ \A k \in DOMAIN rest : k + 1 \in DOMAIN list /\ rest[k] = list[k + 1]
    BY HeadAndTail
<1>2. /\ \A k \in DOMAIN rest : k \in Nat /\ 1 < k + 1
      /\ \A j, k \in DOMAIN rest : j < k => j + 1 < k + 1
    BY <1>1
<1> HIDE DEF rest, first
<1>3. InOrder(rest, {first}, e, next)
    BY <1>1, <1>2 DEF InOrder
<1>4. AllOld(list, {}, e) => AllOld(rest, {first}, e)
    BY <1>1 DEF AllOld
<1>5. AllLate(list, {}, e, next, target) => AllLate(rest, {first}, e, next, target)
    BY <1>1 DEF AllLate
<1> QED
    BY <1>3, <1>4, <1>5 DEF rest, first

LEMMA Dropped ==
    ASSUME NEW list, NEW hand, NEW e, NEW next, NEW target
    PROVE  /\ InOrder(list, hand, e, next) => InOrder(list, {}, e, next)
           /\ AllOld(list, hand, e) => AllOld(list, {}, e)
           /\ AllLate(list, hand, e, next, target) => AllLate(list, {}, e, next, target)
BY DEF InOrder, AllOld, AllLate

LEMMA Cleared ==
    ASSUME NEW list, NEW hand, NEW e, NEW next, NEW target
    PROVE  /\ InOrder(list, hand, e, next) => InOrder(<<>>, hand, e, next)
           /\ AllLate(list, hand, e, next, target) => AllLate(<<>>, hand, e, next, target)
BY DEF InOrder, AllLate

\* The packet that is read is the last in the order, and the next to read is after it.
LEMMA Appended ==
    ASSUME NEW list \in Seq(Packet), NEW hand \in SUBSET Packet, NEW e \in 0 .. MaxSeeks,
           NEW next \in 1 .. Len(File), NEW target, InOrder(list, hand, e, next)
    PROVE  /\ InOrder(Append(list, [i |-> next, e |-> e]), hand, e, next + 1)
           /\ InOrder(list, hand, e, next + 1)
           /\ AllLate(list, hand, e, next, target) =>
                 /\ AllLate(Append(list, [i |-> next, e |-> e]), hand, e, next + 1, target)
                 /\ AllLate(list, hand, e, next + 1, target)
<1> DEFINE pkt == [i |-> next, e |-> e]
           longer == Append(list, pkt)
<1>1. pkt \in Packet /\ pkt.i = next /\ pkt.e = e
    BY DEF Packet
<1>2. /\ longer \in Seq(Packet)
      /\ Len(longer) = Len(list) + 1 /\ longer[Len(list) + 1] = pkt
      /\ \A k \in DOMAIN longer :
            \/ k \in DOMAIN list /\ longer[k] = list[k]
            \/ k = Len(list) + 1
    BY <1>1, AppendedTo
<1>3. /\ \A k \in DOMAIN list : list[k].i \in Nat
      /\ \A p \in hand : p.i \in Nat
    BY PacketFields, ListFields
<1> HIDE DEF pkt, longer
<1>4. \A j \in DOMAIN longer : j # Len(list) + 1 => j \in DOMAIN list /\ longer[j] = list[j]
    BY <1>2
<1>5. \A j, k \in DOMAIN longer : j < k => j # Len(list) + 1
    BY <1>2
<1>6. InOrder(longer, hand, e, next + 1)
    <2>1. \A k \in DOMAIN longer : longer[k].e <= e
        BY <1>1, <1>2, <1>4 DEF InOrder
    <2>2. \A k \in DOMAIN longer : longer[k].e = e => longer[k].i < next + 1
        BY <1>1, <1>2, <1>3, <1>4 DEF InOrder
    <2>3. \A j, k \in DOMAIN longer :
             j < k /\ longer[j].e = e /\ longer[k].e = e => longer[j].i < longer[k].i
        BY <1>1, <1>2, <1>4, <1>5 DEF InOrder
    <2>4. \A p \in hand : p.e = e =>
             p.i < next + 1 /\ \A k \in DOMAIN longer : longer[k].e = e => p.i < longer[k].i
        BY <1>1, <1>2, <1>3, <1>4 DEF InOrder
    <2> QED
        BY <2>1, <2>2, <2>3, <2>4 DEF InOrder
<1>7. InOrder(list, hand, e, next + 1)
    BY <1>3 DEF InOrder
<1>8. ASSUME AllLate(list, hand, e, next, target)
      PROVE  AllLate(longer, hand, e, next + 1, target) /\ AllLate(list, hand, e, next + 1, target)
    <2>1. Time(pkt) >= target
        BY <1>1, <1>8 DEF AllLate, Time
    <2> QED
        <3>1. \A i \in next + 1 .. Len(File) : i \in next .. Len(File)
            <4>1. next \in Nat /\ Len(File) \in Nat
                OBVIOUS
            <4> HIDE FileAssumption
            <4> QED
                BY <4>1
        <3>2. \A k \in DOMAIN longer : longer[k].e = e => Time(longer[k]) >= target
            BY <1>2, <1>4, <1>8, <2>1 DEF AllLate
        <3> QED
            BY <1>8, <3>1, <3>2 DEF AllLate
<1> QED
    BY <1>6, <1>7, <1>8 DEF longer, pkt

\* With a new epoch all there is becomes old.
LEMMA AllBecomeOld ==
    ASSUME NEW list \in Seq(Packet), NEW hand \in SUBSET Packet, NEW e \in 0 .. MaxSeeks,
           NEW next, NEW p, InOrder(list, hand, e, next)
    PROVE  InOrder(list, hand, e + 1, p) /\ AllOld(list, hand, e + 1)
<1>1. /\ \A k \in DOMAIN list : list[k].e \in Nat /\ list[k].e <= e
      /\ \A pkt \in hand : pkt.e \in Nat /\ pkt.e <= e
    BY PacketFields, ListFields DEF InOrder
<1>2. AllOld(list, hand, e + 1)
    BY <1>1 DEF AllOld
<1> QED
    BY <1>1, <1>2 DEF AllOld, InOrder

\* The times of the file do not decrease: what comes after a late packet is late.
LEMMA LateFromHere ==
    ASSUME NEW list \in Seq(Packet), NEW pkt \in Packet, NEW e, NEW next \in Nat,
           NEW target \in Int, InOrder(list, {pkt}, e, next), pkt.e = e, Time(pkt) >= target
    PROVE  AllLate(list, {pkt}, e, next, target)
<1>1. ASSUME NEW i \in DOMAIN File, pkt.i < i PROVE File[i].t >= target
    <2>1. File[pkt.i].t <= File[i].t
        BY <1>1, PacketFields
    <2>2. File[i].t \in Nat /\ File[pkt.i].t \in Nat
        BY FileTime, PacketFields
    <2> QED
        BY <2>1, <2>2 DEF Time
<1>2. pkt.i < next /\ \A k \in DOMAIN list : list[k].e = e => pkt.i < list[k].i
    BY DEF InOrder
<1>3. ASSUME NEW i \in next .. Len(File) PROVE File[i].t >= target
    <2>1. i \in DOMAIN File /\ pkt.i < i
        BY <1>2, PacketFields
    <2> QED
        BY <1>1, <2>1
<1>4. ASSUME NEW k \in DOMAIN list, list[k].e = e PROVE Time(list[k]) >= target
    BY <1>1, <1>2, <1>4, ListFields DEF Time
<1> QED
    BY <1>3, <1>4 DEF AllLate

-----------------------------------------------------------------------------
(***************************************************************************)
(* The audio stream.                                                       *)
(***************************************************************************)
LEMMA AudioTypes ==
    ASSUME TypeOK
    PROVE  /\ aList \in Seq(Packet) /\ AudioHand \in SUBSET Packet
           /\ apc # "idle" => aPkt \in Packet
           /\ hist \in History /\ hist.epoch \in 0 .. MaxSeeks
           /\ pos \in 1 .. Len(File) + 1
           /\ aSeekTime \in Int /\ (aSeekTime >= 0 \/ aSeekTime = -1)
           /\ hist.aTarget \in Int /\ hist.aStolen \in BOOLEAN
           /\ aTime \in Nat
<1>1. \A m \in Marked : m \in Int /\ (m >= 0 \/ m = -1)
    BY DEF Marked
<1> QED
    BY <1>1 DEF TypeOK, History, AudioHand

\* A step that touches the audio stream in nothing.
LEMMA AudioQuiet ==
    ASSUME AudioInv, UNCHANGED <<pos, aList, apc, aPkt, aSeekTime, aTime>>,
           hist'.epoch = hist.epoch, hist'.aTarget = hist.aTarget,
           hist'.aStolen = hist.aStolen,
           rpc' \in AudioClearing => rpc \in AudioClearing,
           rpc \in AudioUnmarked => rpc' \in AudioUnmarked
    PROVE  AudioInv'
<1>1. AudioHand' = AudioHand
    BY DEF AudioHand
<1>2. aPkt' = aPkt /\ Time(aPkt') = Time(aPkt)
    BY DEF Time
<1> QED
    BY <1>1, <1>2 DEF AudioInv

LEMMA AudioReaderStep ==
    ASSUME TypeOK, AudioInv, Reader
    PROVE  AudioInv'
<1> USE DEF AudioClearing, AudioUnmarked, marks, audio
<1>1. CASE LoopTop \/ SeekFails \/ Unmark
    BY <1>1, AudioQuiet DEF LoopTop, SeekFails, Unmark
<1>2. CASE ResetVideoClock \/ ClearVideo
    BY <1>2, AudioQuiet DEF ResetVideoClock, ClearVideo
<1>3. CASE ReadSizes \/ ReadEof \/ ReadFails
    BY <1>3, AudioQuiet DEF ReadSizes, ReadEof, ReadFails, NextIteration
<1>4. CASE MarkVideo
    <2>1. /\ hist'.epoch = hist.epoch /\ hist'.aTarget = hist.aTarget
          /\ hist'.aStolen = hist.aStolen
        BY <1>4, AudioTypes DEF MarkVideo, History
    <2> QED
        BY <1>4, <2>1, AudioQuiet DEF MarkVideo
<1>5. ASSUME NEW p \in 1 .. Len(File) + 1, Seek(p) PROVE AudioInv'
    <2>1. hist'.epoch = hist.epoch + 1
        BY <1>5, SeekSets
    <2>2. /\ InOrder(aList, AudioHand, hist.epoch + 1, p)
          /\ AllOld(aList, AudioHand, hist.epoch + 1)
        BY AudioTypes, AllBecomeOld DEF AudioInv
    <2>3. /\ rpc' = "mark_v" /\ pos' = p /\ aList' = aList
          /\ apc' = apc /\ aPkt' = aPkt /\ AudioHand' = AudioHand
        BY <1>5 DEF Seek, AudioHand
    <2>4. apc # "idle" => aPkt.e # hist.epoch + 1
        BY <2>2 DEF AllOld, AudioHand
    <2> QED
        BY <2>1, <2>2, <2>3, <2>4 DEF AudioInv
<1>6. CASE MarkAudio
    <2>1. /\ hist'.epoch = hist.epoch /\ hist'.aTarget = seekTime
          /\ hist'.aStolen = hist.aStolen
        BY <1>6, AudioTypes DEF MarkAudio, History
    <2>2. /\ rpc = "mark_a" /\ rpc' = "unmark" /\ aSeekTime' = hist'.aTarget
          /\ UNCHANGED <<pos, aList, apc, aPkt, aTime>> /\ AudioHand' = AudioHand
        BY <1>6, <2>1 DEF MarkAudio, AudioHand
    <2>3. apc # "idle" => aPkt.e # hist.epoch
        BY <2>2 DEF AudioInv, AllOld, AudioHand
    <2> QED
        BY <2>1, <2>2, <2>3 DEF AudioInv
<1>7. CASE ResetAudioClock
    <2>1. /\ rpc = "reset_a" /\ rpc' = "reset_v"
          /\ UNCHANGED <<pos, aList, apc, aPkt, aSeekTime, hist>> /\ AudioHand' = AudioHand
        BY <1>7 DEF ResetAudioClock, AudioHand
    <2>2. apc # "idle" => aPkt.e # hist.epoch
        BY <2>1 DEF AudioInv, AllOld, AudioHand
    <2> QED
        BY <2>1, <2>2 DEF AudioInv
<1>8. CASE ClearAudio
    <2>1. /\ rpc = "clear_a" /\ rpc' = "clear_v" /\ aList' = <<>>
          /\ UNCHANGED <<pos, apc, aPkt, aSeekTime, aTime, hist>> /\ AudioHand' = AudioHand
        BY <1>8 DEF ClearAudio, AudioHand
    <2>2. Time(aPkt') = Time(aPkt)
        BY <2>1 DEF Time
    <2> QED
        BY <2>1, <2>2, Cleared DEF AudioInv
<1>9. CASE ReadPacket
    <2> DEFINE longer == Append(aList, [i |-> pos, e |-> hist.epoch])
    <2>1. /\ rpc = "read" /\ rpc' = "top" /\ pos \in 1 .. Len(File) /\ pos' = pos + 1
          /\ aList' = longer \/ aList' = aList
          /\ UNCHANGED <<apc, aPkt, aSeekTime, aTime, hist>> /\ AudioHand' = AudioHand
        BY <1>9, AudioTypes DEF ReadPacket, NextIteration, AudioHand
    <2>2. Time(aPkt') = Time(aPkt)
        BY <2>1 DEF Time
    <2>3. InOrder(aList, AudioHand, hist.epoch, pos)
        BY DEF AudioInv
    <2> HIDE DEF longer
    <2>4. /\ InOrder(longer, AudioHand, hist.epoch, pos + 1)
          /\ InOrder(aList, AudioHand, hist.epoch, pos + 1)
          /\ AllLate(aList, AudioHand, hist.epoch, pos, hist.aTarget) =>
                /\ AllLate(longer, AudioHand, hist.epoch, pos + 1, hist.aTarget)
                /\ AllLate(aList, AudioHand, hist.epoch, pos + 1, hist.aTarget)
        <3>1. pos \in 1 .. Len(File)
            BY <2>1
        <3> QED
            BY <2>3, <3>1, AudioTypes, Appended DEF longer
    <2>5. /\ InOrder(aList', AudioHand, hist.epoch, pos + 1)
          /\ AllLate(aList, AudioHand, hist.epoch, pos, hist.aTarget) =>
                AllLate(aList', AudioHand, hist.epoch, pos + 1, hist.aTarget)
        BY <2>1, <2>4
    <2> QED
        BY <2>1, <2>2, <2>5 DEF AudioInv
<1> QED
    BY <1>1, <1>2, <1>3, <1>4, <1>5, <1>6, <1>7, <1>8, <1>9 DEF Reader

LEMMA AudioDecoderStep ==
    ASSUME TypeOK, AudioInv, Audio
    PROVE  AudioInv'
<1>1. /\ hist'.epoch = hist.epoch /\ hist'.aTarget = hist.aTarget
      /\ rpc' = rpc /\ pos' = pos
    <2>1. rpc' = rpc /\ pos' = pos
        BY DEF Audio, AudioPop, AudioClock, AudioTest, AudioUnseek, AudioPlay, reader
    <2> QED
        BY <2>1, AudioKeeps DEF Sought
<1> USE DEF marks
<1>2. CASE AudioPop
    <2>1. /\ apc = "idle" /\ AudioHand = {} /\ apc' = "clock" /\ AudioHand' = {Head(aList)}
          /\ aList # <<>> /\ aList' = Tail(aList)
          /\ UNCHANGED <<aSeekTime, hist>>
        BY <1>2 DEF AudioPop, AudioHand
    <2>2. InOrder(aList, {}, hist.epoch, pos)
        BY <2>1 DEF AudioInv
    <2>3. /\ InOrder(aList', AudioHand', hist.epoch, pos)
          /\ AllOld(aList, {}, hist.epoch) => AllOld(aList', AudioHand', hist.epoch)
          /\ AllLate(aList, {}, hist.epoch, pos, hist.aTarget) =>
                AllLate(aList', AudioHand', hist.epoch, pos, hist.aTarget)
        BY <2>1, <2>2, AudioTypes, Popped
    <2> QED
        BY <1>1, <2>1, <2>3 DEF AudioInv
<1>3. CASE AudioClock
    <2>1. /\ apc = "clock" /\ apc' = "test" /\ aTime' = Time(aPkt)
          /\ UNCHANGED <<aList, aPkt, aSeekTime, hist>> /\ AudioHand' = AudioHand
        BY <1>3 DEF AudioClock, AudioHand
    <2>2. Time(aPkt') = Time(aPkt)
        BY <2>1 DEF Time
    <2> QED
        BY <1>1, <2>1, <2>2 DEF AudioInv
<1>4. CASE AudioTest /\ apc' = "idle"
    <2>1. /\ AudioHand' = {} /\ UNCHANGED <<aList, aSeekTime, hist>>
        BY <1>4 DEF AudioTest, AudioHand
    <2> QED
        BY <1>1, <1>4, <2>1, Dropped DEF AudioInv
<1>5. CASE AudioTest /\ apc' # "idle"
    <2>1. /\ apc = "test" /\ apc' \in {"unseek", "play"} /\ ~(aSeekTime >= 0 /\ aTime < aSeekTime)
          /\ UNCHANGED <<aList, aPkt, aSeekTime, aTime, hist>> /\ AudioHand' = AudioHand
        BY <1>5 DEF AudioTest, AudioHand
    <2>2. ASSUME aPkt.e = hist.epoch, ~hist.aStolen
          PROVE  Time(aPkt) >= hist.aTarget
        <3>1. rpc \notin AudioUnmarked
            <4>1. AudioHand = {aPkt}
                BY <2>1 DEF AudioHand
            <4>2. rpc \notin AudioClearing
                BY <2>2, <4>1 DEF AudioInv, AllOld
            <4> QED
                BY <4>2 DEF AudioClearing, AudioUnmarked
        <3>2. aTime = Time(aPkt) /\ aSeekTime \in {-1, hist.aTarget}
            BY <2>1, <2>2, <3>1 DEF AudioInv
        <3>3. CASE aSeekTime = hist.aTarget
            BY <2>1, <3>2, <3>3, AudioTypes
        <3>4. CASE aSeekTime # hist.aTarget
            BY <2>1, <2>2, <3>1, <3>4 DEF AudioInv, AllLate, AudioHand
        <3> QED
            BY <3>3, <3>4
    <2>3. Time(aPkt') = Time(aPkt)
        BY <2>1 DEF Time
    <2> QED
        BY <1>1, <2>1, <2>2, <2>3 DEF AudioInv
<1>6. CASE AudioUnseek
    <2>1. /\ apc = "unseek" /\ apc' = "play" /\ aSeekTime' = -1
          /\ UNCHANGED <<aList, aPkt, aTime>> /\ AudioHand' = AudioHand /\ AudioHand = {aPkt}
        BY <1>6 DEF AudioUnseek, AudioHand
    <2>2. ~hist'.aStolen => ~hist.aStolen /\ aPkt.e = hist.epoch
        <3>1. hist' = [hist EXCEPT !.aStolen = hist.aStolen \/ aPkt.e # hist.epoch]
            BY <1>6, Zenon DEF AudioUnseek
        <3>2. hist'.aStolen = (hist.aStolen \/ aPkt.e # hist.epoch)
            BY <3>1, AudioTypes, StolenKeeps, Zenon
        <3> QED
            BY <3>2, Zenon
    <2>3. Time(aPkt') = Time(aPkt)
        BY <2>1 DEF Time
    <2>4. ASSUME ~hist'.aStolen PROVE AllLate(aList, AudioHand, hist.epoch, pos, hist.aTarget)
        <3>1. Time(aPkt) >= hist.aTarget /\ InOrder(aList, {aPkt}, hist.epoch, pos)
            BY <2>1, <2>2, <2>4 DEF AudioInv
        <3> QED
            <4>1. pos \in Nat /\ aPkt \in Packet /\ aPkt.e = hist.epoch
                BY <2>1, <2>2, <2>4, AudioTypes
            <4> QED
                BY <2>1, <3>1, <4>1, AudioTypes, LateFromHere
    <2> QED
        BY <1>1, <2>1, <2>2, <2>3, <2>4 DEF AudioInv
<1>7. CASE AudioPlay
    <2>1. /\ AudioHand' = {} /\ apc' = "idle" /\ UNCHANGED <<aList, aSeekTime>>
        BY <1>7 DEF AudioPlay, AudioHand
    <2>2. hist'.aStolen = hist.aStolen
        BY <1>7, AudioTypes, PlayedKeeps DEF AudioPlay
    <2> QED
        BY <1>1, <2>1, <2>2, Dropped DEF AudioInv
<1> QED
    BY <1>2, <1>3, <1>4, <1>5, <1>6, <1>7 DEF Audio

LEMMA AudioStep ==
    ASSUME TypeOK, AudioInv, Next
    PROVE  AudioInv'
<1>1. CASE Video
    <2>1. UNCHANGED <<rpc, pos, aList, apc, aPkt, aSeekTime, aTime>>
        BY <1>1 DEF Video, VideoPop, VideoClock, VideoDecode, VideoTest, VideoUnseek,
           VideoSync, VideoEmit, reader, marks, audio
    <2>2. /\ hist'.epoch = hist.epoch /\ hist'.aTarget = hist.aTarget
          /\ hist'.aStolen = hist.aStolen
        BY <1>1, VideoKeeps DEF Sought
    <2> QED
        BY <2>1, <2>2, AudioQuiet
<1>2. ASSUME NEW target \in Targets, SetTime(target) PROVE AudioInv'
    BY <1>2, AudioQuiet DEF SetTime, reader, audio
<1> QED
    BY <1>1, <1>2, AudioReaderStep, AudioDecoderStep DEF Next

-----------------------------------------------------------------------------
(***************************************************************************)
(* The video stream: the same argument, about the packet last given to the *)
(* codec.                                                                  *)
(***************************************************************************)
LEMMA LastSentType ==
    ASSUME TypeOK, vpc \in {"test", "unseek", "sync", "emit"}
    PROVE  LastSent \in Packet
<1>1. codec \in Seq(Packet) /\ frame \in Packet
    BY DEF TypeOK
<1>2. codec # <<>> => Len(codec) \in DOMAIN codec
    BY <1>1
<1> QED
    BY <1>1, <1>2, ElementOf DEF LastSent

LEMMA VideoTypes ==
    ASSUME TypeOK
    PROVE  /\ vList \in Seq(Packet) /\ VideoHand \in SUBSET Packet
           /\ vpc # "idle" => VideoPkt \in Packet /\ VideoHand = {VideoPkt}
           /\ hist \in History /\ hist.epoch \in 0 .. MaxSeeks
           /\ pos \in 1 .. Len(File) + 1
           /\ vSeekTime \in Int /\ (vSeekTime >= 0 \/ vSeekTime = -1)
           /\ hist.vTarget \in Int /\ hist.vStolen \in BOOLEAN
           /\ vTime \in Nat
<1>1. \A m \in Marked : m \in Int /\ (m >= 0 \/ m = -1)
    BY DEF Marked
<1>2. vpc # "idle" => VideoPkt \in Packet
    BY LastSentType DEF TypeOK, VideoPkt
<1>3. vpc # "idle" => VideoHand = {VideoPkt}
    BY DEF VideoHand
<1>4. VideoHand \in SUBSET Packet
    BY <1>2 DEF VideoHand
<1> QED
    BY <1>1, <1>2, <1>3, <1>4 DEF TypeOK, History

\* A step that touches the video stream in nothing.
LEMMA VideoQuiet ==
    ASSUME VideoInv, UNCHANGED <<pos, vList, vpc, vPkt, codec, frame, vSeekTime, vTime>>,
           hist'.epoch = hist.epoch, hist'.vTarget = hist.vTarget,
           hist'.vStolen = hist.vStolen,
           rpc' \in VideoClearing => rpc \in VideoClearing,
           rpc \in VideoUnmarked => rpc' \in VideoUnmarked
    PROVE  VideoInv'
<1>1. VideoPkt' = VideoPkt
    BY DEF VideoPkt, LastSent
<1>2. VideoHand' = VideoHand
    BY <1>1 DEF VideoHand
<1>3. Time(VideoPkt') = Time(VideoPkt)
    BY <1>1 DEF Time
<1> QED
    BY <1>1, <1>2, <1>3 DEF VideoInv

LEMMA VideoReaderStep ==
    ASSUME TypeOK, VideoInv, Reader
    PROVE  VideoInv'
<1> USE DEF VideoClearing, AudioClearing, VideoUnmarked, marks, video
<1> DEFINE Same == UNCHANGED <<vpc, vPkt, codec, frame>>
<1>a. ASSUME Same PROVE /\ VideoPkt' = VideoPkt /\ VideoHand' = VideoHand
                        /\ Time(VideoPkt') = Time(VideoPkt)
    <2>1. VideoPkt' = VideoPkt
        BY <1>a DEF VideoPkt, LastSent
    <2> QED
        BY <1>a, <2>1 DEF VideoHand, Time
<1>1. CASE LoopTop \/ SeekFails \/ Unmark
    BY <1>1, VideoQuiet DEF LoopTop, SeekFails, Unmark
<1>2. CASE ResetAudioClock \/ ClearAudio
    BY <1>2, VideoQuiet DEF ResetAudioClock, ClearAudio
<1>3. CASE ReadSizes \/ ReadEof \/ ReadFails
    BY <1>3, VideoQuiet DEF ReadSizes, ReadEof, ReadFails, NextIteration
<1>4. CASE MarkAudio
    <2>1. /\ hist'.epoch = hist.epoch /\ hist'.vTarget = hist.vTarget
          /\ hist'.vStolen = hist.vStolen
        BY <1>4, VideoTypes DEF MarkAudio, History
    <2> QED
        BY <1>4, <2>1, VideoQuiet DEF MarkAudio
<1>5. ASSUME NEW p \in 1 .. Len(File) + 1, Seek(p) PROVE VideoInv'
    <2>1. hist'.epoch = hist.epoch + 1
        BY <1>5, SeekSets
    <2>2. /\ InOrder(vList, VideoHand, hist.epoch + 1, p)
          /\ AllOld(vList, VideoHand, hist.epoch + 1)
        BY VideoTypes, AllBecomeOld DEF VideoInv
    <2>3. /\ rpc' = "mark_v" /\ pos' = p /\ vList' = vList /\ vpc' = vpc
          /\ VideoPkt' = VideoPkt /\ VideoHand' = VideoHand
        BY <1>5, <1>a DEF Seek
    <2>4. vpc # "idle" => VideoPkt.e # hist.epoch + 1
        BY <2>2, VideoTypes DEF AllOld
    <2> QED
        BY <2>1, <2>2, <2>3, <2>4 DEF VideoInv
<1>6. CASE MarkVideo
    <2>1. /\ hist'.epoch = hist.epoch /\ hist'.vTarget = seekTime
          /\ hist'.vStolen = hist.vStolen
        BY <1>6, VideoTypes DEF MarkVideo, History
    <2>2. /\ rpc = "mark_v" /\ rpc' = "mark_a" /\ vSeekTime' = hist'.vTarget
          /\ UNCHANGED <<pos, vList, vpc, vTime>>
          /\ VideoPkt' = VideoPkt /\ VideoHand' = VideoHand
        BY <1>6, <1>a, <2>1 DEF MarkVideo
    <2>3. vpc # "idle" => VideoPkt.e # hist.epoch
        BY <2>2, VideoTypes DEF VideoInv, AllOld
    <2> QED
        BY <2>1, <2>2, <2>3 DEF VideoInv
<1>7. CASE ResetVideoClock
    <2>1. /\ rpc = "reset_v" /\ rpc' = "clear_a"
          /\ UNCHANGED <<pos, vList, vpc, vSeekTime, hist>>
          /\ VideoPkt' = VideoPkt /\ VideoHand' = VideoHand
        BY <1>7, <1>a DEF ResetVideoClock
    <2>2. vpc # "idle" => VideoPkt.e # hist.epoch
        BY <2>1, VideoTypes DEF VideoInv, AllOld
    <2> QED
        BY <2>1, <2>2 DEF VideoInv
<1>8. CASE ClearVideo
    <2>1. /\ rpc = "clear_v" /\ rpc' = "sizes" /\ vList' = <<>>
          /\ UNCHANGED <<pos, vpc, vSeekTime, vTime, hist>>
          /\ VideoPkt' = VideoPkt /\ VideoHand' = VideoHand /\ Time(VideoPkt') = Time(VideoPkt)
        BY <1>8, <1>a DEF ClearVideo
    <2> QED
        BY <2>1, Cleared DEF VideoInv
<1>9. CASE ReadPacket
    <2> DEFINE longer == Append(vList, [i |-> pos, e |-> hist.epoch])
    <2>1. /\ rpc = "read" /\ rpc' = "top" /\ pos \in 1 .. Len(File) /\ pos' = pos + 1
          /\ vList' = longer \/ vList' = vList
          /\ UNCHANGED <<vpc, vSeekTime, vTime, hist>>
        BY <1>9, VideoTypes DEF ReadPacket, NextIteration
    <2>2. VideoPkt' = VideoPkt /\ VideoHand' = VideoHand /\ Time(VideoPkt') = Time(VideoPkt)
        BY <1>9, <1>a DEF ReadPacket
    <2>3. InOrder(vList, VideoHand, hist.epoch, pos)
        BY DEF VideoInv
    <2> HIDE DEF longer
    <2>4. /\ InOrder(longer, VideoHand, hist.epoch, pos + 1)
          /\ InOrder(vList, VideoHand, hist.epoch, pos + 1)
          /\ AllLate(vList, VideoHand, hist.epoch, pos, hist.vTarget) =>
                /\ AllLate(longer, VideoHand, hist.epoch, pos + 1, hist.vTarget)
                /\ AllLate(vList, VideoHand, hist.epoch, pos + 1, hist.vTarget)
        <3>1. pos \in 1 .. Len(File)
            BY <2>1
        <3> QED
            BY <2>3, <3>1, VideoTypes, Appended DEF longer
    <2>5. /\ InOrder(vList', VideoHand, hist.epoch, pos + 1)
          /\ AllLate(vList, VideoHand, hist.epoch, pos, hist.vTarget) =>
                AllLate(vList', VideoHand, hist.epoch, pos + 1, hist.vTarget)
        BY <2>1, <2>4
    <2> QED
        BY <2>1, <2>2, <2>5 DEF VideoInv
<1> QED
    BY <1>1, <1>2, <1>3, <1>4, <1>5, <1>6, <1>7, <1>8, <1>9 DEF Reader

\* The packet that was given to the codec is the one last sent.
LEMMA DecodeSends ==
    ASSUME TypeOK, VideoDecode, vpc' # "idle"
    PROVE  LastSent' = vPkt
<1> DEFINE fed == Append(codec, vPkt)
<1>1. codec \in Seq(Packet) /\ vPkt \in Packet
    BY DEF TypeOK, VideoDecode
<1>2. /\ fed \in Seq(Packet) /\ fed # <<>> /\ Len(fed) = Len(codec) + 1
      /\ fed[Len(codec) + 1] = vPkt
    BY <1>1, AppendedTo
<1>3. codec' = Tail(fed) /\ frame' = Head(fed)
    BY DEF VideoDecode
<1> HIDE DEF fed
<1>4. /\ codec' \in Seq(Packet) /\ Len(codec') = Len(codec) /\ frame' = fed[1]
      /\ \A k \in DOMAIN codec' : codec'[k] = fed[k + 1]
    BY <1>1, <1>2, <1>3, HeadAndTail
<1>5. CASE codec' = <<>>
    BY <1>1, <1>2, <1>4, <1>5 DEF LastSent
<1>6. CASE codec' # <<>>
    <2>1. Len(codec') \in DOMAIN codec'
        BY <1>4, <1>6
    <2> QED
        BY <1>1, <1>2, <1>4, <1>6, <2>1 DEF LastSent
<1> QED
    BY <1>5, <1>6

LEMMA VideoDecoderStep ==
    ASSUME TypeOK, VideoInv, Video
    PROVE  VideoInv'
<1>1. /\ hist'.epoch = hist.epoch /\ hist'.vTarget = hist.vTarget
      /\ rpc' = rpc /\ pos' = pos
    <2>1. rpc' = rpc /\ pos' = pos
        BY DEF Video, VideoPop, VideoClock, VideoDecode, VideoTest, VideoUnseek, VideoSync,
           VideoEmit, reader
    <2> QED
        BY <2>1, VideoKeeps DEF Sought
<1> USE DEF marks
<1>2. CASE VideoPop
    <2>1. /\ vpc = "idle" /\ VideoHand = {} /\ vpc' = "clock" /\ VideoHand' = {Head(vList)}
          /\ vList # <<>> /\ vList' = Tail(vList)
          /\ UNCHANGED <<vSeekTime, hist>>
        BY <1>2 DEF VideoPop, VideoHand, VideoPkt
    <2>2. InOrder(vList, {}, hist.epoch, pos)
        BY <2>1 DEF VideoInv
    <2>3. /\ InOrder(vList', VideoHand', hist.epoch, pos)
          /\ AllOld(vList, {}, hist.epoch) => AllOld(vList', VideoHand', hist.epoch)
          /\ AllLate(vList, {}, hist.epoch, pos, hist.vTarget) =>
                AllLate(vList', VideoHand', hist.epoch, pos, hist.vTarget)
        BY <2>1, <2>2, VideoTypes, Popped
    <2> QED
        BY <1>1, <2>1, <2>3 DEF VideoInv
<1>3. CASE VideoClock
    <2>1. /\ vpc = "clock" /\ vpc' = "decode" /\ vTime' = Time(vPkt)
          /\ UNCHANGED <<vList, vPkt, vSeekTime, hist>>
          /\ VideoPkt = vPkt /\ VideoPkt' = vPkt
        BY <1>3 DEF VideoClock, VideoPkt
    <2>2. VideoHand' = VideoHand /\ Time(VideoPkt') = Time(vPkt)
        BY <2>1 DEF Time, VideoHand
    <2> QED
        BY <1>1, <2>1, <2>2 DEF VideoInv
<1>4. CASE VideoDecode /\ vpc' # "idle"
    <2>1. /\ vpc = "decode" /\ vpc' = "test" /\ UNCHANGED <<vList, vSeekTime, vTime, hist>>
        BY <1>4 DEF VideoDecode
    <2>2. VideoPkt = vPkt /\ VideoPkt' = vPkt
        BY <1>4, <2>1, DecodeSends DEF VideoPkt
    <2>3. VideoHand' = VideoHand /\ Time(VideoPkt') = Time(VideoPkt)
        BY <2>1, <2>2 DEF Time, VideoHand
    <2> QED
        BY <1>1, <2>1, <2>2, <2>3 DEF VideoInv
<1>5. CASE VideoTest /\ vpc' # "idle"
    <2>1. /\ vpc = "test" /\ vpc' \in {"unseek", "sync"} /\ ~(vSeekTime >= 0 /\ vTime < vSeekTime)
          /\ UNCHANGED <<vList, codec, frame, vSeekTime, vTime, hist>>
        BY <1>5 DEF VideoTest
    <2>2. VideoPkt' = VideoPkt
        BY <2>1 DEF VideoPkt, LastSent
    <2>3. VideoHand' = VideoHand /\ Time(VideoPkt') = Time(VideoPkt)
        BY <2>1, <2>2 DEF Time, VideoHand
    <2>4. ASSUME VideoPkt.e = hist.epoch, ~hist.vStolen
          PROVE  Time(VideoPkt) >= hist.vTarget
        <3>1. VideoHand = {VideoPkt}
            BY <2>1 DEF VideoHand
        <3>2. rpc \notin VideoUnmarked
            <4>1. rpc \notin VideoClearing
                BY <2>4, <3>1 DEF VideoInv, AllOld
            <4> QED
                BY <4>1 DEF VideoClearing, AudioClearing, VideoUnmarked
        <3>3. vTime = Time(VideoPkt) /\ vSeekTime \in {-1, hist.vTarget}
            BY <2>1, <2>4, <3>2 DEF VideoInv
        <3>4. CASE vSeekTime = hist.vTarget
            BY <2>1, <3>3, <3>4, VideoTypes
        <3>5. CASE vSeekTime # hist.vTarget
            BY <2>4, <3>1, <3>2, <3>5 DEF VideoInv, AllLate
        <3> QED
            BY <3>4, <3>5
    <2> QED
        BY <1>1, <2>1, <2>2, <2>3, <2>4 DEF VideoInv
<1>6. CASE VideoUnseek
    <2>1. /\ vpc = "unseek" /\ vpc' = "sync" /\ vSeekTime' = -1
          /\ UNCHANGED <<vList, codec, frame, vTime>> /\ VideoHand = {VideoPkt}
          /\ VideoPkt = LastSent
        BY <1>6 DEF VideoUnseek, VideoHand, VideoPkt
    <2>2. VideoPkt' = VideoPkt
        BY <2>1 DEF VideoPkt, LastSent
    <2>3. VideoHand' = VideoHand /\ Time(VideoPkt') = Time(VideoPkt)
        BY <2>1, <2>2 DEF Time, VideoHand
    <2>4. ~hist'.vStolen => ~hist.vStolen /\ VideoPkt.e = hist.epoch
        <3>1. hist' = [hist EXCEPT !.vStolen = hist.vStolen \/ VideoPkt.e # hist.epoch]
            BY <1>6, <2>1, Zenon DEF VideoUnseek
        <3>2. hist'.vStolen = (hist.vStolen \/ VideoPkt.e # hist.epoch)
            BY <3>1, VideoTypes, StolenKeeps, Zenon
        <3> QED
            BY <3>2, Zenon
    <2>5. ASSUME ~hist'.vStolen PROVE AllLate(vList, VideoHand, hist.epoch, pos, hist.vTarget)
        <3>1. Time(VideoPkt) >= hist.vTarget /\ InOrder(vList, {VideoPkt}, hist.epoch, pos)
            BY <2>1, <2>4, <2>5 DEF VideoInv
        <3>2. pos \in Nat /\ VideoPkt \in Packet /\ VideoPkt.e = hist.epoch
            BY <2>1, <2>4, <2>5, VideoTypes
        <3> QED
            BY <2>1, <3>1, <3>2, VideoTypes, LateFromHere
    <2> QED
        BY <1>1, <2>1, <2>2, <2>3, <2>4, <2>5 DEF VideoInv
<1>7. CASE VideoSync
    <2>1. /\ vpc = "sync" /\ vpc' = "emit"
          /\ UNCHANGED <<vList, codec, frame, vSeekTime, vTime, hist>>
        BY <1>7 DEF VideoSync
    <2>2. VideoPkt' = VideoPkt
        BY <2>1 DEF VideoPkt, LastSent
    <2>3. VideoHand' = VideoHand /\ Time(VideoPkt') = Time(VideoPkt)
        BY <2>1, <2>2 DEF Time, VideoHand
    <2> QED
        BY <1>1, <2>1, <2>2, <2>3 DEF VideoInv
<1>8. CASE (VideoDecode \/ VideoTest \/ VideoEmit) /\ vpc' = "idle"
    <2>1. VideoHand' = {} /\ UNCHANGED <<vList, vSeekTime>>
        BY <1>8 DEF VideoDecode, VideoTest, VideoEmit, VideoHand
    <2>2. hist'.vStolen = hist.vStolen
        BY <1>8, VideoTypes, PlayedKeeps DEF VideoDecode, VideoTest, VideoEmit
    <2> QED
        BY <1>1, <1>8, <2>1, <2>2, Dropped DEF VideoInv
<1>9. VideoEmit => vpc' = "idle"
    BY DEF VideoEmit
<1> QED
    BY <1>2, <1>3, <1>4, <1>5, <1>6, <1>7, <1>8, <1>9 DEF Video

LEMMA VideoStep ==
    ASSUME TypeOK, VideoInv, Next
    PROVE  VideoInv'
<1>1. CASE Audio
    <2>1. UNCHANGED <<rpc, pos, vList, vpc, vPkt, codec, frame, vSeekTime, vTime>>
        BY <1>1 DEF Audio, AudioPop, AudioClock, AudioTest, AudioUnseek, AudioPlay,
           reader, marks, video
    <2>2. /\ hist'.epoch = hist.epoch /\ hist'.vTarget = hist.vTarget
          /\ hist'.vStolen = hist.vStolen
        BY <1>1, AudioKeeps DEF Sought
    <2> QED
        BY <2>1, <2>2, VideoQuiet
<1>2. ASSUME NEW target \in Targets, SetTime(target) PROVE VideoInv'
    BY <1>2, VideoQuiet DEF SetTime, reader, video
<1> QED
    BY <1>1, <1>2, VideoReaderStep, VideoDecoderStep DEF Next

-----------------------------------------------------------------------------
(***************************************************************************)
(* The theorems about types, limits and seeks.                             *)
(***************************************************************************)
Inv == TypeOK /\ SeekInv

LEMMA Stuttering == Inv /\ UNCHANGED vars => Inv'
<1> SUFFICES ASSUME Inv, UNCHANGED vars PROVE Inv'
    OBVIOUS
<1> USE DEF Inv, SeekInv, vars, reader, marks, audio, video
<1>1. TypeOK' /\ CountInv' /\ BoundInv' /\ FreshInv'
    BY DEF TypeOK, CountInv, BoundInv, QueuesBounded, FreshInv
<1>2. AudioInv'
    BY AudioQuiet
<1>3. VideoInv'
    BY VideoQuiet
<1> QED
    BY <1>1, <1>2, <1>3

\* The invariant of a session, SeekInv with the types, holds initially and is kept by
\* every step.
THEOREM SessionIsInvariant == Spec => []Inv
<1>1. Init => Inv
    <2> SUFFICES ASSUME Init PROVE SeekInv
        BY InitType DEF Inv
    <2>1. CountInv /\ BoundInv /\ FreshInv
        BY InitType DEF Init, FreshInv
    <2>2. /\ aList = <<>> /\ AudioHand = {} /\ aSeekTime = -1 /\ hist.aTarget = -1
          /\ apc = "idle" /\ rpc = "top"
        BY DEF Init, AudioHand
    <2>3. AudioInv
        BY <2>2 DEF AudioInv, InOrder, AudioClearing
    <2>4. /\ vList = <<>> /\ VideoHand = {} /\ vSeekTime = -1 /\ hist.vTarget = -1
          /\ vpc = "idle" /\ rpc = "top"
        BY DEF Init, VideoHand
    <2>5. VideoInv
        BY <2>4 DEF VideoInv, InOrder, VideoClearing, AudioClearing
    <2> QED
        BY <2>1, <2>3, <2>5 DEF SeekInv
<1>2. Inv /\ [Next]_vars => Inv'
    <2> SUFFICES ASSUME Inv, Next PROVE Inv'
        BY Stuttering
    <2>1. TypeOK'
        BY ReaderType, AudioType, VideoType, SetTimeType DEF Inv, SeekInv, Next
    <2>2. SeekInv'
        BY CountStep, BoundStep, FreshStep, AudioStep, VideoStep DEF Inv, SeekInv
    <2> QED
        BY <2>1, <2>2 DEF Inv
<1> QED
    BY <1>1, <1>2, PTL DEF Spec

\* SeekInv for every file, limit, codec delay, set of targets and number of seeks.
THEOREM SeekInvHolds == Spec => []SeekInv
<1>1. Inv => SeekInv
    BY DEF Inv
<1> QED
    BY <1>1, SessionIsInvariant, PTL

\* Every variable of a session keeps its type; in particular a clock is never -1, as it
\* would be were it set from a mark already taken away (VideoPlayer.cpp:161-163).
THEOREM TypeCorrect == Spec => []TypeOK
<1>1. Inv => TypeOK
    BY DEF Inv
<1> QED
    BY <1>1, SessionIsInvariant, PTL

\* The limit is tested once per iteration, outside the mutexes of the lists, and still
\* neither list ever exceeds it (VideoPlayer.cpp:172-182).
THEOREM BoundedLists == Spec => []QueuesBounded
<1>1. Inv => QueuesBounded
    BY DEF Inv, SeekInv, BoundInv
<1> QED
    BY <1>1, SessionIsInvariant, PTL

\* When the reader goes on after a seek, both lists hold packets of the new position only,
\* whatever the decoders have taken meanwhile (VideoPlayer.cpp:164-166).
THEOREM NoOldPackets == Spec => []OldPacketsGone
<1>1. Inv => OldPacketsGone
    BY DEF Inv, SeekInv, FreshInv, OldPacketsGone
<1> QED
    BY <1>1, SessionIsInvariant, PTL

\* Nothing read after a seek and before its target is played, for any file, unless a packet
\* of before the seek has removed the mark (VideoPlayerAudio.cpp:186-195,
\* VideoPlayerVideo.cpp:108-116).
THEOREM SeekIsHonoured == Spec => []SeekHonoured
<1>1. Inv => SeekHonoured
    <2> SUFFICES ASSUME Inv PROVE SeekHonoured
        OBVIOUS
    <2>1. vpc \in {"sync", "emit"} => VideoPkt = LastSent
        BY DEF VideoPkt
    <2> QED
        BY <2>1 DEF Inv, SeekInv, AudioInv, VideoInv, SeekHonoured
<1> QED
    BY <1>1, SessionIsInvariant, PTL

-----------------------------------------------------------------------------
(***************************************************************************)
(* No packet is lost on its way from the file to a decoder, and a session  *)
(* that ends by itself has played all it had to.  The proofs add WholeInv  *)
(* to the invariant above.                                                 *)
(***************************************************************************)
HIDE FileAssumption

LEMMA FileDomain == Len(File) \in Nat /\ DOMAIN File = 1 .. Len(File)
    BY FileAssumption

-----------------------------------------------------------------------------
(***************************************************************************)
(* Gapless: what popping, clearing, appending and seeking do to it.        *)
(***************************************************************************)
LEMMA Shifted ==
    ASSUME NEW list \in Seq(Packet), list # <<>>
    PROVE  /\ \A k \in DOMAIN list : k # 1 => k - 1 \in DOMAIN Tail(list) /\ Tail(list)[k - 1] = list[k]
           /\ \A k \in DOMAIN Tail(list) : k + 1 \in DOMAIN list /\ Tail(list)[k] = list[k + 1] /\ 1 < k + 1
           /\ 1 \in DOMAIN list /\ Head(list) = list[1]
    OBVIOUS

LEMMA GaplessPopped ==
    ASSUME NEW list \in Seq(Packet), list # <<>>, NEW s, NEW e \in Nat, NEW next \in Nat,
           InOrder(list, {}, e, next), Gapless(list, {}, s, e, next)
    PROVE  Gapless(Tail(list), {Head(list)}, s, e, next)
<1> DEFINE rest == Tail(list)
<1>1. /\ \A k \in DOMAIN list : k # 1 => k - 1 \in DOMAIN rest /\ rest[k - 1] = list[k]
      /\ \A k \in DOMAIN rest : k + 1 \in DOMAIN list /\ rest[k] = list[k + 1] /\ 1 < k + 1
      /\ 1 \in DOMAIN list /\ Head(list) = list[1]
    BY Shifted
<1> HIDE DEF rest
<1>2. ASSUME NEW m \in DOMAIN list, list[m].e = e, NEW i \in list[m].i + 1 .. next - 1, File[i].s = s
      PROVE  Waits(rest, i, e)
    <2>1. PICK k \in DOMAIN list : list[k].i = i /\ list[k].e = e
        BY <1>2 DEF Gapless, Complete, Waits, IsNew
    <2>2. list[m].i \in Nat /\ list[1].i \in Nat /\ m \in Nat
        BY <1>1, <1>2, ListFields
    <2>3. k # 1
        <3>1. CASE m = 1
            BY <1>2, <2>1, <2>2, <3>1
        <3>2. CASE m # 1
            <4>1. 1 < m
                BY <1>2, <2>2, <3>2
            <4>2. list[1].e = e => list[1].i < list[m].i
                BY <1>1, <1>2, <4>1 DEF InOrder
            <4> QED
                BY <1>2, <2>1, <2>2, <4>2
        <3> QED
            BY <3>1, <3>2
    <2> QED
        BY <1>1, <2>1, <2>3 DEF Waits, IsNew
<1>3. \A m \in DOMAIN list : Complete(list[m], rest, s, e, next)
    BY <1>2 DEF Gapless, Complete
<1>4. \A k \in DOMAIN rest : Complete(rest[k], rest, s, e, next)
    BY <1>1, <1>3
<1> QED
    BY <1>1, <1>3, <1>4 DEF Gapless, rest

LEMMA GaplessDropped ==
    ASSUME NEW list, NEW hand, NEW s, NEW e, NEW next, Gapless(list, hand, s, e, next)
    PROVE  Gapless(list, {}, s, e, next)
BY DEF Gapless

LEMMA GaplessCleared ==
    ASSUME NEW list, NEW hand, NEW s, NEW e, NEW next,
           Gapless(list, hand, s, e, next), \A pkt \in hand : pkt.e # e
    PROVE  Gapless(<<>>, hand, s, e, next)
BY DEF Gapless, Complete

LEMMA GaplessSought ==
    ASSUME NEW list, NEW hand, NEW s, NEW e, NEW next, NEW p,
           Gapless(list, hand, s, e, next), AllOld(list, hand, e + 1)
    PROVE  Gapless(list, hand, s, e + 1, p)
BY DEF Gapless, Complete, AllOld

LEMMA GaplessRead ==
    ASSUME NEW list \in Seq(Packet), NEW hand \in SUBSET Packet, NEW s, NEW e \in 0 .. MaxSeeks,
           NEW next \in 1 .. Len(File), Gapless(list, hand, s, e, next), InOrder(list, hand, e, next)
    PROVE  /\ File[next].s = s => Gapless(Append(list, [i |-> next, e |-> e]), hand, s, e, next + 1)
           /\ File[next].s # s => Gapless(list, hand, s, e, next + 1)
<1> DEFINE pkt == [i |-> next, e |-> e]
           longer == Append(list, pkt)
<1>0. pkt \in Packet /\ pkt.i = next /\ pkt.e = e /\ next \in Nat
    BY FileDomain DEF Packet
<1>1. /\ longer[Len(list) + 1] = pkt /\ Len(list) + 1 \in DOMAIN longer
      /\ \A k \in DOMAIN list : k \in DOMAIN longer /\ longer[k] = list[k]
      /\ \A k \in DOMAIN longer : k \in DOMAIN list \/ k = Len(list) + 1
    BY <1>0
<1> HIDE DEF longer, pkt
<1>2. \A i : Waits(list, i, e) => Waits(longer, i, e)
    BY <1>1 DEF Waits
<1>3. Waits(longer, next, e)
    BY <1>0, <1>1 DEF Waits, IsNew
<1>4. ASSUME NEW q \in Packet, NEW i \in q.i + 1 .. next + 1 - 1 PROVE i = next \/ i \in q.i + 1 .. next - 1
    BY <1>0, <1>4, PacketFields
<1>5. ASSUME NEW q \in Packet, Complete(q, list, s, e, next)
      PROVE  /\ Complete(q, longer, s, e, next + 1)
             /\ File[next].s # s => Complete(q, list, s, e, next + 1)
    BY <1>2, <1>3, <1>4, <1>5 DEF Complete
<1>6. File[next].s = s => Complete(pkt, longer, s, e, next + 1)
    BY <1>0 DEF Complete
<1>7. \A k \in DOMAIN list : list[k] \in Packet
    BY ElementOf
<1>8. ASSUME File[next].s = s PROVE Gapless(longer, hand, s, e, next + 1)
    BY <1>1, <1>5, <1>6, <1>7, <1>8 DEF Gapless
<1>9. ASSUME File[next].s # s PROVE Gapless(list, hand, s, e, next + 1)
    BY <1>5, <1>7, <1>9 DEF Gapless
<1> QED
    BY <1>8, <1>9 DEF longer, pkt

-----------------------------------------------------------------------------
(***************************************************************************)
(* Covers: what the same steps and playing do to it.                       *)
(***************************************************************************)
LEMMA CoversPopped ==
    ASSUME NEW list \in Seq(Packet), list # <<>>, NEW hand, NEW s, NEW e, NEW next, NEW target,
           NEW start, NEW played, Covers(list, hand, s, e, next, target, start, played)
    PROVE  Covers(Tail(list), hand \cup {Head(list)}, s, e, next, target, start, played)
<1>1. \A i : Waits(list, i, e) => Waits(Tail(list), i, e) \/ IsNew(Head(list), i, e)
    BY Shifted DEF Waits
<1> QED
    BY <1>1 DEF Covers

\* A packet leaves the hand when it is played, or when it is too early.
LEMMA CoversDone ==
    ASSUME NEW list, NEW hand, NEW s, NEW e, NEW next, NEW target, NEW start, NEW played,
           Covers(list, hand, s, e, next, target, start, played),
           NEW hand2, NEW played2, NEW pkt, played \subseteq played2, hand \subseteq hand2 \cup {pkt},
           pkt \in hand2 \/ pkt.e # e \/ pkt.i \in played2 \/ ~(Time(pkt) >= target)
    PROVE  Covers(list, hand2, s, e, next, target, start, played2)
BY DEF Covers, IsNew, Time

LEMMA CoversNone ==
    ASSUME NEW list, NEW hand, NEW s, NEW e, NEW next \in Nat, NEW target, NEW played
    PROVE  Covers(list, hand, s, e, next, target, next, played)
BY DEF Covers

LEMMA CoversRead ==
    ASSUME NEW list \in Seq(Packet), NEW hand, NEW s, NEW e \in 0 .. MaxSeeks,
           NEW next \in 1 .. Len(File), NEW target, NEW start \in Nat, NEW played,
           Covers(list, hand, s, e, next, target, start, played)
    PROVE  /\ Covers(Append(list, [i |-> next, e |-> e]), hand, s, e, next + 1, target, start, played)
           /\ File[next].s # s => Covers(list, hand, s, e, next + 1, target, start, played)
<1> DEFINE pkt == [i |-> next, e |-> e]
           longer == Append(list, pkt)
<1>0. pkt \in Packet /\ pkt.i = next /\ pkt.e = e /\ next \in Nat
    BY FileDomain DEF Packet
<1>1. /\ longer[Len(list) + 1] = pkt /\ Len(list) + 1 \in DOMAIN longer
      /\ \A k \in DOMAIN list : k \in DOMAIN longer /\ longer[k] = list[k]
    BY <1>0
<1> HIDE DEF longer, pkt
<1>2. \A i : Waits(list, i, e) => Waits(longer, i, e)
    BY <1>1 DEF Waits
<1>3. Waits(longer, next, e)
    BY <1>0, <1>1 DEF Waits, IsNew
<1>4. \A i \in start .. next + 1 - 1 : i = next \/ i \in start .. next - 1
    BY <1>0
<1>5. Covers(longer, hand, s, e, next + 1, target, start, played)
    BY <1>2, <1>3, <1>4 DEF Covers
<1>6. ASSUME File[next].s # s PROVE Covers(list, hand, s, e, next + 1, target, start, played)
    BY <1>4, <1>6 DEF Covers
<1> QED
    BY <1>5, <1>6 DEF longer, pkt

-----------------------------------------------------------------------------
(***************************************************************************)
(* What the steps do to what has been played.                              *)
(***************************************************************************)
LEMMA PlayedBy ==
    ASSUME hist \in History, NEW pkt
    PROVE  WithPlayed(pkt).played =
               IF pkt.e = hist.epoch THEN hist.played \cup {pkt.i} ELSE hist.played
BY DEF History, WithPlayed

LEMMA StolenPlays ==
    ASSUME hist \in History, NEW b
    PROVE  /\ [hist EXCEPT !.aStolen = b].played = hist.played
           /\ [hist EXCEPT !.vStolen = b].played = hist.played
BY DEF History

LEMMA AudioPlays ==
    ASSUME TypeOK, Audio
    PROVE  hist'.played = IF apc = "play" /\ aPkt.e = hist.epoch THEN hist.played \cup {aPkt.i}
                          ELSE hist.played
<1>1. hist \in History
    BY DEF TypeOK
<1>2. CASE AudioUnseek
    <2>1. hist' = [hist EXCEPT !.aStolen = hist.aStolen \/ aPkt.e # hist.epoch] /\ apc # "play"
        BY <1>1, <1>2, Zenon DEF AudioUnseek
    <2> QED
        BY <1>1, <2>1, StolenPlays
<1>3. CASE AudioPlay
    BY <1>1, <1>3, PlayedBy DEF AudioPlay
<1>4. CASE hist' = hist /\ apc # "play"
    BY <1>4
<1> QED
    BY <1>2, <1>3, <1>4 DEF Audio, AudioPop, AudioClock, AudioTest

LEMMA VideoPlays ==
    ASSUME TypeOK, Video
    PROVE  hist'.played = IF vpc = "emit" /\ frame.e = hist.epoch THEN hist.played \cup {frame.i}
                          ELSE hist.played
<1>1. hist \in History
    BY DEF TypeOK
<1>2. CASE VideoUnseek
    <2>1. hist' = [hist EXCEPT !.vStolen = hist.vStolen \/ LastSent.e # hist.epoch] /\ vpc # "emit"
        BY <1>1, <1>2, Zenon DEF VideoUnseek
    <2> QED
        BY <1>1, <2>1, StolenPlays
<1>3. CASE VideoEmit
    BY <1>1, <1>3, PlayedBy DEF VideoEmit
<1>4. CASE hist' = hist /\ vpc # "emit"
    BY <1>4
<1> QED
    BY <1>2, <1>3, <1>4 DEF Video, VideoPop, VideoClock, VideoDecode, VideoTest, VideoSync

LEMMA ReaderPlays ==
    ASSUME TypeOK, Reader
    PROVE  \/ \E p \in 1 .. Len(File) + 1 : Seek(p)
           \/ /\ hist'.epoch = hist.epoch /\ hist'.start = hist.start /\ hist'.played = hist.played
              /\ MarkAudio \/ hist'.aTarget = hist.aTarget
              /\ MarkVideo \/ hist'.vTarget = hist.vTarget
<1>1. hist \in History
    BY DEF TypeOK
<1>2. CASE MarkVideo
    BY <1>1, <1>2 DEF MarkVideo, History
<1>3. CASE MarkAudio
    BY <1>1, <1>3 DEF MarkAudio, History
<1>4. CASE hist' = hist
    BY <1>4
<1> QED
    BY <1>2, <1>3, <1>4 DEF Reader, LoopTop, SeekFails, Unmark, ResetAudioClock,
       ResetVideoClock, ClearAudio, ClearVideo, ReadSizes, ReadPacket, ReadEof, ReadFails

LEMMA SeekPlays ==
    ASSUME TypeOK, NEW p, Seek(p)
    PROVE  hist'.played = {}
BY DEF TypeOK, History, Seek

LEMMA WholeTypes ==
    ASSUME TypeOK
    PROVE  /\ pos \in 1 .. Len(File) + 1 /\ pos \in Nat /\ hist.start \in Nat
           /\ hist.epoch \in 0 .. MaxSeeks /\ hist.epoch \in Nat
<1>1. hist.start \in 1 .. Len(File) + 1 /\ hist.epoch \in 0 .. MaxSeeks /\ pos \in 1 .. Len(File) + 1
    BY DEF TypeOK, History
<1> QED
    BY <1>1, FileDomain

-----------------------------------------------------------------------------
(***************************************************************************)
(* The audio stream.                                                       *)
(***************************************************************************)
LEMMA AudioWholeQuiet ==
    ASSUME TypeOK, AudioWhole, UNCHANGED <<pos, aList, apc, aPkt>>,
           hist'.epoch = hist.epoch, hist'.start = hist.start, hist.played \subseteq hist'.played,
           hist'.aTarget = hist.aTarget \/ pos = hist.start
    PROVE  AudioWhole'
<1>1. AudioHand' = AudioHand
    BY DEF AudioHand
<1>2. CASE pos = hist.start
    BY <1>1, <1>2, CoversNone, WholeTypes DEF AudioWhole
<1>3. CASE hist'.aTarget = hist.aTarget
    <2>1. Covers(aList, AudioHand, "a", hist.epoch, pos, hist.aTarget, hist.start, hist'.played)
        BY DEF AudioWhole, Covers
    <2> QED
        BY <1>1, <1>3, <2>1 DEF AudioWhole
<1> QED
    BY <1>2, <1>3

LEMMA AudioWholeReader ==
    ASSUME TypeOK, AudioInv, AudioWhole, EndInv, Reader
    PROVE  AudioWhole'
<1> USE DEF marks, audio
<1>1. ASSUME NEW p \in 1 .. Len(File) + 1, Seek(p) PROVE AudioWhole'
    <2>1. hist'.epoch = hist.epoch + 1 /\ hist'.start = p
        BY <1>1, SeekSets
    <2>2. AllOld(aList, AudioHand, hist.epoch + 1)
        BY AudioTypes, AllBecomeOld DEF AudioInv
    <2>3. pos' = p /\ aList' = aList /\ AudioHand' = AudioHand /\ p \in Nat
        BY <1>1, FileDomain DEF Seek, AudioHand
    <2>4. Gapless(aList, AudioHand, "a", hist.epoch + 1, p)
        BY <2>2, GaplessSought DEF AudioWhole
    <2>5. Covers(aList, AudioHand, "a", hist.epoch + 1, p, hist'.aTarget, p, hist'.played)
        BY <2>3, CoversNone
    <2> QED
        BY <2>1, <2>3, <2>4, <2>5 DEF AudioWhole
<1> SUFFICES ASSUME \A p \in 1 .. Len(File) + 1 : ~Seek(p)
             PROVE  AudioWhole'
    BY <1>1
<1>2. /\ hist'.epoch = hist.epoch /\ hist'.start = hist.start /\ hist'.played = hist.played
      /\ MarkAudio \/ hist'.aTarget = hist.aTarget
    BY ReaderPlays
<1>3. CASE LoopTop \/ SeekFails \/ Unmark \/ MarkVideo
    <2>1. UNCHANGED <<pos, aList, apc, aPkt>> /\ (MarkAudio => FALSE)
        BY <1>3 DEF LoopTop, SeekFails, Unmark, MarkVideo, MarkAudio
    <2> QED
        BY <1>2, <2>1, AudioWholeQuiet
<1>4. CASE ResetVideoClock \/ ResetAudioClock \/ ClearVideo
    <2>1. UNCHANGED <<pos, aList, apc, aPkt>> /\ (MarkAudio => FALSE)
        BY <1>4 DEF ResetVideoClock, ResetAudioClock, ClearVideo, MarkAudio
    <2> QED
        BY <1>2, <2>1, AudioWholeQuiet
<1>5. CASE ReadSizes \/ ReadEof \/ ReadFails
    <2>1. UNCHANGED <<pos, aList, apc, aPkt>> /\ (MarkAudio => FALSE)
        BY <1>5 DEF ReadSizes, ReadEof, ReadFails, NextIteration, MarkAudio
    <2> QED
        BY <1>2, <2>1, AudioWholeQuiet
<1>6. CASE MarkAudio
    <2>1. UNCHANGED <<pos, aList, apc, aPkt>> /\ pos = hist.start
        BY <1>6 DEF MarkAudio, EndInv, VideoClearing, AudioClearing
    <2> QED
        BY <1>2, <2>1, AudioWholeQuiet
<1>7. CASE ClearAudio
    <2>1. /\ aList' = <<>> /\ pos' = pos /\ pos = hist.start /\ AudioHand' = AudioHand
          /\ rpc \in AudioClearing
        BY <1>7 DEF ClearAudio, EndInv, VideoClearing, AudioClearing, AudioHand
    <2>2. \A pkt \in AudioHand : pkt.e # hist.epoch
        BY <2>1 DEF AudioInv, AllOld
    <2>3. Gapless(<<>>, AudioHand, "a", hist.epoch, pos)
        BY <2>2, GaplessCleared DEF AudioWhole
    <2>4. Covers(<<>>, AudioHand, "a", hist.epoch, pos, hist'.aTarget, pos, hist.played)
        BY CoversNone, WholeTypes
    <2> QED
        BY <1>2, <2>1, <2>3, <2>4 DEF AudioWhole
<1>8. CASE ReadPacket
    <2>1. /\ pos \in 1 .. Len(File) /\ pos' = pos + 1 /\ AudioHand' = AudioHand
          /\ aList' = IF File[pos].s = "a" THEN Append(aList, [i |-> pos, e |-> hist.epoch]) ELSE aList
          /\ hist' = hist
        BY <1>8, WholeTypes, FileDomain DEF ReadPacket, AudioHand
    <2>2. InOrder(aList, AudioHand, hist.epoch, pos)
        BY DEF AudioInv
    <2>3. Gapless(aList', AudioHand, "a", hist.epoch, pos + 1)
        BY <2>1, <2>2, AudioTypes, GaplessRead DEF AudioWhole
    <2>4. Covers(aList', AudioHand, "a", hist.epoch, pos + 1, hist.aTarget, hist.start, hist.played)
        BY <2>1, AudioTypes, WholeTypes, CoversRead DEF AudioWhole
    <2> QED
        BY <2>1, <2>3, <2>4 DEF AudioWhole
<1> QED
    BY <1>3, <1>4, <1>5, <1>6, <1>7, <1>8 DEF Reader

LEMMA AudioWholeDecoder ==
    ASSUME TypeOK, AudioInv, AudioWhole, Audio
    PROVE  AudioWhole'
<1> USE DEF marks, reader
<1>1. /\ hist'.epoch = hist.epoch /\ hist'.start = hist.start /\ hist'.aTarget = hist.aTarget
      /\ pos' = pos
    <2>1. pos' = pos
        BY DEF Audio, AudioPop, AudioClock, AudioTest, AudioUnseek, AudioPlay
    <2> QED
        BY <2>1, AudioKeeps DEF Sought
<1>2. CASE AudioPop
    <2>1. /\ AudioHand = {} /\ AudioHand' = {Head(aList)} /\ aList # <<>> /\ aList' = Tail(aList)
          /\ hist' = hist
        BY <1>2 DEF AudioPop, AudioHand
    <2>2. Gapless(aList', AudioHand', "a", hist.epoch, pos)
        BY <2>1, AudioTypes, WholeTypes, GaplessPopped DEF AudioInv, AudioWhole
    <2>3. Covers(aList', AudioHand \cup {Head(aList)}, "a", hist.epoch, pos, hist.aTarget, hist.start,
                 hist.played)
        BY <2>1, AudioTypes, CoversPopped DEF AudioWhole
    <2> QED
        BY <1>1, <2>1, <2>2, <2>3 DEF AudioWhole
<1>3. CASE (AudioClock \/ AudioTest \/ AudioUnseek) /\ apc' # "idle"
    <2>1. UNCHANGED <<aList, aPkt>> /\ AudioHand' = AudioHand /\ hist.played = hist'.played
        BY <1>3, AudioPlays DEF AudioClock, AudioTest, AudioUnseek, AudioHand
    <2> QED
        BY <1>1, <2>1 DEF AudioWhole
<1>4. CASE (AudioTest \/ AudioPlay) /\ apc' = "idle"
    <2>1. aList' = aList /\ AudioHand' = {} /\ AudioHand = {aPkt} /\ hist.played \subseteq hist'.played
        BY <1>4, AudioPlays DEF AudioTest, AudioPlay, AudioHand
    <2>2. aPkt.e # hist.epoch \/ aPkt.i \in hist'.played \/ ~(Time(aPkt) >= hist.aTarget)
        <3>1. CASE AudioPlay
            BY <3>1, AudioPlays DEF AudioPlay
        <3>2. CASE AudioTest /\ aPkt.e = hist.epoch
            <4>1. apc = "test" /\ aSeekTime >= 0 /\ aTime < aSeekTime
                BY <1>4, <3>2 DEF AudioTest
            <4>2. rpc \notin AudioUnmarked
                BY <2>1, <3>2 DEF AudioInv, AllOld, AudioClearing, AudioUnmarked
            <4>3. aSeekTime = hist.aTarget /\ aTime = Time(aPkt)
                BY <3>2, <4>1, <4>2 DEF AudioInv
            <4> QED
                BY <4>1, <4>3, AudioTypes
        <3> QED
            BY <1>4, <3>1, <3>2
    <2>3. Covers(aList, {}, "a", hist.epoch, pos, hist.aTarget, hist.start, hist'.played)
        BY <2>1, <2>2, CoversDone DEF AudioWhole
    <2>4. Gapless(aList, {}, "a", hist.epoch, pos)
        BY GaplessDropped DEF AudioWhole
    <2> QED
        BY <1>1, <2>1, <2>3, <2>4 DEF AudioWhole
<1>5. (AudioClock => apc' # "idle") /\ (AudioUnseek => apc' # "idle") /\ (AudioPlay => apc' = "idle")
    BY DEF AudioClock, AudioUnseek, AudioPlay
<1> QED
    BY <1>2, <1>3, <1>4, <1>5 DEF Audio

LEMMA AudioWholeStep ==
    ASSUME TypeOK, AudioInv, AudioWhole, EndInv, Next
    PROVE  AudioWhole'
<1>1. CASE Video
    <2>1. UNCHANGED <<pos, aList, apc, aPkt>>
        BY <1>1 DEF Video, VideoPop, VideoClock, VideoDecode, VideoTest, VideoUnseek,
           VideoSync, VideoEmit, reader, audio
    <2>2. /\ hist'.epoch = hist.epoch /\ hist'.start = hist.start /\ hist'.aTarget = hist.aTarget
          /\ hist.played \subseteq hist'.played
        BY <1>1, VideoKeeps, VideoPlays DEF Sought
    <2> QED
        BY <2>1, <2>2, AudioWholeQuiet
<1>2. ASSUME NEW target \in Targets, SetTime(target) PROVE AudioWhole'
    BY <1>2, AudioWholeQuiet DEF SetTime, reader, audio
<1> QED
    BY <1>1, <1>2, AudioWholeReader, AudioWholeDecoder DEF Next


-----------------------------------------------------------------------------
(***************************************************************************)
(* The video stream.                                                       *)
(***************************************************************************)
LEMMA CodecTypes ==
    ASSUME TypeOK
    PROVE  /\ codec \in Seq(Packet) /\ (FrameOut => frame \in Packet)
           /\ (vpc \in {"clock", "decode"} => vPkt \in Packet)
           /\ VideoPopped \in SUBSET Packet /\ vList \in Seq(Packet)
BY DEF TypeOK, FrameOut, VideoPopped

LEMMA PoppedInOrder ==
    ASSUME TypeOK, VideoInv
    PROVE  /\ InOrder(vList, VideoPopped, hist.epoch, pos)
           /\ rpc \in VideoClearing => AllOld(vList, VideoPopped, hist.epoch)
<1>1. VideoPopped = VideoHand \/ VideoPopped = {}
    BY DEF VideoPopped, VideoHand, VideoPkt
<1> QED
    BY <1>1, Dropped DEF VideoInv

LEMMA VideoWholeQuiet ==
    ASSUME TypeOK, VideoWhole, UNCHANGED <<pos, vList, vpc, vPkt, codec, frame>>,
           hist'.epoch = hist.epoch, hist'.start = hist.start, hist.played \subseteq hist'.played,
           hist'.vTarget = hist.vTarget \/ pos = hist.start
    PROVE  VideoWhole'
<1>1. VideoPopped' = VideoPopped /\ InCodec' = InCodec
    BY DEF VideoPopped, InCodec, FrameOut
<1>2. CASE pos = hist.start
    BY <1>1, <1>2, CoversNone, WholeTypes DEF VideoWhole
<1>3. CASE hist'.vTarget = hist.vTarget
    <2>1. Covers(vList, VideoPopped \cup InCodec, "v", hist.epoch, pos, hist.vTarget, hist.start,
                 hist'.played)
        BY DEF VideoWhole, Covers
    <2> QED
        BY <1>1, <1>3, <2>1 DEF VideoWhole
<1> QED
    BY <1>2, <1>3

LEMMA VideoWholeReader ==
    ASSUME TypeOK, VideoInv, VideoWhole, EndInv, Reader
    PROVE  VideoWhole'
<1> USE DEF marks, video
<1>1. ASSUME NEW p \in 1 .. Len(File) + 1, Seek(p) PROVE VideoWhole'
    <2>1. hist'.epoch = hist.epoch + 1 /\ hist'.start = p
        BY <1>1, SeekSets
    <2>2. AllOld(vList, VideoPopped, hist.epoch + 1)
        BY VideoTypes, CodecTypes, PoppedInOrder, AllBecomeOld
    <2>3. pos' = p /\ vList' = vList /\ VideoPopped' = VideoPopped /\ p \in Nat
        BY <1>1, FileDomain DEF Seek, VideoPopped
    <2>4. Gapless(vList, VideoPopped, "v", hist.epoch + 1, p)
        BY <2>2, GaplessSought DEF VideoWhole
    <2>5. Covers(vList, VideoPopped \cup InCodec', "v", hist.epoch + 1, p, hist'.vTarget, p,
                 hist'.played)
        BY <2>3, CoversNone
    <2> QED
        BY <2>1, <2>3, <2>4, <2>5 DEF VideoWhole
<1> SUFFICES ASSUME \A p \in 1 .. Len(File) + 1 : ~Seek(p)
             PROVE  VideoWhole'
    BY <1>1
<1>2. /\ hist'.epoch = hist.epoch /\ hist'.start = hist.start /\ hist'.played = hist.played
      /\ MarkVideo \/ hist'.vTarget = hist.vTarget
    BY ReaderPlays
<1>3. CASE LoopTop \/ SeekFails \/ Unmark \/ MarkAudio
    <2>1. UNCHANGED <<pos, vList, vpc, vPkt, codec, frame>> /\ (MarkVideo => FALSE)
        BY <1>3 DEF LoopTop, SeekFails, Unmark, MarkVideo, MarkAudio
    <2> QED
        BY <1>2, <2>1, VideoWholeQuiet
<1>4. CASE ResetVideoClock \/ ResetAudioClock \/ ClearAudio
    <2>1. UNCHANGED <<pos, vList, vpc, vPkt, codec, frame>> /\ (MarkVideo => FALSE)
        BY <1>4 DEF ResetVideoClock, ResetAudioClock, ClearAudio, MarkVideo
    <2> QED
        BY <1>2, <2>1, VideoWholeQuiet
<1>5. CASE ReadSizes \/ ReadEof \/ ReadFails
    <2>1. UNCHANGED <<pos, vList, vpc, vPkt, codec, frame>> /\ (MarkVideo => FALSE)
        BY <1>5 DEF ReadSizes, ReadEof, ReadFails, NextIteration, MarkVideo
    <2> QED
        BY <1>2, <2>1, VideoWholeQuiet
<1>6. CASE MarkVideo
    <2>1. UNCHANGED <<pos, vList, vpc, vPkt, codec, frame>> /\ pos = hist.start
        BY <1>6 DEF MarkVideo, EndInv, VideoClearing, AudioClearing
    <2> QED
        BY <1>2, <2>1, VideoWholeQuiet
<1>7. CASE ClearVideo
    <2>1. /\ vList' = <<>> /\ pos' = pos /\ pos = hist.start /\ VideoPopped' = VideoPopped
          /\ rpc \in VideoClearing
        BY <1>7 DEF ClearVideo, EndInv, VideoClearing, VideoPopped
    <2>2. \A pkt \in VideoPopped : pkt.e # hist.epoch
        BY <2>1, PoppedInOrder DEF AllOld
    <2>3. Gapless(<<>>, VideoPopped, "v", hist.epoch, pos)
        BY <2>2, GaplessCleared DEF VideoWhole
    <2>4. Covers(<<>>, VideoPopped \cup InCodec', "v", hist.epoch, pos, hist'.vTarget, pos,
                 hist.played)
        BY CoversNone, WholeTypes
    <2> QED
        BY <1>2, <2>1, <2>3, <2>4 DEF VideoWhole
<1>8. CASE ReadPacket
    <2>1. /\ pos \in 1 .. Len(File) /\ pos' = pos + 1 /\ VideoPopped' = VideoPopped
          /\ InCodec' = InCodec
          /\ vList' = IF File[pos].s = "v" THEN Append(vList, [i |-> pos, e |-> hist.epoch]) ELSE vList
          /\ hist' = hist
        BY <1>8, WholeTypes, FileDomain DEF ReadPacket, VideoPopped, InCodec, FrameOut
    <2>2. InOrder(vList, VideoPopped, hist.epoch, pos)
        BY PoppedInOrder
    <2>3. Gapless(vList', VideoPopped, "v", hist.epoch, pos + 1)
        BY <2>1, <2>2, VideoTypes, CodecTypes, GaplessRead DEF VideoWhole
    <2>4. Covers(vList', VideoPopped \cup InCodec, "v", hist.epoch, pos + 1, hist.vTarget, hist.start,
                 hist.played)
        BY <2>1, VideoTypes, WholeTypes, CoversRead DEF VideoWhole
    <2> QED
        BY <2>1, <2>3, <2>4 DEF VideoWhole
<1> QED
    BY <1>3, <1>4, <1>5, <1>6, <1>7, <1>8 DEF Reader

\* What is given to the codec stays in it or comes out.
LEMMA DecodeKeeps ==
    ASSUME TypeOK, VideoDecode
    PROVE  {vPkt} \cup {codec[k] : k \in DOMAIN codec} \subseteq InCodec'
<1> DEFINE fed == Append(codec, vPkt)
<1>1. codec \in Seq(Packet) /\ vPkt \in Packet
    BY DEF TypeOK, VideoDecode
<1>2. /\ fed \in Seq(Packet) /\ fed # <<>> /\ Len(codec) + 1 \in DOMAIN fed
      /\ fed[Len(codec) + 1] = vPkt /\ \A k \in DOMAIN codec : k \in DOMAIN fed /\ fed[k] = codec[k]
    BY <1>1
<1>3. \/ codec' = fed
      \/ codec' = Tail(fed) /\ frame' = Head(fed) /\ vpc' = "test"
    BY DEF VideoDecode
<1> HIDE DEF fed
<1>4. {vPkt} \cup {codec[k] : k \in DOMAIN codec} \subseteq {fed[k] : k \in DOMAIN fed}
    BY <1>2
<1>5. CASE codec' = fed
    BY <1>4, <1>5 DEF InCodec
<1>6. CASE codec' = Tail(fed) /\ frame' = Head(fed) /\ vpc' = "test"
    <2>1. /\ \A k \in DOMAIN fed : k # 1 => k - 1 \in DOMAIN codec' /\ codec'[k - 1] = fed[k]
          /\ frame' = fed[1]
        BY <1>2, <1>6, Shifted
    <2>2. {fed[k] : k \in DOMAIN fed} \subseteq {codec'[k] : k \in DOMAIN codec'} \cup {frame'}
        BY <2>1
    <2>3. InCodec' = {codec'[k] : k \in DOMAIN codec'} \cup {frame'}
        BY <1>6 DEF InCodec, FrameOut
    <2> QED
        BY <1>4, <2>2, <2>3
<1> QED
    BY <1>3, <1>5, <1>6

\* A frame that is dropped is before the target: the clock tested is that of a packet
\* after it.
LEMMA DroppedIsEarly ==
    ASSUME TypeOK, VideoInv, CodecInv, VideoTest, vpc' = "idle", frame.e = hist.epoch
    PROVE  ~(Time(frame) >= hist.vTarget)
<1>1. vpc = "test" /\ FrameOut /\ vSeekTime >= 0 /\ vTime < vSeekTime /\ VideoPkt = LastSent
    BY DEF VideoTest, FrameOut, VideoPkt
<1>2. rpc \notin VideoClearing
    BY <1>1 DEF CodecInv
<1>3. frame \in Packet /\ LastSent \in Packet /\ codec \in Seq(Packet)
    BY <1>1, CodecTypes, LastSentType
<1>4. LastSent.e = hist.epoch /\ (LastSent = frame \/ frame.i < LastSent.i)
    <2>1. CASE codec = <<>>
        BY <2>1 DEF LastSent
    <2>2. CASE codec # <<>>
        <3>1. Len(codec) \in DOMAIN codec /\ LastSent = codec[Len(codec)]
            BY <1>3, <2>2 DEF LastSent
        <3> QED
            BY <1>1, <3>1 DEF CodecInv, Behind
    <2> QED
        BY <2>1, <2>2
<1>5. Time(frame) <= Time(LastSent)
    <2>1. frame.i \in DOMAIN File /\ LastSent.i \in DOMAIN File
        BY <1>3, PacketFields
    <2>2. Time(frame) \in Nat /\ Time(LastSent) \in Nat
        BY <1>3, PacketTime
    <2>3. CASE LastSent = frame
        BY <2>2, <2>3
    <2>4. CASE frame.i < LastSent.i
        BY <2>1, <2>4, FileAssumption DEF Time
    <2> QED
        BY <1>4, <2>3, <2>4
<1>6. vTime = Time(LastSent)
    BY <1>1, <1>4 DEF VideoInv
<1>7. vSeekTime = hist.vTarget
    <2>1. rpc \notin VideoUnmarked
        BY <1>2 DEF VideoClearing, AudioClearing, VideoUnmarked
    <2> QED
        BY <1>1, <2>1 DEF VideoInv
<1>8. Time(frame) \in Nat /\ Time(LastSent) \in Nat /\ hist.vTarget \in Int
    BY <1>3, PacketTime, VideoTypes
<1> QED
    BY <1>1, <1>5, <1>6, <1>7, <1>8

LEMMA VideoWholeDecoder ==
    ASSUME TypeOK, VideoInv, VideoWhole, CodecInv, Video
    PROVE  VideoWhole'
<1> USE DEF marks, reader
<1>1. /\ hist'.epoch = hist.epoch /\ hist'.start = hist.start /\ hist'.vTarget = hist.vTarget
      /\ pos' = pos
    <2>1. pos' = pos
        BY DEF Video, VideoPop, VideoClock, VideoDecode, VideoTest, VideoUnseek, VideoSync,
           VideoEmit
    <2> QED
        BY <2>1, VideoKeeps DEF Sought
<1>2. CASE VideoPop
    <2>1. /\ VideoPopped = {} /\ VideoPopped' = {Head(vList)} /\ InCodec' = InCodec
          /\ vList # <<>> /\ vList' = Tail(vList) /\ hist' = hist
        BY <1>2 DEF VideoPop, VideoPopped, InCodec, FrameOut
    <2>2. Gapless(vList', VideoPopped', "v", hist.epoch, pos)
        BY <2>1, VideoTypes, WholeTypes, PoppedInOrder, GaplessPopped DEF VideoWhole
    <2>3. Covers(vList', (VideoPopped \cup InCodec) \cup {Head(vList)}, "v", hist.epoch, pos,
                 hist.vTarget, hist.start, hist.played)
        BY <2>1, VideoTypes, CoversPopped DEF VideoWhole
    <2>4. (VideoPopped \cup InCodec) \cup {Head(vList)} = VideoPopped' \cup InCodec'
        BY <2>1
    <2> QED
        BY <1>1, <2>1, <2>2, <2>3, <2>4 DEF VideoWhole
<1>3. CASE VideoClock \/ VideoUnseek \/ VideoSync \/ (VideoTest /\ vpc' # "idle")
    <2>1. VideoPopped' = VideoPopped /\ InCodec' = InCodec /\ vList' = vList
        BY <1>3 DEF VideoClock, VideoUnseek, VideoSync, VideoTest, VideoPopped, InCodec, FrameOut
    <2>2. hist.played = hist'.played
        BY <1>3, VideoPlays DEF VideoClock, VideoUnseek, VideoSync, VideoTest
    <2> QED
        BY <1>1, <2>1, <2>2 DEF VideoWhole
<1>4. CASE VideoDecode
    <2>1. vList' = vList /\ VideoPopped = {vPkt} /\ VideoPopped' = {} /\ hist' = hist
        BY <1>4 DEF VideoDecode, VideoPopped
    <2>2. InCodec = {codec[k] : k \in DOMAIN codec}
        BY <1>4 DEF VideoDecode, InCodec, FrameOut
    <2>3. VideoPopped \cup InCodec \subseteq InCodec'
        BY <1>4, <2>1, <2>2, DecodeKeeps
    <2>4. Covers(vList, InCodec', "v", hist.epoch, pos, hist.vTarget, hist.start, hist.played)
        BY <2>3 DEF VideoWhole, Covers
    <2>5. Gapless(vList, {}, "v", hist.epoch, pos)
        BY GaplessDropped DEF VideoWhole
    <2>6. VideoPopped' \cup InCodec' = InCodec'
        BY <2>1
    <2> QED
        BY <1>1, <2>1, <2>4, <2>5, <2>6 DEF VideoWhole
<1>5. CASE (VideoTest \/ VideoEmit) /\ vpc' = "idle"
    <2>1. /\ vList' = vList /\ VideoPopped = {} /\ VideoPopped' = {}
          /\ InCodec = InCodec' \cup {frame}
        BY <1>5 DEF VideoTest, VideoEmit, VideoPopped, InCodec, FrameOut
    <2>2. hist.played \subseteq hist'.played
        BY <1>5, VideoPlays
    <2>3. frame.e # hist.epoch \/ frame.i \in hist'.played \/ ~(Time(frame) >= hist.vTarget)
        <3>1. CASE VideoEmit
            BY <3>1, VideoPlays DEF VideoEmit
        <3>2. CASE VideoTest
            BY <1>5, <3>2, DroppedIsEarly
        <3> QED
            BY <1>5, <3>1, <3>2
    <2>4. VideoPopped \cup InCodec \subseteq (VideoPopped' \cup InCodec') \cup {frame}
        BY <2>1
    <2> DEFINE rest == VideoPopped' \cup InCodec'
    <2>7. Covers(vList, VideoPopped \cup InCodec, "v", hist.epoch, pos, hist.vTarget, hist.start,
                 hist.played)
        BY DEF VideoWhole
    <2> HIDE DEF rest
    <2>8. Covers(vList, rest, "v", hist.epoch, pos, hist.vTarget, hist.start, hist'.played)
        BY <2>2, <2>3, <2>4, <2>7, CoversDone DEF rest
    <2>5. Covers(vList, VideoPopped' \cup InCodec', "v", hist.epoch, pos, hist.vTarget, hist.start,
                 hist'.played)
        BY <2>8 DEF rest
    <2>6. Gapless(vList, {}, "v", hist.epoch, pos)
        BY GaplessDropped DEF VideoWhole
    <2> QED
        BY <1>1, <2>1, <2>5, <2>6 DEF VideoWhole
<1>6. VideoEmit => vpc' = "idle"
    BY DEF VideoEmit
<1> QED
    BY <1>2, <1>3, <1>4, <1>5, <1>6 DEF Video

LEMMA VideoWholeStep ==
    ASSUME TypeOK, VideoInv, VideoWhole, CodecInv, EndInv, Next
    PROVE  VideoWhole'
<1>1. CASE Audio
    <2>1. UNCHANGED <<pos, vList, vpc, vPkt, codec, frame>>
        BY <1>1 DEF Audio, AudioPop, AudioClock, AudioTest, AudioUnseek, AudioPlay, reader, video
    <2>2. /\ hist'.epoch = hist.epoch /\ hist'.start = hist.start /\ hist'.vTarget = hist.vTarget
          /\ hist.played \subseteq hist'.played
        BY <1>1, AudioKeeps, AudioPlays DEF Sought
    <2> QED
        BY <2>1, <2>2, VideoWholeQuiet
<1>2. ASSUME NEW target \in Targets, SetTime(target) PROVE VideoWhole'
    BY <1>2, VideoWholeQuiet DEF SetTime, reader, video
<1> QED
    BY <1>1, <1>2, VideoWholeReader, VideoWholeDecoder DEF Next

-----------------------------------------------------------------------------
(***************************************************************************)
(* The codec holds packets in order.                                       *)
(***************************************************************************)
LEMMA CodecQuiet ==
    ASSUME CodecInv, UNCHANGED <<pos, vList, vpc, vPkt, codec, frame>>, hist'.epoch = hist.epoch,
           rpc' \in VideoClearing => rpc \in VideoClearing
    PROVE  CodecInv'
<1>1. FrameOut' = FrameOut
    BY DEF FrameOut
<1> QED
    BY <1>1 DEF CodecInv, Behind

LEMMA CodecReader ==
    ASSUME TypeOK, CodecInv, Reader
    PROVE  CodecInv'
<1> USE DEF VideoClearing, AudioClearing, marks, video
<1>1. ASSUME NEW p \in 1 .. Len(File) + 1, Seek(p) PROVE CodecInv'
    <2>1. /\ hist'.epoch = hist.epoch + 1 /\ hist.epoch \in Nat
          /\ UNCHANGED <<vList, vpc, vPkt, codec, frame>> /\ FrameOut' = FrameOut
        BY <1>1, SeekSets, WholeTypes DEF Seek, FrameOut
    <2>2. \A k \in DOMAIN codec : codec[k].e \in Nat
        BY CodecTypes, ListFields
    <2>3. FrameOut => frame.e \in Nat
        BY CodecTypes, PacketFields
    <2>4. /\ \A k \in DOMAIN codec : codec[k].e <= hist.epoch + 1 /\ codec[k].e # hist.epoch + 1
          /\ FrameOut => frame.e <= hist.epoch + 1 /\ frame.e # hist.epoch + 1
        BY <2>1, <2>2, <2>3 DEF CodecInv
    <2> QED
        BY <2>1, <2>4 DEF CodecInv, Behind
<1>2. CASE LoopTop \/ SeekFails \/ Unmark
    BY <1>2, CodecQuiet DEF LoopTop, SeekFails, Unmark
<1>3. CASE ResetAudioClock \/ ResetVideoClock \/ ClearAudio
    BY <1>3, CodecQuiet DEF ResetAudioClock, ResetVideoClock, ClearAudio
<1>4. CASE ReadSizes \/ ReadEof \/ ReadFails
    BY <1>4, CodecQuiet DEF ReadSizes, ReadEof, ReadFails, NextIteration
<1>5. CASE MarkVideo \/ MarkAudio
    <2>1. hist'.epoch = hist.epoch
        BY <1>5, VideoTypes DEF MarkVideo, MarkAudio, History
    <2> QED
        BY <1>5, <2>1, CodecQuiet DEF MarkVideo, MarkAudio
<1>6. CASE ClearVideo
    <2>1. /\ vList' = <<>> /\ rpc' = "sizes" /\ UNCHANGED <<pos, vpc, vPkt, codec, frame, hist>>
          /\ FrameOut' = FrameOut
        BY <1>6 DEF ClearVideo, FrameOut
    <2> QED
        BY <2>1 DEF CodecInv, Behind
<1>7. CASE ReadPacket
    <2> DEFINE pkt == [i |-> pos, e |-> hist.epoch]
    <2>1. /\ rpc = "read" /\ rpc' = "top" /\ pos \in 1 .. Len(File) /\ pos' = pos + 1
          /\ vList' = Append(vList, pkt) \/ vList' = vList
          /\ UNCHANGED <<vpc, vPkt, codec, frame, hist>> /\ FrameOut' = FrameOut
        BY <1>7, WholeTypes, FileDomain DEF ReadPacket, NextIteration, FrameOut
    <2>2. pkt \in Packet /\ pkt.i = pos /\ pkt.e = hist.epoch /\ vList \in Seq(Packet) /\ pos \in Nat
        BY <2>1, WholeTypes, VideoTypes DEF Packet
    <2> HIDE DEF pkt
    <2>3. \A j \in DOMAIN vList' : vList'[j] = pkt \/ (j \in DOMAIN vList /\ vList'[j] = vList[j])
        BY <2>1, <2>2, AppendedTo
    <2>4. \A k \in DOMAIN codec : codec[k].e = hist.epoch => codec[k].i < pos
        BY DEF CodecInv
    <2>5. \A k \in DOMAIN codec : codec[k].i \in Nat
        BY CodecTypes, ListFields
    <2>6. \A k \in DOMAIN codec : codec[k].e = hist.epoch => codec[k].i < pos + 1
        BY <2>2, <2>4, <2>5
    <2>7. \A k \in DOMAIN codec : \A j \in DOMAIN vList' : Behind(codec[k], vList'[j], hist.epoch)
        BY <2>2, <2>3, <2>4 DEF CodecInv, Behind
    <2> QED
        BY <2>1, <2>6, <2>7 DEF CodecInv, Behind
<1> QED
    BY <1>1, <1>2, <1>3, <1>4, <1>5, <1>6, <1>7 DEF Reader

LEMMA CodecDecoder ==
    ASSUME TypeOK, FreshInv, VideoInv, CodecInv, Video
    PROVE  CodecInv'
<1> USE DEF marks, reader
<1>1. hist'.epoch = hist.epoch /\ pos' = pos /\ rpc' = rpc
    <2>1. pos' = pos /\ rpc' = rpc
        BY DEF Video, VideoPop, VideoClock, VideoDecode, VideoTest, VideoUnseek, VideoSync,
           VideoEmit
    <2> QED
        BY <2>1, VideoKeeps DEF Sought
<1>2. CASE VideoPop
    <2>1. /\ vpc' = "clock" /\ vPkt' = Head(vList) /\ vList' = Tail(vList) /\ vList # <<>>
          /\ codec' = codec /\ ~FrameOut' /\ vList \in Seq(Packet)
        BY <1>2, VideoTypes DEF VideoPop, FrameOut
    <2>2. /\ 1 \in DOMAIN vList /\ vPkt' = vList[1]
          /\ \A j \in DOMAIN vList' : j + 1 \in DOMAIN vList /\ vList'[j] = vList[j + 1]
        BY <2>1, HeadAndTail
    <2>3. \A k \in DOMAIN codec : /\ Behind(codec[k], vPkt', hist.epoch)
                                  /\ \A j \in DOMAIN vList' : Behind(codec[k], vList'[j], hist.epoch)
        BY <2>2 DEF CodecInv
    <2> QED
        BY <1>1, <2>1, <2>3 DEF CodecInv
<1>3. CASE VideoClock
    <2>1. /\ vpc = "clock" /\ vpc' = "decode" /\ UNCHANGED <<vList, vPkt, codec>> /\ ~FrameOut'
        BY <1>3 DEF VideoClock, FrameOut
    <2> QED
        BY <1>1, <2>1 DEF CodecInv
<1>4. CASE VideoDecode
    <2> DEFINE fed == Append(codec, vPkt)
    <2>1. /\ vpc = "decode" /\ codec \in Seq(Packet) /\ vPkt \in Packet /\ vList' = vList
          /\ VideoHand = {vPkt} /\ vpc' \notin {"clock", "decode"}
        BY <1>4 DEF VideoDecode, TypeOK, VideoHand, VideoPkt
    <2>2. /\ fed \in Seq(Packet) /\ fed # <<>> /\ Len(codec) \in Nat
          /\ \A k \in DOMAIN fed : \/ k \in DOMAIN codec /\ fed[k] = codec[k] /\ k # Len(codec) + 1
                                   \/ k = Len(codec) + 1 /\ fed[k] = vPkt
          /\ \A k \in DOMAIN codec : k \in Nat /\ k <= Len(codec)
        BY <2>1
    <2>3. \/ codec' = fed /\ ~FrameOut'
          \/ codec' = Tail(fed) /\ frame' = Head(fed)
        BY <1>4 DEF VideoDecode, FrameOut
    <2> HIDE DEF fed
    <2>4. /\ vPkt.e <= hist.epoch
          /\ vPkt.e = hist.epoch => rpc \notin VideoClearing /\ vPkt.i < pos
        BY <2>1 DEF VideoInv, InOrder, AllOld
    <2>5. \A j \in DOMAIN vList : Behind(vPkt, vList[j], hist.epoch)
        <3> SUFFICES ASSUME NEW j \in DOMAIN vList, vPkt.e = hist.epoch
                     PROVE  vList[j].e = hist.epoch /\ vPkt.i < vList[j].i
            BY DEF Behind
        <3>1. rpc \in {"top", "seek", "sizes", "read", "finished"}
            BY <2>4 DEF TypeOK, VideoClearing, AudioClearing
        <3>2. vList[j].e = hist.epoch
            BY <3>1 DEF FreshInv
        <3> QED
            BY <2>1, <3>2 DEF VideoInv, InOrder
    <2>6. \A k \in DOMAIN fed :
             /\ fed[k].e <= hist.epoch
             /\ fed[k].e = hist.epoch => rpc \notin VideoClearing /\ fed[k].i < pos
             /\ \A j \in DOMAIN vList : Behind(fed[k], vList[j], hist.epoch)
        BY <2>2, <2>4, <2>5 DEF CodecInv
    <2>7. \A j, k \in DOMAIN fed : j < k => Behind(fed[j], fed[k], hist.epoch)
        <3> SUFFICES ASSUME NEW j \in DOMAIN fed, NEW k \in DOMAIN fed, j < k
                     PROVE  Behind(fed[j], fed[k], hist.epoch)
            OBVIOUS
        <3>1. j \in DOMAIN codec /\ fed[j] = codec[j]
            BY <2>2
        <3>2. CASE k \in DOMAIN codec /\ fed[k] = codec[k]
            BY <3>1, <3>2 DEF CodecInv
        <3>3. CASE fed[k] = vPkt
            BY <2>1, <3>1, <3>3 DEF CodecInv
        <3> QED
            BY <2>2, <3>2, <3>3
    <2>8. CASE codec' = fed /\ ~FrameOut'
        BY <1>1, <2>1, <2>6, <2>7, <2>8 DEF CodecInv
    <2>9. CASE codec' = Tail(fed) /\ frame' = Head(fed)
        <3>1. /\ \A k \in DOMAIN codec' : k + 1 \in DOMAIN fed /\ codec'[k] = fed[k + 1] /\ 1 < k + 1
              /\ 1 \in DOMAIN fed /\ frame' = fed[1] /\ codec' \in Seq(Packet)
            BY <2>2, <2>9, Shifted, HeadAndTail
        <3>2. \A j, k \in DOMAIN codec' : j < k => j + 1 < k + 1
            BY <3>1
        <3>3. \A j, k \in DOMAIN codec' : j < k => Behind(codec'[j], codec'[k], hist.epoch)
            BY <2>7, <3>1, <3>2
        <3>4. \A k \in DOMAIN codec' :
                 /\ codec'[k].e <= hist.epoch
                 /\ codec'[k].e = hist.epoch => rpc \notin VideoClearing /\ codec'[k].i < pos
                 /\ \A j \in DOMAIN vList : Behind(codec'[k], vList[j], hist.epoch)
                 /\ Behind(frame', codec'[k], hist.epoch)
            BY <2>6, <2>7, <3>1
        <3>5. frame'.e <= hist.epoch /\ (frame'.e = hist.epoch => rpc \notin VideoClearing)
            BY <2>6, <3>1
        <3> QED
            BY <1>1, <2>1, <3>3, <3>4, <3>5 DEF CodecInv
    <2> QED
        BY <2>3, <2>8, <2>9
<1>5. CASE VideoTest \/ VideoUnseek \/ VideoSync \/ VideoEmit
    <2>1. /\ UNCHANGED <<vList, codec>> /\ vpc' \notin {"clock", "decode"}
          /\ FrameOut' => FrameOut /\ frame' = frame
        BY <1>5 DEF VideoTest, VideoUnseek, VideoSync, VideoEmit, FrameOut
    <2> QED
        BY <1>1, <2>1 DEF CodecInv
<1> QED
    BY <1>2, <1>3, <1>4, <1>5 DEF Video

LEMMA CodecStep ==
    ASSUME TypeOK, FreshInv, VideoInv, CodecInv, Next
    PROVE  CodecInv'
<1>1. CASE Audio
    <2>1. UNCHANGED <<rpc, pos, vList, vpc, vPkt, codec, frame>>
        BY <1>1 DEF Audio, AudioPop, AudioClock, AudioTest, AudioUnseek, AudioPlay, reader, video
    <2> QED
        BY <1>1, <2>1, AudioKeeps, CodecQuiet DEF Sought
<1>2. ASSUME NEW target \in Targets, SetTime(target) PROVE CodecInv'
    BY <1>2, CodecQuiet DEF SetTime, reader, video
<1> QED
    BY <1>1, <1>2, CodecReader, CodecDecoder DEF Next

-----------------------------------------------------------------------------
(***************************************************************************)
(* The end of the file.                                                    *)
(***************************************************************************)
\* The decoders take packets only from a list that is not empty.
LEMMA EndDecoders ==
    ASSUME TypeOK, EndInv, Audio \/ Video
    PROVE  EndInv'
<1> USE DEF reader
<1>1. UNCHANGED <<rpc, pos, aSize, vSize>>
    BY DEF Audio, AudioPop, AudioClock, AudioTest, AudioUnseek, AudioPlay,
       Video, VideoPop, VideoClock, VideoDecode, VideoTest, VideoUnseek, VideoSync, VideoEmit
<1>2. hist'.start = hist.start
    BY AudioKeeps, VideoKeeps DEF Sought
<1>3. aList' = aList \/ aList # <<>>
    BY DEF Audio, AudioPop, AudioClock, AudioTest, AudioUnseek, AudioPlay,
       Video, VideoPop, VideoClock, VideoDecode, VideoTest, VideoUnseek, VideoSync, VideoEmit
<1>4. vList' = vList \/ vList # <<>>
    BY DEF Audio, AudioPop, AudioClock, AudioTest, AudioUnseek, AudioPlay,
       Video, VideoPop, VideoClock, VideoDecode, VideoTest, VideoUnseek, VideoSync, VideoEmit
<1> QED
    BY <1>1, <1>2, <1>3, <1>4 DEF EndInv

LEMMA EndReader ==
    ASSUME TypeOK, EndInv, Reader
    PROVE  EndInv'
<1> USE DEF VideoClearing, AudioClearing
<1>1. ASSUME NEW p \in 1 .. Len(File) + 1, Seek(p) PROVE EndInv'
    <2>1. hist'.start = p
        BY <1>1, SeekSets
    <2> QED
        BY <1>1, <2>1 DEF Seek, EndInv
<1> SUFFICES ASSUME \A p \in 1 .. Len(File) + 1 : ~Seek(p)
             PROVE  EndInv'
    BY <1>1
<1>2. hist'.start = hist.start
    BY ReaderPlays
<1>3. CASE LoopTop \/ SeekFails \/ MarkVideo \/ MarkAudio \/ Unmark
    <2>1. pos' = pos /\ rpc' \notin {"read", "finished"} /\ (rpc' \in VideoClearing => rpc \in VideoClearing)
        BY <1>3 DEF LoopTop, SeekFails, MarkVideo, MarkAudio, Unmark
    <2> QED
        BY <1>2, <2>1 DEF EndInv
<1>4. CASE ResetAudioClock \/ ResetVideoClock \/ ClearAudio \/ ClearVideo
    <2>1. pos' = pos /\ rpc' \notin {"read", "finished"} /\ (rpc' \in VideoClearing => rpc \in VideoClearing)
        BY <1>4 DEF ResetAudioClock, ResetVideoClock, ClearAudio, ClearVideo
    <2> QED
        BY <1>2, <2>1 DEF EndInv
<1>5. CASE ReadSizes
    <2>1. aList \in Seq(Packet) /\ vList \in Seq(Packet)
        BY AudioTypes, VideoTypes
    <2>2. (Len(aList) = 0 => aList = <<>>) /\ (Len(vList) = 0 => vList = <<>>)
        BY <2>1
    <2>3. /\ rpc' \notin VideoClearing /\ rpc' # "finished" /\ aList' = aList /\ vList' = vList
          /\ rpc' = "read" => aSize' = Len(aList) /\ vSize' = Len(vList)
        BY <1>5 DEF ReadSizes, NextIteration
    <2> QED
        BY <2>2, <2>3 DEF EndInv
<1>6. CASE ReadPacket \/ ReadFails
    BY <1>6 DEF ReadPacket, ReadFails, NextIteration, EndInv
<1>7. CASE ReadEof
    <2>1. pos = Len(File) + 1 /\ pos' = pos /\ aList' = aList /\ vList' = vList /\ rpc = "read"
        BY <1>7, WholeTypes, FileDomain DEF ReadEof
    <2>2. rpc' = "top" \/ (rpc' = "finished" /\ vSize = 0 /\ aSize = 0)
        BY <1>7 DEF ReadEof, NextIteration
    <2> QED
        BY <2>1, <2>2 DEF EndInv
<1> QED
    BY <1>3, <1>4, <1>5, <1>6, <1>7 DEF Reader

-----------------------------------------------------------------------------
(***************************************************************************)
(* The theorems about what is lost and what is played.                     *)
(***************************************************************************)
LEMMA WholeStep ==
    ASSUME Inv, WholeInv, Next
    PROVE  WholeInv'
<1> USE DEF Inv, SeekInv, WholeInv
<1>1. AudioWhole' /\ VideoWhole' /\ CodecInv'
    BY AudioWholeStep, VideoWholeStep, CodecStep
<1>2. EndInv'
    <2>1. ASSUME NEW target \in Targets, SetTime(target) PROVE EndInv'
        BY <2>1 DEF SetTime, reader, EndInv
    <2> QED
        BY <2>1, EndReader, EndDecoders DEF Next
<1> QED
    BY <1>1, <1>2

LEMMA WholeStuttering ==
    ASSUME Inv, WholeInv, UNCHANGED vars
    PROVE  WholeInv'
<1> USE DEF Inv, SeekInv, WholeInv, vars, reader, marks, audio, video
<1>1. AudioWhole'
    BY AudioWholeQuiet
<1>2. VideoWhole'
    BY VideoWholeQuiet
<1>3. CodecInv'
    BY CodecQuiet
<1>4. EndInv'
    BY DEF EndInv
<1> QED
    BY <1>1, <1>2, <1>3, <1>4

LEMMA WholeInit == Init => WholeInv
<1> SUFFICES ASSUME Init PROVE WholeInv
    OBVIOUS
<1>1. /\ rpc = "top" /\ pos = 1 /\ aList = <<>> /\ vList = <<>> /\ codec = <<>>
      /\ apc = "idle" /\ vpc = "idle" /\ hist.start = 1
    BY DEF Init
<1>2. AudioHand = {} /\ VideoPopped = {} /\ ~FrameOut
    BY <1>1 DEF AudioHand, VideoPopped, FrameOut
<1>3. AudioWhole
    BY <1>1, <1>2, CoversNone DEF AudioWhole, Gapless
<1>4. VideoWhole
    BY <1>1, <1>2, CoversNone DEF VideoWhole, Gapless
<1>5. CodecInv
    BY <1>1, <1>2 DEF CodecInv
<1>6. EndInv
    BY <1>1 DEF EndInv, VideoClearing, AudioClearing
<1> QED
    BY <1>3, <1>4, <1>5, <1>6 DEF WholeInv

\* Whatever was read since the last seek and is due is played, waits, or is in hand or in
\* the codec: the invariant behind the two theorems below.
THEOREM NothingGoesAstray == Spec => []WholeInv
<1>1. Init => WholeInv
    BY WholeInit
<1>2. Inv /\ WholeInv /\ [Next]_vars => WholeInv'
    BY WholeStep, WholeStuttering
<1> QED
    BY <1>1, <1>2, SessionIsInvariant, PTL DEF Spec

\* Packets wait in file order and none is lost, duplicated or put in the other list, for
\* any file, whatever the decoders and a seek do meanwhile (VideoPlayer.cpp:176-184,
\* VideoPlayerAudio.cpp:150-153, VideoPlayerVideo.cpp:64-67).
THEOREM NoPacketIsLost == Spec => []NothingLost
<1>1. Inv /\ WholeInv => NothingLost
    <2> SUFFICES ASSUME Inv, WholeInv PROVE NothingLost
        OBVIOUS
    <2>1. InOrder(vList, VideoPopped, hist.epoch, pos)
        BY PoppedInOrder DEF Inv, SeekInv
    <2> QED
        BY <2>1 DEF Inv, SeekInv, AudioInv, WholeInv, AudioWhole, VideoWhole, NothingLost
<1> QED
    BY <1>1, SessionIsInvariant, NothingGoesAstray, PTL

\* A session that ends by itself has played every packet it had to, for any file, after any
\* seeks; what the video codec holds back is excepted (VideoPlayer.cpp:185-188).
THEOREM SessionPlaysAll == Spec => []EverythingPlayed
<1>1. WholeInv /\ TypeOK => EverythingPlayed
    <2> SUFFICES ASSUME WholeInv, TypeOK, Ended
                 PROVE  /\ Due("a", hist.aTarget) \subseteq hist.played
                        /\ Due("v", hist.vTarget) \subseteq hist.played \cup Held
        BY DEF EverythingPlayed
    <2>1. /\ pos = Len(File) + 1 /\ aList = <<>> /\ vList = <<>> /\ AudioHand = {}
          /\ VideoPopped = {} /\ InCodec = {codec[k] : k \in DOMAIN codec}
        BY DEF Ended, WholeInv, EndInv, AudioHand, VideoPopped, InCodec, FrameOut
    <2>2. pos - 1 = Len(File)
        BY <2>1, FileDomain
    <2>3. \A i, e : ~Waits(<<>>, i, e)
        BY DEF Waits
    <2>4. Due("a", hist.aTarget) \subseteq hist.played
        BY <2>1, <2>2, <2>3 DEF Due, WholeInv, AudioWhole, Covers
    <2>5. \A i : (\E pkt \in InCodec : IsNew(pkt, i, hist.epoch)) => i \in Held
        BY <2>1 DEF IsNew, Held
    <2>6. VideoPopped \cup InCodec = InCodec
        BY <2>1
    <2>7. Due("v", hist.vTarget) \subseteq hist.played \cup Held
        BY <2>1, <2>2, <2>3, <2>5, <2>6 DEF Due, WholeInv, VideoWhole, Covers
    <2> QED
        BY <2>4, <2>7
<1> QED
    BY <1>1, SessionIsInvariant, NothingGoesAstray, PTL DEF Inv

-----------------------------------------------------------------------------
(***************************************************************************)
(* What is still to be played: PlayedInv.                                  *)
(***************************************************************************)
AudioToCome == Listed(aList) \cup AudioHand
VideoToCome == Listed(vList) \cup VideoPopped \cup InCodec

LEMMA ToComeTypes ==
    ASSUME TypeOK
    PROVE  AudioToCome \in SUBSET Packet /\ VideoToCome \in SUBSET Packet
<1>1. \A list \in Seq(Packet) : Listed(list) \subseteq Packet
    BY ElementOf DEF Listed
<1>2. InCodec \subseteq Packet
    BY CodecTypes, ElementOf DEF InCodec
<1> QED
    BY <1>1, <1>2, AudioTypes, CodecTypes DEF AudioToCome, VideoToCome

\* Nothing of a later epoch is to come, and each stream has its own packets.
LEMMA ToComeIsRead ==
    ASSUME TypeOK, AudioInv, VideoInv, CodecInv
    PROVE  \A pkt \in AudioToCome \cup VideoToCome : pkt.e <= hist.epoch
<1>1. \A pkt \in AudioToCome : pkt.e <= hist.epoch
    BY DEF AudioToCome, AudioInv, InOrder, Listed
<1>2. \A pkt \in Listed(vList) \cup VideoPopped : pkt.e <= hist.epoch
    BY PoppedInOrder DEF InOrder, Listed
<1>3. \A pkt \in InCodec : pkt.e <= hist.epoch
    BY DEF CodecInv, InCodec
<1> QED
    BY <1>1, <1>2, <1>3 DEF VideoToCome

LEMMA ToComeStreams ==
    ASSUME AudioWhole, VideoWhole, PlayedInv
    PROVE  /\ \A pkt \in AudioToCome : File[pkt.i].s = "a"
           /\ \A pkt \in VideoToCome : File[pkt.i].s = "v"
BY DEF AudioWhole, VideoWhole, PlayedInv, AudioToCome, VideoToCome, Gapless, Complete, Listed

\* A step that plays nothing and after which nothing new is to come.
LEMMA PlayedShrinks ==
    ASSUME TypeOK, PlayedInv, pos' = pos,
           hist'.epoch = hist.epoch, hist'.start = hist.start, hist'.played = hist.played,
           AudioToCome' \subseteq AudioToCome, VideoToCome' \subseteq VideoToCome,
           \A pkt \in InCodec' : File[pkt.i].s = "v",
           Len(codec') <= Delay,
           rpc' \in AudioClearing => rpc \in AudioClearing,
           rpc' \in {"mark_v", "mark_a"} => seekTime' >= 0
    PROVE  PlayedInv'
<1>1. \A pkt : NotYet(pkt) => NotYet(pkt)'
    BY DEF NotYet
<1>2. /\ \A pkt \in AudioToCome' : NotYet(pkt)'
      /\ \A pkt \in VideoToCome' : NotYet(pkt)'
    BY <1>1 DEF PlayedInv, AudioToCome, VideoToCome
<1> QED
    BY <1>2 DEF PlayedInv, AudioToCome, VideoToCome

LEMMA PlayedQuiet ==
    ASSUME TypeOK, PlayedInv, UNCHANGED <<pos, aList, apc, aPkt, vList, vpc, vPkt, codec, frame>>,
           hist'.epoch = hist.epoch, hist'.start = hist.start, hist'.played = hist.played,
           rpc' \in AudioClearing => rpc \in AudioClearing,
           rpc' \in {"mark_v", "mark_a"} => seekTime' >= 0
    PROVE  PlayedInv'
<1>1. AudioToCome' = AudioToCome /\ VideoToCome' = VideoToCome /\ InCodec' = InCodec
    BY DEF AudioToCome, VideoToCome, AudioHand, VideoPopped, InCodec, FrameOut, Listed
<1>2. /\ \A pkt \in InCodec' : File[pkt.i].s = "v"
      /\ Len(codec') <= Delay
    BY <1>1 DEF PlayedInv
<1> QED
    BY <1>1, <1>2, PlayedShrinks

LEMMA PlayedSeek ==
    ASSUME TypeOK, CountInv, AudioInv, VideoInv, CodecInv, PlayedInv,
           NEW p \in 1 .. Len(File) + 1, Seek(p)
    PROVE  PlayedInv'
<1>1. /\ hist'.epoch = hist.epoch + 1 /\ hist'.start = p /\ hist'.played = {}
      /\ pos' = p /\ rpc' = "mark_v" /\ seekTime' = seekTime /\ seekTime >= 0 /\ codec' = codec
    BY SeekSets, SeekPlays DEF Seek, CountInv, marks, video
<1>2. AudioToCome' = AudioToCome /\ VideoToCome' = VideoToCome /\ InCodec' = InCodec
    BY DEF Seek, audio, video, AudioToCome, VideoToCome, AudioHand, VideoPopped, InCodec,
       FrameOut, Listed
<1>3. \A pkt \in AudioToCome \cup VideoToCome : pkt.e \in Nat /\ pkt.e <= hist.epoch
    BY ToComeTypes, ToComeIsRead, PacketFields
<1>4. \A pkt \in AudioToCome \cup VideoToCome : NotYet(pkt)'
    BY <1>1, <1>3, WholeTypes DEF NotYet
<1>5. p \in Nat
    BY FileDomain
<1> QED
    BY <1>1, <1>2, <1>4, <1>5 DEF PlayedInv, AudioToCome, VideoToCome

LEMMA PlayedRead ==
    ASSUME TypeOK, PlayedInv, ReadPacket
    PROVE  PlayedInv'
<1> DEFINE pkt == [i |-> pos, e |-> hist.epoch]
<1>1. /\ pos \in 1 .. Len(File) /\ pos' = pos + 1 /\ rpc' = "top" /\ hist' = hist /\ codec' = codec
      /\ aList' \in {aList, Append(aList, pkt)} /\ vList' \in {vList, Append(vList, pkt)}
      /\ InCodec' = InCodec /\ AudioHand' = AudioHand /\ VideoPopped' = VideoPopped
    BY WholeTypes, FileDomain DEF ReadPacket, NextIteration, audio, video, InCodec, FrameOut,
       AudioHand, VideoPopped
<1>2. pkt \in Packet /\ pkt.i = pos /\ pos \in Nat
    BY <1>1, WholeTypes DEF Packet
<1> HIDE DEF pkt
<1>3. \A list \in Seq(Packet) : Listed(Append(list, pkt)) \subseteq Listed(list) \cup {pkt}
    BY <1>2, AppendedTo DEF Listed
<1>4. /\ Listed(aList') \subseteq Listed(aList) \cup {pkt}
      /\ Listed(vList') \subseteq Listed(vList) \cup {pkt}
    BY <1>1, <1>3, AudioTypes, VideoTypes DEF Listed
<1>5. NotYet(pkt)
    <2>1. \A i \in hist.played : i < pos
        BY <1>2, WholeTypes DEF PlayedInv
    <2> QED
        BY <1>2, <2>1 DEF NotYet, PlayedInv
<1>6. /\ \A q \in Listed(aList') \cup AudioHand : NotYet(q)
      /\ \A q \in Listed(vList') \cup VideoPopped \cup InCodec : NotYet(q)
    BY <1>4, <1>5 DEF PlayedInv
<1>7. /\ hist.start <= pos + 1
      /\ hist.played \subseteq hist.start .. (pos + 1) - 1
    BY <1>2, WholeTypes DEF PlayedInv
<1>8. \A q : NotYet(q)' <=> NotYet(q)
    BY <1>1 DEF NotYet
<1> QED
    BY <1>1, <1>6, <1>7, <1>8 DEF PlayedInv, AudioClearing

LEMMA PlayedReader ==
    ASSUME TypeOK, CountInv, AudioInv, VideoInv, CodecInv, EndInv, PlayedInv, Reader
    PROVE  PlayedInv'
<1> USE DEF marks, audio, video
<1> SUFFICES ASSUME \A p \in 1 .. Len(File) + 1 : ~Seek(p), ~ReadPacket
             PROVE  PlayedInv'
    BY PlayedSeek, PlayedRead
<1>1. /\ hist'.epoch = hist.epoch /\ hist'.start = hist.start /\ hist'.played = hist.played
    BY ReaderPlays
<1> USE DEF AudioClearing
<1>2. CASE LoopTop \/ SeekFails \/ MarkVideo \/ MarkAudio \/ Unmark
    <2>1. /\ UNCHANGED <<pos, aList, apc, aPkt, vList, vpc, vPkt, codec, frame>>
          /\ rpc' \in AudioClearing => rpc \in AudioClearing
          /\ rpc' \in {"mark_v", "mark_a"} => seekTime' >= 0
        BY <1>2 DEF LoopTop, SeekFails, MarkVideo, MarkAudio, Unmark, PlayedInv
    <2> QED
        BY <1>1, <2>1, PlayedQuiet
<1>3. CASE ResetAudioClock \/ ResetVideoClock
    <2>1. /\ UNCHANGED <<pos, aList, apc, aPkt, vList, vpc, vPkt, codec, frame>>
          /\ rpc' \in AudioClearing => rpc \in AudioClearing
          /\ rpc' \notin {"mark_v", "mark_a"}
        BY <1>3 DEF ResetAudioClock, ResetVideoClock
    <2> QED
        BY <1>1, <2>1, PlayedQuiet
<1>4. CASE ReadSizes \/ ReadEof \/ ReadFails
    <2>1. /\ UNCHANGED <<pos, aList, apc, aPkt, vList, vpc, vPkt, codec, frame>>
          /\ rpc' \notin AudioClearing
        BY <1>4 DEF ReadSizes, ReadEof, ReadFails, NextIteration
    <2> QED
        BY <1>1, <2>1, PlayedQuiet
<1>5. CASE ClearAudio \/ ClearVideo
    <2>1. /\ UNCHANGED <<pos, apc, aPkt, vpc, vPkt, codec, frame>> /\ rpc' \notin AudioClearing
          /\ aList' \in {aList, <<>>} /\ vList' \in {vList, <<>>}
        BY <1>5 DEF ClearAudio, ClearVideo
    <2>2. InCodec' = InCodec /\ AudioHand' = AudioHand /\ VideoPopped' = VideoPopped
        BY <2>1 DEF InCodec, FrameOut, AudioHand, VideoPopped
    <2>3. Listed(aList') \subseteq Listed(aList) /\ Listed(vList') \subseteq Listed(vList)
        BY <2>1 DEF Listed
    <2>4. AudioToCome' \subseteq AudioToCome /\ VideoToCome' \subseteq VideoToCome
        BY <2>2, <2>3 DEF AudioToCome, VideoToCome
    <2>5. /\ \A pkt \in InCodec' : File[pkt.i].s = "v"
          /\ Len(codec') <= Delay
        BY <2>1, <2>2 DEF PlayedInv
    <2> QED
        BY <1>1, <2>1, <2>4, <2>5, PlayedShrinks
<1> QED
    BY <1>2, <1>3, <1>4, <1>5 DEF Reader

\* One of two packets of a stream is played: what is to come of either stream is after it.
LEMMA PlayedOne ==
    ASSUME TypeOK, PlayedInv, NEW pkt \in AudioToCome \cup VideoToCome, pkt.e = hist.epoch,
           pkt.i < pos, rpc \notin AudioClearing,
           UNCHANGED <<pos, rpc, seekTime, codec>>,
           hist'.epoch = hist.epoch, hist'.start = hist.start,
           hist'.played = hist.played \cup {pkt.i},
           AudioToCome' \subseteq AudioToCome, VideoToCome' \subseteq VideoToCome,
           InCodec' \subseteq InCodec,
           \A q \in AudioToCome' \cup VideoToCome' :
              q.e = hist.epoch /\ File[q.i].s = File[pkt.i].s => pkt.i < q.i
    PROVE  PlayedInv'
<1>1. NotYet(pkt)
    BY DEF PlayedInv, AudioToCome, VideoToCome
<1>2. pkt.i \in Nat /\ pos \in Nat /\ hist.start \in Nat
    BY ToComeTypes, PacketFields, WholeTypes
<1>3. hist'.played \subseteq hist.start .. pos - 1
    <2>1. pkt.i \in hist.start .. pos - 1
        BY <1>1, <1>2 DEF NotYet
    <2> QED
        BY <2>1 DEF PlayedInv
<1>4. \A q \in AudioToCome' \cup VideoToCome' : NotYet(q)
    BY DEF PlayedInv, AudioToCome, VideoToCome
<1>5. \A q \in AudioToCome' \cup VideoToCome' : NotYet(q)'
    BY <1>4 DEF NotYet
<1> QED
    BY <1>3, <1>5 DEF PlayedInv, AudioToCome, VideoToCome, AudioClearing

LEMMA PlayedAudio ==
    ASSUME TypeOK, AudioInv, AudioWhole, VideoWhole, PlayedInv, Audio
    PROVE  PlayedInv'
<1> USE DEF reader, marks, video
<1>1. /\ hist'.epoch = hist.epoch /\ hist'.start = hist.start
      /\ UNCHANGED <<pos, rpc, seekTime, codec, vList, vpc, vPkt, frame>>
    <2>1. UNCHANGED <<pos, rpc, seekTime, codec, vList, vpc, vPkt, frame>>
        BY DEF Audio, AudioPop, AudioClock, AudioTest, AudioUnseek, AudioPlay
    <2> QED
        BY <2>1, AudioKeeps DEF Sought
<1>2. InCodec' = InCodec /\ VideoPopped' = VideoPopped /\ VideoToCome' = VideoToCome
    BY <1>1 DEF InCodec, VideoPopped, FrameOut, VideoToCome, Listed
<1>3. AudioToCome' \subseteq AudioToCome
    <2>1. CASE AudioPop
        <3>1. /\ aList # <<>> /\ aList' = Tail(aList) /\ AudioHand' = {Head(aList)}
            BY <2>1 DEF AudioPop, AudioHand
        <3>2. Listed(aList') \subseteq Listed(aList) /\ Head(aList) \in Listed(aList)
            BY <3>1, AudioTypes, HeadAndTail DEF Listed
        <3> QED
            BY <3>1, <3>2 DEF AudioToCome
    <2>2. CASE ~AudioPop
        <3>1. aList' = aList /\ AudioHand' \subseteq AudioHand
            BY <2>2 DEF Audio, AudioClock, AudioTest, AudioUnseek, AudioPlay, AudioHand
        <3> QED
            BY <3>1 DEF AudioToCome, Listed
    <2> QED
        BY <2>1, <2>2
<1>4. CASE hist'.played = hist.played
    <2>1. /\ \A pkt \in InCodec' : File[pkt.i].s = "v"
          /\ Len(codec') <= Delay
          /\ rpc' \in {"mark_v", "mark_a"} => seekTime' >= 0
        BY <1>1, <1>2 DEF PlayedInv
    <2> QED
        BY <1>1, <1>2, <1>3, <1>4, <2>1, PlayedShrinks
<1>5. CASE apc = "play" /\ aPkt.e = hist.epoch
    <2>1. AudioHand = {aPkt} /\ aPkt \in AudioToCome
        BY <1>5 DEF AudioHand, AudioToCome
    <2>2. hist'.played = hist.played \cup {aPkt.i} /\ aList' = aList /\ AudioHand' = {}
        BY <1>5, AudioPlays DEF Audio, AudioPop, AudioClock, AudioTest, AudioUnseek, AudioPlay,
           AudioHand
    <2>3. aPkt.i < pos /\ rpc \notin AudioClearing
        BY <1>5, <2>1 DEF AudioInv, InOrder, AllOld
    <2>4. \A q \in AudioToCome' : q.e = hist.epoch => aPkt.i < q.i
        BY <1>5, <2>1, <2>2 DEF AudioInv, InOrder, AudioToCome, Listed
    <2>5. File[aPkt.i].s = "a" /\ \A q \in VideoToCome : File[q.i].s = "v"
        BY <2>1, ToComeStreams
    <2>6. \A q \in AudioToCome' \cup VideoToCome' :
             q.e = hist.epoch /\ File[q.i].s = File[aPkt.i].s => aPkt.i < q.i
        BY <1>2, <2>4, <2>5
    <2> QED
        BY <1>1, <1>2, <1>3, <1>5, <2>1, <2>2, <2>3, <2>6, PlayedOne
<1> QED
    BY <1>4, <1>5, AudioPlays

\* The frame that is out comes before whatever waits.
LEMMA FrameFirst ==
    ASSUME TypeOK, VideoInv, CodecInv, FrameOut, frame.e = hist.epoch
    PROVE  /\ frame.i < pos
           /\ \A k \in DOMAIN codec : frame.i < codec[k].i
           /\ \A k \in DOMAIN vList : vList[k].e = hist.epoch => frame.i < vList[k].i
<1>1. VideoHand = {LastSent} /\ LastSent \in Packet /\ frame \in Packet /\ codec \in Seq(Packet)
    BY LastSentType, CodecTypes DEF VideoHand, VideoPkt, FrameOut
<1>2. \A k \in DOMAIN codec : codec[k].e = hist.epoch /\ frame.i < codec[k].i
    BY DEF CodecInv, Behind
<1>3. LastSent.e = hist.epoch /\ frame.i <= LastSent.i
    <2>1. CASE codec = <<>>
        BY <1>1, <2>1, PacketFields DEF LastSent
    <2>2. CASE codec # <<>>
        <3>1. Len(codec) \in DOMAIN codec /\ LastSent = codec[Len(codec)]
            BY <1>1, <2>2 DEF LastSent
        <3>2. LastSent.e = hist.epoch /\ frame.i < LastSent.i
            BY <1>2, <3>1
        <3> QED
            BY <1>1, <3>2, PacketFields
    <2> QED
        BY <2>1, <2>2
<1>4. /\ LastSent.i < pos
      /\ \A k \in DOMAIN vList : vList[k].e = hist.epoch => LastSent.i < vList[k].i
    BY <1>1, <1>3 DEF VideoInv, InOrder
<1>5. /\ frame.i \in Nat /\ LastSent.i \in Nat /\ pos \in Nat
      /\ \A k \in DOMAIN vList : vList[k].i \in Nat
    BY <1>1, VideoTypes, WholeTypes, PacketFields, ListFields
<1> QED
    BY <1>2, <1>3, <1>4, <1>5

\* Where the packets of a decoding step are after it.
LEMMA DecodeMoves ==
    ASSUME TypeOK, PlayedInv, VideoDecode
    PROVE  /\ InCodec' \subseteq InCodec \cup VideoPopped
           /\ Len(codec') <= Delay
<1> DEFINE fed == Append(codec, vPkt)
<1>1. codec \in Seq(Packet) /\ vPkt \in Packet /\ VideoPopped = {vPkt}
    BY DEF TypeOK, VideoDecode, VideoPopped
<1>2. /\ fed \in Seq(Packet) /\ fed # <<>> /\ Len(fed) = Len(codec) + 1
      /\ \A k \in DOMAIN fed : fed[k] = vPkt \/ (k \in DOMAIN codec /\ fed[k] = codec[k])
    BY <1>1, AppendedTo
<1>3. \/ Len(fed) <= Delay /\ codec' = fed /\ vpc' = "idle"
      \/ codec' = Tail(fed) /\ frame' = Head(fed)
    BY <1>1, <1>2 DEF VideoDecode
<1> HIDE DEF fed
<1>4. {fed[k] : k \in DOMAIN fed} \subseteq InCodec \cup VideoPopped
    BY <1>1, <1>2 DEF InCodec
<1>5. CASE Len(fed) <= Delay /\ codec' = fed /\ vpc' = "idle"
    BY <1>4, <1>5 DEF InCodec, FrameOut
<1>6. CASE codec' = Tail(fed) /\ frame' = Head(fed)
    <2>1. /\ frame' = fed[1] /\ 1 \in DOMAIN fed /\ Len(codec') = Len(codec)
          /\ \A k \in DOMAIN codec' : k + 1 \in DOMAIN fed /\ codec'[k] = fed[k + 1]
        BY <1>1, <1>2, <1>6, HeadAndTail
    <2>2. InCodec' \subseteq {fed[k] : k \in DOMAIN fed}
        BY <2>1 DEF InCodec
    <2> QED
        BY <1>4, <2>1, <2>2 DEF PlayedInv
<1> QED
    BY <1>3, <1>5, <1>6

LEMMA PlayedVideo ==
    ASSUME TypeOK, VideoInv, CodecInv, AudioWhole, VideoWhole, PlayedInv, Video
    PROVE  PlayedInv'
<1> USE DEF reader, marks, audio
<1>1. /\ hist'.epoch = hist.epoch /\ hist'.start = hist.start
      /\ UNCHANGED <<pos, rpc, seekTime, aList, apc, aPkt>>
    <2>1. UNCHANGED <<pos, rpc, seekTime, aList, apc, aPkt>>
        BY DEF Video, VideoPop, VideoClock, VideoDecode, VideoTest, VideoUnseek, VideoSync,
           VideoEmit
    <2> QED
        BY <2>1, VideoKeeps DEF Sought
<1>2. AudioToCome' = AudioToCome
    BY <1>1 DEF AudioToCome, AudioHand, Listed
<1>3. rpc' \in {"mark_v", "mark_a"} => seekTime' >= 0
    BY <1>1 DEF PlayedInv
<1>4. CASE VideoPop
    <2>1. /\ vList # <<>> /\ vList' = Tail(vList) /\ VideoPopped' = {Head(vList)}
          /\ InCodec' = InCodec /\ codec' = codec /\ hist' = hist
        BY <1>4 DEF VideoPop, VideoPopped, InCodec, FrameOut
    <2>2. Listed(vList') \subseteq Listed(vList) /\ Head(vList) \in Listed(vList)
        BY <2>1, VideoTypes, HeadAndTail DEF Listed
    <2>3. VideoToCome' \subseteq VideoToCome
        BY <2>1, <2>2 DEF VideoToCome
    <2>4. Len(codec') <= Delay /\ \A pkt \in InCodec' : File[pkt.i].s = "v"
        BY <2>1 DEF PlayedInv
    <2> QED
        BY <1>1, <1>2, <1>3, <2>1, <2>3, <2>4, PlayedShrinks
<1>5. CASE VideoDecode
    <2>1. vList' = vList /\ VideoPopped' = {} /\ hist' = hist
        BY <1>5 DEF VideoDecode, VideoPopped
    <2>2. InCodec' \subseteq InCodec \cup VideoPopped /\ Len(codec') <= Delay
        BY <1>5, DecodeMoves
    <2>3. VideoToCome' \subseteq VideoToCome /\ InCodec' \subseteq VideoToCome
        BY <2>1, <2>2 DEF VideoToCome, Listed
    <2>4. \A pkt \in InCodec' : File[pkt.i].s = "v"
        BY <2>3, ToComeStreams
    <2> QED
        BY <1>1, <1>2, <1>3, <2>1, <2>2, <2>3, <2>4, PlayedShrinks
<1>6. CASE VideoClock \/ VideoTest \/ VideoUnseek \/ VideoSync \/ VideoEmit
    <2>1. /\ vList' = vList /\ codec' = codec /\ VideoPopped' = VideoPopped /\ InCodec' \subseteq InCodec
        BY <1>6 DEF VideoClock, VideoTest, VideoUnseek, VideoSync, VideoEmit, VideoPopped, InCodec,
           FrameOut
    <2>2. VideoToCome' \subseteq VideoToCome
        BY <2>1 DEF VideoToCome, Listed
    <2>3. CASE hist'.played = hist.played
        <3>1. Len(codec') <= Delay /\ \A pkt \in InCodec' : File[pkt.i].s = "v"
            BY <2>1 DEF PlayedInv
        <3> QED
            BY <1>1, <1>2, <1>3, <2>2, <2>3, <3>1, PlayedShrinks
    <2>4. CASE vpc = "emit" /\ frame.e = hist.epoch
        <3>1. /\ FrameOut /\ frame \in VideoToCome /\ VideoPopped = {}
            BY <2>4 DEF FrameOut, VideoToCome, InCodec, VideoPopped
        <3>2. hist'.played = hist.played \cup {frame.i} /\ InCodec' = {codec[k] : k \in DOMAIN codec}
            BY <1>6, <2>4, VideoPlays DEF VideoClock, VideoTest, VideoUnseek, VideoSync, VideoEmit,
               InCodec, FrameOut
        <3>3. rpc \notin AudioClearing
            BY <2>4, <3>1 DEF CodecInv, VideoClearing
        <3>4. frame.i < pos
            BY <2>4, <3>1, FrameFirst
        <3>5. \A q \in VideoToCome' : q.e = hist.epoch => frame.i < q.i
            BY <2>1, <2>4, <3>1, <3>2, FrameFirst DEF VideoToCome, Listed
        <3>6. File[frame.i].s = "v" /\ \A q \in AudioToCome : File[q.i].s = "a"
            BY <3>1, ToComeStreams
        <3>7. \A q \in AudioToCome' \cup VideoToCome' :
                 q.e = hist.epoch /\ File[q.i].s = File[frame.i].s => frame.i < q.i
            BY <1>2, <3>5, <3>6
        <3> QED
            BY <1>1, <1>2, <2>1, <2>2, <2>4, <3>1, <3>2, <3>3, <3>4, <3>7, PlayedOne
    <2> QED
        BY <2>3, <2>4, VideoPlays
<1> QED
    BY <1>4, <1>5, <1>6 DEF Video

LEMMA PlayedStep ==
    ASSUME Inv, WholeInv, PlayedInv, Next
    PROVE  PlayedInv'
<1> USE DEF Inv, SeekInv, WholeInv
<1>1. ASSUME NEW target \in Targets, SetTime(target) PROVE PlayedInv'
    <2>1. /\ UNCHANGED <<rpc, pos, aList, apc, aPkt, vList, vpc, vPkt, codec, frame, hist>>
          /\ seekTime' = target /\ target \in Nat
        BY <1>1 DEF SetTime, reader, audio, video
    <2> QED
        BY <2>1, PlayedQuiet
<1> QED
    BY <1>1, PlayedReader, PlayedAudio, PlayedVideo DEF Next

-----------------------------------------------------------------------------
(***************************************************************************)
(* How far the audio clock is: ClockInv.                                   *)
(***************************************************************************)
\* The packet i, read of the audio stream since the seek, waits, or the clock has come to it.
Reached(i) ==
    \/ Waits(aList, i, hist.epoch)
    \/ IF apc = "clock"
       THEN IsNew(aPkt, i, hist.epoch) \/ (aPkt.e = hist.epoch /\ File[i].t <= aTime)
       ELSE File[i].t <= aTime
AllReached == \A i \in hist.start .. pos - 1 : File[i].s = "a" => Reached(i)
FrameClock == vpc \in {"unseek", "sync"} /\ LastSent.e = hist.epoch => vTime <= Time(LastSent)

LEMMA ClockParts == ClockInv <=> AllReached /\ FrameClock
BY DEF ClockInv, AllReached, Reached, FrameClock

LEMMA ReachedQuiet ==
    ASSUME AllReached, UNCHANGED <<pos, aList, aPkt, aTime>>,
           (apc = "clock") = (apc' = "clock"),
           hist'.epoch = hist.epoch, hist'.start = hist.start
    PROVE  AllReached'
BY DEF AllReached, Reached, Waits

LEMMA ReachedNone ==
    ASSUME TypeOK, pos' = hist'.start, pos' \in Nat
    PROVE  AllReached'
BY DEF AllReached

LEMMA ReachedReader ==
    ASSUME TypeOK, EndInv, AllReached, Reader
    PROVE  AllReached'
<1> USE DEF marks, audio
<1>1. ASSUME NEW p \in 1 .. Len(File) + 1, Seek(p) PROVE AllReached'
    <2>1. hist'.start = p
        BY <1>1, SeekSets
    <2>2. pos' = p /\ p \in Nat
        BY <1>1, FileDomain DEF Seek
    <2> QED
        BY <2>1, <2>2, ReachedNone
<1> SUFFICES ASSUME \A p \in 1 .. Len(File) + 1 : ~Seek(p) PROVE AllReached'
    BY <1>1
<1>2. /\ hist'.epoch = hist.epoch /\ hist'.start = hist.start
    BY ReaderPlays
<1>3. CASE rpc \in VideoClearing
    <2>1. pos' = pos
        BY <1>3 DEF Reader, LoopTop, SeekFails, MarkVideo, MarkAudio, Unmark, ResetAudioClock,
           ResetVideoClock, ClearAudio, ClearVideo, ReadSizes, ReadPacket, ReadEof, ReadFails,
           VideoClearing, AudioClearing
    <2> QED
        BY <1>2, <1>3, <2>1, ReachedNone, WholeTypes DEF EndInv
<1>4. CASE LoopTop \/ SeekFails \/ ReadSizes \/ ReadEof \/ ReadFails
    <2>1. UNCHANGED <<pos, aList, apc, aPkt, aTime>>
        BY <1>4 DEF LoopTop, SeekFails, ReadSizes, ReadEof, ReadFails
    <2> QED
        BY <1>2, <2>1, ReachedQuiet
<1>5. CASE ReadPacket
    <2> DEFINE pkt == [i |-> pos, e |-> hist.epoch]
    <2>1. /\ pos \in 1 .. Len(File) /\ pos' = pos + 1 /\ UNCHANGED <<apc, aPkt, aTime, hist>>
          /\ aList' = IF File[pos].s = "a" THEN Append(aList, pkt) ELSE aList
        BY <1>5, WholeTypes, FileDomain DEF ReadPacket
    <2>2. pkt \in Packet /\ IsNew(pkt, pos, hist.epoch)
        BY <2>1, WholeTypes DEF Packet, IsNew
    <2> HIDE DEF pkt
    <2>3. /\ Append(aList, pkt)[Len(aList) + 1] = pkt /\ Len(aList) + 1 \in DOMAIN Append(aList, pkt)
          /\ \A k \in DOMAIN aList : k \in DOMAIN Append(aList, pkt) /\ Append(aList, pkt)[k] = aList[k]
        BY <2>2, AudioTypes
    <2>4. /\ \A i : Waits(aList, i, hist.epoch) => Waits(aList', i, hist.epoch)
          /\ File[pos].s = "a" => Waits(aList', pos, hist.epoch)
        BY <2>1, <2>2, <2>3 DEF Waits
    <2>5. \A i \in hist.start .. pos' - 1 : i = pos \/ i \in hist.start .. pos - 1
        BY <2>1, WholeTypes
    <2> QED
        BY <2>1, <2>4, <2>5 DEF AllReached, Reached
<1> QED
    BY <1>3, <1>4, <1>5 DEF Reader, VideoClearing, AudioClearing, MarkVideo, MarkAudio, Unmark,
       ResetAudioClock, ResetVideoClock, ClearAudio, ClearVideo

LEMMA ReachedAudio ==
    ASSUME TypeOK, FreshInv, AudioInv, AudioWhole, EndInv, AllReached, Audio
    PROVE  AllReached'
<1> USE DEF reader, marks
<1>1. hist'.epoch = hist.epoch /\ hist'.start = hist.start /\ pos' = pos
    <2>1. pos' = pos
        BY DEF Audio, AudioPop, AudioClock, AudioTest, AudioUnseek, AudioPlay
    <2> QED
        BY <2>1, AudioKeeps DEF Sought
<1>2. CASE AudioPop
    <2>1. /\ apc = "idle" /\ aList # <<>> /\ aList' = Tail(aList) /\ aPkt' = Head(aList)
          /\ apc' = "clock" /\ aTime' = aTime
        BY <1>2 DEF AudioPop
    <2>2. CASE rpc \in VideoClearing
        BY <1>1, <2>2, ReachedNone, WholeTypes DEF EndInv
    <2>3. CASE rpc \notin VideoClearing
        <3>1. Head(aList).e = hist.epoch
            <4>1. 1 \in DOMAIN aList /\ Head(aList) = aList[1]
                BY <2>1, AudioTypes, HeadAndTail
            <4>2. rpc \in {"top", "seek", "sizes", "read", "finished"}
                BY <2>3 DEF TypeOK, VideoClearing, AudioClearing
            <4> QED
                BY <4>1, <4>2 DEF FreshInv
        <3>2. \A i : Waits(aList, i, hist.epoch) =>
                        Waits(aList', i, hist.epoch) \/ IsNew(aPkt', i, hist.epoch)
            BY <2>1, AudioTypes, Shifted DEF Waits
        <3> QED
            BY <1>1, <2>1, <3>1, <3>2 DEF AllReached, Reached
    <2> QED
        BY <2>2, <2>3
<1>3. CASE AudioClock
    <2>1. /\ apc = "clock" /\ aTime' = Time(aPkt) /\ apc' = "test" /\ aList' = aList
          /\ AudioHand = {aPkt} /\ aPkt \in Packet
        BY <1>3, AudioTypes DEF AudioClock, AudioHand
    <2> SUFFICES ASSUME NEW i \in hist.start .. pos - 1, File[i].s = "a",
                        ~Waits(aList, i, hist.epoch), Reached(i)
                 PROVE  File[i].t <= Time(aPkt)
        BY <1>1, <2>1 DEF AllReached, Reached
    <2>2. aPkt.e = hist.epoch
        BY <2>1 DEF Reached, IsNew
    <2>3. i \in Nat /\ aPkt.i \in Nat /\ pos \in Nat
        BY <2>1, WholeTypes, PacketFields
    <2>4. i <= aPkt.i
        <3>1. Complete(aPkt, aList, "a", hist.epoch, pos)
            BY <2>1 DEF AudioWhole, Gapless
        <3>2. ~(i \in aPkt.i + 1 .. pos - 1)
            BY <2>2, <3>1 DEF Complete
        <3> QED
            BY <2>3, <3>2
    <2>5. i \in DOMAIN File /\ aPkt.i \in DOMAIN File
        <3>1. aPkt.i \in 1 .. Len(File)
            BY <2>1 DEF Packet
        <3>2. hist.start \in 1 .. Len(File) + 1
            BY DEF TypeOK, History
        <3> QED
            BY <2>3, <2>4, <3>1, <3>2, FileDomain
    <2>6. File[i].t \in Nat
        BY <2>5, FileTime
    <2>7. CASE i = aPkt.i
        BY <2>6, <2>7 DEF Time
    <2>8. CASE i < aPkt.i
        BY <2>5, <2>8, FileAssumption DEF Time
    <2> QED
        BY <2>3, <2>4, <2>7, <2>8
<1>4. CASE AudioTest \/ AudioUnseek \/ AudioPlay
    <2>1. /\ UNCHANGED <<aList, aTime>> /\ apc # "clock" /\ apc' # "clock"
        BY <1>4 DEF AudioTest, AudioUnseek, AudioPlay
    <2> QED
        BY <1>1, <2>1 DEF AllReached, Reached
<1> QED
    BY <1>2, <1>3, <1>4 DEF Audio

LEMMA FrameClockStep ==
    ASSUME TypeOK, VideoInv, FrameClock, Next
    PROVE  FrameClock'
<1> USE DEF reader, marks, video
<1>1. CASE Video
    <2>1. hist'.epoch = hist.epoch
        BY <1>1, VideoKeeps DEF Sought
    <2>2. CASE VideoTest /\ vpc' # "idle"
        <3>1. vpc = "test" /\ LastSent' = LastSent /\ VideoPkt = LastSent /\ vTime' = vTime
            BY <2>2 DEF VideoTest, LastSent, VideoPkt
        <3>2. LastSent.e = hist.epoch => vTime = Time(LastSent)
            BY <3>1 DEF VideoInv
        <3>3. LastSent \in Packet
            BY <3>1, LastSentType
        <3> QED
            BY <2>1, <3>1, <3>2, <3>3, PacketTime DEF FrameClock, Time
    <2>3. CASE VideoUnseek
        BY <2>1, <2>3 DEF VideoUnseek, FrameClock, LastSent, Time
    <2>4. CASE vpc' \notin {"unseek", "sync"}
        BY <2>4 DEF FrameClock
    <2> QED
        BY <1>1, <2>2, <2>3, <2>4 DEF Video, VideoPop, VideoClock, VideoDecode, VideoTest,
           VideoSync, VideoEmit
<1>2. CASE UNCHANGED <<vpc, codec, frame, vTime>> /\ hist'.epoch = hist.epoch
    BY <1>2 DEF FrameClock, LastSent, Time
<1>3. CASE Audio
    <2>1. UNCHANGED <<vpc, codec, frame, vTime>>
        BY <1>3 DEF Audio, AudioPop, AudioClock, AudioTest, AudioUnseek, AudioPlay
    <2> QED
        BY <1>2, <1>3, <2>1, AudioKeeps DEF Sought
<1>4. ASSUME NEW target \in Targets, SetTime(target) PROVE FrameClock'
    BY <1>2, <1>4 DEF SetTime
<1>5. ASSUME NEW p \in 1 .. Len(File) + 1, Seek(p) PROVE FrameClock'
    <2>1. hist'.epoch = hist.epoch + 1 /\ UNCHANGED <<vpc, codec, frame>>
        BY <1>5, SeekSets DEF Seek
    <2>2. vpc \in {"unseek", "sync"} => LastSent.e # hist.epoch + 1
        <3>1. vpc \in {"unseek", "sync"} => VideoHand = {LastSent} /\ LastSent \in Packet
            BY LastSentType DEF VideoHand, VideoPkt
        <3> QED
            BY <3>1, WholeTypes, PacketFields DEF VideoInv, InOrder
    <2> QED
        BY <2>1, <2>2 DEF FrameClock, LastSent
<1>6. CASE ResetVideoClock
    <2>1. vTime' = 0 /\ UNCHANGED <<vpc, codec, frame, hist>>
        BY <1>6 DEF ResetVideoClock
    <2>2. vpc \in {"unseek", "sync"} => Time(LastSent) \in Nat
        BY LastSentType, PacketTime
    <2> QED
        BY <2>1, <2>2 DEF FrameClock, LastSent, Time
<1>7. CASE Reader /\ ~ResetVideoClock /\ hist'.epoch = hist.epoch
    <2>1. UNCHANGED <<vpc, codec, frame, vTime>>
        BY <1>7 DEF Reader, LoopTop, Seek, SeekFails, MarkVideo, MarkAudio, Unmark, ResetAudioClock,
           ClearAudio, ClearVideo, ReadSizes, ReadPacket, ReadEof, ReadFails
    <2> QED
        BY <1>2, <1>7, <2>1
<1> QED
    BY <1>1, <1>3, <1>4, <1>5, <1>6, <1>7, ReaderKeeps DEF Next

LEMMA ReachedStep ==
    ASSUME TypeOK, FreshInv, AudioInv, AudioWhole, EndInv, AllReached, Next
    PROVE  AllReached'
<1>1. ASSUME NEW target \in Targets, SetTime(target) PROVE AllReached'
    BY <1>1, ReachedQuiet DEF SetTime, reader, audio
<1>2. CASE Video
    <2>1. UNCHANGED <<pos, aList, apc, aPkt, aTime>>
        BY <1>2 DEF Video, VideoPop, VideoClock, VideoDecode, VideoTest, VideoUnseek, VideoSync,
           VideoEmit, reader, audio
    <2>2. hist'.epoch = hist.epoch /\ hist'.start = hist.start
        BY <1>2, VideoKeeps DEF Sought
    <2> QED
        BY <2>1, <2>2, ReachedQuiet
<1> QED
    BY <1>1, <1>2, ReachedReader, ReachedAudio DEF Next

LEMMA ClockStep ==
    ASSUME Inv, WholeInv, ClockInv, Next
    PROVE  ClockInv'
<1>1. AllReached /\ FrameClock
    BY ClockParts
<1>2. AllReached'
    BY <1>1, ReachedStep DEF Inv, SeekInv, WholeInv
<1>3. FrameClock'
    BY <1>1, FrameClockStep DEF Inv, SeekInv
<1> QED
    BY <1>2, <1>3 DEF ClockInv, AllReached, Reached, FrameClock

\* What has been played, what is to come and the clock go together, for any file: the
\* invariant behind the two theorems below.
THEOREM PlaybackFlows == Spec => []FlowInv
<1> USE DEF Inv, SeekInv, WholeInv
<1>1. Init => FlowInv
    <2> SUFFICES ASSUME Init PROVE FlowInv
        OBVIOUS
    <2>1. /\ rpc = "top" /\ pos = 1 /\ aList = <<>> /\ vList = <<>> /\ codec = <<>>
          /\ apc = "idle" /\ vpc = "idle" /\ hist.start = 1 /\ hist.played = {}
        BY DEF Init
    <2>2. Listed(<<>>) = {} /\ AudioHand = {} /\ VideoPopped = {} /\ InCodec = {}
        BY <2>1 DEF Listed, AudioHand, VideoPopped, InCodec, FrameOut
    <2> QED
        BY <2>1, <2>2 DEF FlowInv, PlayedInv, ClockInv, AudioClearing
<1>2. Inv /\ WholeInv /\ FlowInv /\ [Next]_vars => FlowInv'
    <2> SUFFICES ASSUME Inv, WholeInv, FlowInv, UNCHANGED vars PROVE FlowInv'
        BY PlayedStep, ClockStep DEF FlowInv
    <2> USE DEF vars, reader, marks, audio, video
    <2>1. PlayedInv'
        BY PlayedQuiet DEF FlowInv, PlayedInv
    <2>2. ClockInv'
        BY DEF FlowInv, ClockInv, Waits, LastSent, Time
    <2> QED
        BY <2>1, <2>2 DEF FlowInv
<1> QED
    BY <1>1, <1>2, SessionIsInvariant, NothingGoesAstray, PTL DEF Spec

-----------------------------------------------------------------------------
(***************************************************************************)
(* Nobody waits for nobody.                                                *)
(***************************************************************************)
\* A list whose elements have rising places in a set is no longer than the set is large.
LEMMA RisingInto ==
    ASSUME NEW list \in Seq(Packet), NEW S, IsFiniteSet(S),
           \A k \in DOMAIN list : list[k].i \in S,
           \A j, k \in DOMAIN list : j < k => list[j].i < list[k].i
    PROVE  Len(list) <= Cardinality(S)
<1> DEFINE place == [k \in 1 .. Len(list) |-> list[k].i]
<1>1. Len(list) \in Nat /\ DOMAIN list = 1 .. Len(list)
    OBVIOUS
<1>2. ASSUME NEW j \in 1 .. Len(list), NEW k \in 1 .. Len(list), place[j] = place[k]
      PROVE  j = k
    <2>1. list[j].i \in Nat /\ list[k].i \in Nat /\ list[j].i = list[k].i
        BY <1>1, <1>2, ListFields
    <2>2. j < k => list[j].i < list[k].i
        BY <1>1
    <2>3. k < j => list[k].i < list[j].i
        BY <1>1
    <2> QED
        BY <2>1, <2>2, <2>3
<1>3. place \in Injection(1 .. Len(list), S)
    <2>1. place \in [1 .. Len(list) -> S]
        BY <1>1
    <2> HIDE DEF place
    <2> QED
        BY <1>2, <2>1 DEF Injection, IsInjective
<1>4. Cardinality(1 .. Len(list)) = Len(list)
    <2>1. 1 \in Int /\ Len(list) \in Int
        BY <1>1
    <2>2. Cardinality(1 .. Len(list)) = IF 1 > Len(list) THEN 0 ELSE Len(list) - 1 + 1
        BY <2>1, FS_Interval
    <2> QED
        BY <1>1, <2>2
<1> HIDE DEF place
<1> QED
    BY <1>3, <1>4, FS_Injection

\* What waits of the video stream while a new frame waits for the clock is new, rising, and
\* between the packet last sent and the next one read.
LEMMA VideoWaiting ==
    ASSUME Inv, WholeInv, vpc = "sync", LastSent.e = hist.epoch
    PROVE  /\ LastSent \in Packet
           /\ \A k \in DOMAIN vList : /\ vList[k].i \in LastSent.i + 1 .. pos - 1
                                      /\ File[vList[k].i].s = "v"
           /\ \A j, k \in DOMAIN vList : j < k => vList[j].i < vList[k].i
<1> USE DEF Inv, SeekInv, WholeInv
<1>1. VideoHand = {LastSent} /\ LastSent \in Packet
    BY LastSentType DEF VideoHand, VideoPkt
<1>2. rpc \in {"top", "seek", "sizes", "read", "finished"}
    <2>1. rpc \notin VideoClearing
        BY <1>1 DEF VideoInv, AllOld
    <2> QED
        BY <2>1 DEF TypeOK, VideoClearing, AudioClearing
<1>3. \A k \in DOMAIN vList : vList[k].e = hist.epoch
    BY <1>2 DEF FreshInv
<1>4. /\ \A k \in DOMAIN vList : LastSent.i < vList[k].i /\ vList[k].i < pos
      /\ \A j, k \in DOMAIN vList : j < k => vList[j].i < vList[k].i
    BY <1>1, <1>3 DEF VideoInv, InOrder
<1>5. /\ \A k \in DOMAIN vList : vList[k].i \in Nat
      /\ LastSent.i \in Nat /\ pos \in Nat
    BY <1>1, VideoTypes, ListFields, PacketFields, WholeTypes
<1>6. \A k \in DOMAIN vList : File[vList[k].i].s = "v"
    BY DEF VideoWhole, Gapless, Complete
<1> QED
    BY <1>1, <1>4, <1>5, <1>6

\* While the decoder thread waits for the audio clock somebody can bring the clock on, for
\* any file, limit and codec delay and after any seeks; the exceptions are in NoStandstill
\* (VideoPlayer.cpp:172-174, VideoPlayerVideo.cpp:126).
THEOREM NobodyBlocks == Spec => []NoStandstill
<1>1. Inv /\ WholeInv /\ FlowInv => NoStandstill
    <2> SUFFICES ASSUME Inv, WholeInv, FlowInv, vpc = "sync", ~ClockReached,
                        LastSent.e = hist.epoch, AudioNear(LastSent.i),
                        apc = "idle", aList = <<>>
                 PROVE  ~ListsFull /\ pos <= Len(File)
        BY DEF NoStandstill
    <2>1. PICK j \in hist.start .. Len(File) :
             /\ File[j].s = "a" /\ File[j].t >= File[LastSent.i].t
             /\ Cardinality({k \in LastSent.i + 1 .. j - 1 : File[k].s = "v"}) < MaxPkt
        BY DEF AudioNear
    <2> DEFINE between == {k \in LastSent.i + 1 .. j - 1 : File[k].s = "v"}
    <2>2. /\ LastSent \in Packet
          /\ \A k \in DOMAIN vList : /\ vList[k].i \in LastSent.i + 1 .. pos - 1
                                     /\ File[vList[k].i].s = "v"
          /\ \A i, k \in DOMAIN vList : i < k => vList[i].i < vList[k].i
        BY VideoWaiting
    <2>3. /\ hist.start \in Nat \ {0} /\ pos \in Nat /\ Len(File) \in Nat /\ j \in Nat
          /\ j \in DOMAIN File /\ LastSent.i \in Nat
          /\ vTime \in Nat /\ aTime \in Nat
          /\ vList \in Seq(Packet) /\ Len(vList) \in Nat
        <3>1. hist.start \in 1 .. Len(File) + 1
            BY DEF Inv, TypeOK, History
        <3>2. pos \in Nat /\ LastSent.i \in Nat /\ vTime \in Nat /\ aTime \in Nat /\ vList \in Seq(Packet)
            BY <2>2, WholeTypes, PacketFields, VideoTypes, AudioTypes DEF Inv
        <3> QED
            BY <3>1, <3>2, FileDomain
    <2>4. pos <= j
        <3> SUFFICES ASSUME j < pos PROVE FALSE
            BY <2>3
        <3>1. File[j].t <= aTime
            <4>1. j \in hist.start .. pos - 1
                BY <2>3
            <4>2. ~Waits(aList, j, hist.epoch)
                BY DEF Waits
            <4> QED
                BY <2>1, <4>1, <4>2 DEF FlowInv, ClockInv
        <3>2. vTime <= File[LastSent.i].t
            BY DEF FlowInv, ClockInv, Time
        <3>3. File[j].t \in Nat /\ File[LastSent.i].t \in Nat
            BY <2>2, <2>3, FileTime, PacketFields
        <3> QED
            BY <2>1, <2>3, <3>1, <3>2, <3>3 DEF ClockReached
    <2>5. Len(vList) < MaxPkt
        <3>1. IsFiniteSet(between) /\ Cardinality(between) \in Nat
            <4>1. IsFiniteSet(LastSent.i + 1 .. j - 1)
                <5>1. LastSent.i + 1 \in Int /\ j - 1 \in Int
                    BY <2>3
                <5> QED
                    BY <5>1, FS_Interval
            <4>2. between \in SUBSET (LastSent.i + 1 .. j - 1)
                OBVIOUS
            <4> QED
                BY <4>1, <4>2, FS_Subset, FS_CardinalityType
        <3>2. \A k \in DOMAIN vList : vList[k].i \in between
            BY <2>2, <2>3, <2>4
        <3> HIDE DEF between
        <3>3. Len(vList) <= Cardinality(between)
            BY <2>2, <2>3, <3>1, <3>2, RisingInto
        <3> QED
            BY <2>1, <2>3, <3>1, <3>3 DEF between
    <2>6. Len(aList) = 0
        OBVIOUS
    <2> QED
        BY <2>3, <2>4, <2>5, <2>6 DEF ListsFull
<1> QED
    BY <1>1, SessionIsInvariant, NothingGoesAstray, PlaybackFlows, PTL

-----------------------------------------------------------------------------
(***************************************************************************)
(* Playback is what SeekablePlayback promises, step by step.               *)
(***************************************************************************)
Playback == [Promise!Next]_(Promise!view)

LEMMA Unseen ==
    ASSUME Sought(hist') = Sought(hist), hist'.played = hist.played, Playing' = Playing
    PROVE  Playback
BY DEF Sought, Playback, Promise!view

\* A new packet that is played is the next due one of its stream.
LEMMA Shown ==
    ASSUME TypeOK, PlayedInv, NEW pkt \in AudioToCome \cup VideoToCome, pkt.e = hist.epoch,
           pkt.i < pos, File[pkt.i].s \in {"a", "v"},
           \A j \in hist.start .. pos - 1 :
              /\ File[j].s = File[pkt.i].s /\ j < pkt.i
              /\ File[j].t >= (IF File[pkt.i].s = "a" THEN hist.aTarget ELSE hist.vTarget)
              => j \in hist.played,
           Sought(hist') = Sought(hist), hist'.played = hist.played \cup {pkt.i},
           Playing' = Playing
    PROVE  Playback
<1>1. pkt.i \in 1 .. Len(File) /\ pkt.i \in Nat /\ pos \in Nat /\ hist.start \in Nat
    BY ToComeTypes, PacketFields, WholeTypes, FileDomain
<1>2. NotYet(pkt)
    BY DEF PlayedInv, AudioToCome, VideoToCome
<1>3. \A j \in hist.start .. Len(File) : j < pkt.i => j \in hist.start .. pos - 1
    BY <1>1, FileDomain
<1>4. \A j \in Promise!Due(File[pkt.i].s) : j < pkt.i => j \in hist.played
    BY <1>3 DEF Promise!Due
<1>5. Promise!Present(pkt.i)
    BY <1>2, <1>4 DEF Promise!Present, Promise!Presentable, NotYet, Sought
<1> QED
    BY <1>1, <1>5 DEF Playback, Promise!Next

LEMMA AudioShows ==
    ASSUME Inv, WholeInv, PlayedInv, Audio
    PROVE  Playback
<1> USE DEF Inv, SeekInv, WholeInv
<1>1. Sought(hist') = Sought(hist) /\ Playing' = Playing
    <2>1. rpc' = rpc
        BY DEF Audio, AudioPop, AudioClock, AudioTest, AudioUnseek, AudioPlay, reader
    <2> QED
        BY <2>1, AudioKeeps DEF Playing
<1>2. CASE hist'.played = hist.played
    BY <1>1, <1>2, Unseen
<1>3. CASE apc = "play" /\ aPkt.e = hist.epoch
    <2>1. AudioHand = {aPkt} /\ aPkt \in AudioToCome /\ hist'.played = hist.played \cup {aPkt.i}
        BY <1>3, AudioPlays DEF AudioHand, AudioToCome
    <2>2. File[aPkt.i].s = "a"
        BY <2>1, ToComeStreams
    <2>3. aPkt.i < pos /\ \A k \in DOMAIN aList : aList[k].e = hist.epoch => aPkt.i < aList[k].i
        BY <1>3, <2>1 DEF AudioInv, InOrder
    <2>4. aPkt \in Packet /\ aList \in Seq(Packet)
        BY <1>3, AudioTypes
    <2>5. ASSUME NEW j \in hist.start .. pos - 1, File[j].s = "a", j < aPkt.i, File[j].t >= hist.aTarget
          PROVE  j \in hist.played
        <3>1. aPkt.i \in Nat /\ j \in Nat /\ \A k \in DOMAIN aList : aList[k].i \in Nat
            BY <2>4, WholeTypes, PacketFields, ListFields
        <3>2. ~Waits(aList, j, hist.epoch)
            BY <2>3, <2>5, <3>1 DEF Waits, IsNew
        <3>3. \A pkt \in AudioHand : ~IsNew(pkt, j, hist.epoch)
            BY <2>1, <2>5, <3>1 DEF IsNew
        <3> QED
            BY <2>5, <3>2, <3>3 DEF AudioWhole, Covers
    <2> QED
        BY <1>1, <1>3, <2>1, <2>2, <2>3, <2>5, Shown
<1> QED
    BY <1>2, <1>3, AudioPlays

LEMMA VideoShows ==
    ASSUME Inv, WholeInv, PlayedInv, Video
    PROVE  Playback
<1> USE DEF Inv, SeekInv, WholeInv
<1>1. Sought(hist') = Sought(hist) /\ Playing' = Playing
    <2>1. rpc' = rpc
        BY DEF Video, VideoPop, VideoClock, VideoDecode, VideoTest, VideoUnseek, VideoSync,
           VideoEmit, reader
    <2> QED
        BY <2>1, VideoKeeps DEF Playing
<1>2. CASE hist'.played = hist.played
    BY <1>1, <1>2, Unseen
<1>3. CASE vpc = "emit" /\ frame.e = hist.epoch
    <2>1. /\ FrameOut /\ frame \in VideoToCome /\ VideoPopped = {}
          /\ InCodec = {codec[k] : k \in DOMAIN codec} \cup {frame}
        BY <1>3 DEF FrameOut, VideoToCome, InCodec, VideoPopped
    <2>2. hist'.played = hist.played \cup {frame.i}
        BY <1>3, VideoPlays
    <2>3. File[frame.i].s = "v"
        BY <2>1, ToComeStreams
    <2>4. /\ frame.i < pos
          /\ \A k \in DOMAIN codec : frame.i < codec[k].i
          /\ \A k \in DOMAIN vList : vList[k].e = hist.epoch => frame.i < vList[k].i
        BY <1>3, <2>1, FrameFirst
    <2>5. frame \in Packet /\ codec \in Seq(Packet) /\ vList \in Seq(Packet)
        BY <2>1, CodecTypes
    <2>6. ASSUME NEW j \in hist.start .. pos - 1, File[j].s = "v", j < frame.i,
                 File[j].t >= hist.vTarget
          PROVE  j \in hist.played
        <3>1. /\ frame.i \in Nat /\ j \in Nat
              /\ \A k \in DOMAIN vList : vList[k].i \in Nat
              /\ \A k \in DOMAIN codec : codec[k].i \in Nat
            BY <2>5, WholeTypes, PacketFields, ListFields
        <3>2. ~Waits(vList, j, hist.epoch)
            BY <2>4, <2>6, <3>1 DEF Waits, IsNew
        <3>3. \A pkt \in VideoPopped \cup InCodec : ~IsNew(pkt, j, hist.epoch)
            BY <2>1, <2>4, <2>6, <3>1 DEF IsNew
        <3> QED
            BY <2>6, <3>2, <3>3 DEF VideoWhole, Covers
    <2> QED
        BY <1>1, <1>3, <2>1, <2>2, <2>3, <2>4, <2>6, Shown
<1> QED
    BY <1>2, <1>3, VideoPlays

LEMMA SeekShows ==
    ASSUME Inv, NEW p \in 1 .. Len(File) + 1, Seek(p)
    PROVE  Playback
<1>1. seekTime \in Targets
    <2>1. seekTime \in Targets \cup {-1} /\ seekTime >= 0
        BY DEF Inv, SeekInv, CountInv, TypeOK, Marked, Seek
    <2> QED
        BY <2>1
<1>2. /\ hist'.start = p /\ hist'.played = {} /\ Playing /\ Playing'
      /\ hist'.aTarget = hist.aTarget /\ hist'.vTarget = hist.vTarget
    BY SeekSets, SeekPlays DEF Inv, Seek, Playing
<1>3. Promise!Seek(p, seekTime)
    <2>1. \A i \in DOMAIN File : File[i].t >= seekTime => p <= i
        BY DEF Seek, SeekPoints
    <2> QED
        BY <1>2, <2>1, FileDomain DEF Promise!Seek
<1> QED
    BY <1>1, <1>3 DEF Playback, Promise!Next

\* Setting a target, before anything of the new position has been played.
LEMMA MarkShows ==
    ASSUME Inv, PlayedInv, MarkVideo \/ MarkAudio
    PROVE  Playback
<1>1. hist.played = {} /\ Playing /\ Playing' /\ seekTime \in Targets
    <2>1. seekTime \in Targets \cup {-1} /\ rpc \in {"mark_v", "mark_a"} /\ rpc' # "finished"
        BY DEF Inv, TypeOK, Marked, MarkVideo, MarkAudio
    <2>2. seekTime >= 0 /\ hist.played = {}
        BY <2>1 DEF PlayedInv, AudioClearing
    <2> QED
        BY <2>1, <2>2 DEF Playing
<1>2. hist \in History
    BY DEF Inv, TypeOK
<1>3. CASE MarkVideo
    <2>1. /\ hist'.start = hist.start /\ hist'.played = hist.played
          /\ hist'.aTarget = hist.aTarget /\ hist'.vTarget = seekTime
        BY <1>2, <1>3 DEF MarkVideo, History
    <2>2. Promise!Aim("v", seekTime)
        BY <1>1, <2>1 DEF Promise!Aim
    <2> QED
        BY <1>1, <2>2 DEF Playback, Promise!Next, Promise!Presentable
<1>4. CASE MarkAudio
    <2>1. /\ hist'.start = hist.start /\ hist'.played = hist.played
          /\ hist'.aTarget = seekTime /\ hist'.vTarget = hist.vTarget
        BY <1>2, <1>4 DEF MarkAudio, History
    <2>2. Promise!Aim("a", seekTime)
        BY <1>1, <2>1 DEF Promise!Aim
    <2> QED
        BY <1>1, <2>2 DEF Playback, Promise!Next, Promise!Presentable
<1> QED
    BY <1>3, <1>4

\* What the codec holds, and one packet more, is all of one stream that can be in hand.
LEMMA HandIsSmall ==
    ASSUME NEW list \in Seq(Packet), NEW n \in Nat, Len(list) <= n, NEW x,
           NEW S \in SUBSET ({list[k].i : k \in DOMAIN list} \cup {x})
    PROVE  Cardinality(S) <= n + 1
<1> DEFINE held == {list[k].i : k \in DOMAIN list}
           place == [k \in 1 .. Len(list) |-> list[k].i]
<1>1. Len(list) \in Nat /\ DOMAIN list = 1 .. Len(list)
    OBVIOUS
<1>2. place \in Surjection(1 .. Len(list), held)
    BY <1>1 DEF Surjection
<1>3. IsFiniteSet(1 .. Len(list)) /\ Cardinality(1 .. Len(list)) = Len(list)
    <2>1. 1 \in Int /\ Len(list) \in Int
        BY <1>1
    <2>2. /\ IsFiniteSet(1 .. Len(list))
          /\ Cardinality(1 .. Len(list)) = IF 1 > Len(list) THEN 0 ELSE Len(list) - 1 + 1
        BY <2>1, FS_Interval
    <2> QED
        BY <1>1, <2>2
<1> HIDE DEF held, place
<1>4. IsFiniteSet(held) /\ Cardinality(held) <= Len(list)
    BY <1>2, <1>3, FS_Surjection
<1>5. Cardinality(held) \in Nat
    BY <1>4, FS_CardinalityType
<1>6. IsFiniteSet(held \cup {x}) /\ Cardinality(held \cup {x}) <= n + 1
    <2>1. /\ IsFiniteSet(held \cup {x})
          /\ Cardinality(held \cup {x}) = IF x \in held THEN Cardinality(held) ELSE Cardinality(held) + 1
        BY <1>4, FS_AddElement
    <2> QED
        BY <1>1, <1>4, <1>5, <2>1
<1>7. S \in SUBSET (held \cup {x})
    BY DEF held
<1>8. Cardinality(S) <= Cardinality(held \cup {x}) /\ Cardinality(S) \in Nat
    /\ Cardinality(held \cup {x}) \in Nat
    BY <1>6, <1>7, FS_Subset, FS_CardinalityType
<1> QED
    BY <1>6, <1>8

\* At the end of the file what is due and not played is in hand.
LEMMA FinishShows ==
    ASSUME Inv, WholeInv, PlayedInv, ReadEof
    PROVE  Playback
<1> USE DEF Inv, SeekInv, WholeInv
<1>1. CASE rpc' # "finished"
    <2>1. hist' = hist /\ Playing' = Playing
        BY <1>1 DEF ReadEof, Playing
    <2> QED
        BY <2>1, Unseen
<1>2. CASE rpc' = "finished"
    <2>1. /\ rpc = "read" /\ pos > Len(File) /\ aList = <<>> /\ vList = <<>> /\ hist' = hist
          /\ Playing /\ ~Playing'
        BY <1>2 DEF ReadEof, NextIteration, EndInv, Playing
    <2>2. pos - 1 = Len(File)
        BY <2>1, WholeTypes, FileDomain
    <2>3. \A i : ~Waits(aList, i, hist.epoch) /\ ~Waits(vList, i, hist.epoch)
        BY <2>1 DEF Waits
    <2>4. codec \in Seq(Packet) /\ Len(codec) <= Delay
        BY CodecTypes DEF PlayedInv
    <2>5. Cardinality(Promise!Due("a") \ hist.played) <= Delay + 1
        <3>1. Promise!Due("a") \ hist.played \subseteq {aPkt.i}
            BY <2>2, <2>3 DEF Promise!Due, AudioWhole, Covers, IsNew, AudioHand
        <3>2. Promise!Due("a") \ hist.played \in SUBSET ({codec[k].i : k \in DOMAIN codec} \cup {aPkt.i})
            BY <3>1
        <3> QED
            BY <2>4, <3>2, HandIsSmall
    <2>6. Cardinality(Promise!Due("v") \ hist.played) <= Delay + 1
        <3>1. Promise!Due("v") \ hist.played \subseteq {pkt.i : pkt \in VideoPopped \cup InCodec}
            BY <2>2, <2>3 DEF Promise!Due, VideoWhole, Covers, IsNew
        <3> DEFINE one == IF FrameOut THEN frame ELSE vPkt
        <3>2. VideoPopped \cup InCodec \subseteq {codec[k] : k \in DOMAIN codec} \cup {one}
            BY DEF VideoPopped, InCodec, FrameOut
        <3>3. Promise!Due("v") \ hist.played \in SUBSET ({codec[k].i : k \in DOMAIN codec} \cup {one.i})
            BY <3>1, <3>2
        <3> HIDE DEF one
        <3> QED
            BY <2>4, <3>3, HandIsSmall
    <2>7. Promise!Finish
        BY <2>1, <2>5, <2>6 DEF Promise!Finish, Promise!Presentable, Promise!Cardinality, Cardinality
    <2> QED
        BY <2>7 DEF Playback, Promise!Next
<1> QED
    BY <1>1, <1>2

LEMMA ReaderShows ==
    ASSUME Inv, WholeInv, PlayedInv, Reader
    PROVE  Playback
<1>1. CASE ReadEof
    BY <1>1, FinishShows
<1>2. CASE MarkVideo \/ MarkAudio
    BY <1>2, MarkShows
<1>3. ASSUME NEW p \in 1 .. Len(File) + 1, Seek(p) PROVE Playback
    BY <1>3, SeekShows
<1>4. CASE hist' = hist /\ Playing' = Playing
    BY <1>4, Unseen
<1>5. CASE LoopTop \/ SeekFails \/ Unmark \/ ResetAudioClock \/ ResetVideoClock
    <2>1. hist' = hist /\ rpc # "finished" /\ rpc' # "finished"
        BY <1>5 DEF LoopTop, SeekFails, Unmark, ResetAudioClock, ResetVideoClock
    <2> QED
        BY <1>4, <2>1 DEF Playing
<1>6. CASE ClearAudio \/ ClearVideo \/ ReadSizes \/ ReadPacket \/ ReadFails
    <2>1. hist' = hist /\ rpc # "finished" /\ rpc' # "finished"
        BY <1>6 DEF ClearAudio, ClearVideo, ReadSizes, ReadPacket, ReadFails, NextIteration
    <2> QED
        BY <1>4, <2>1 DEF Playing
<1> QED
    BY <1>1, <1>2, <1>3, <1>5, <1>6 DEF Reader

\* Of either stream what is played is what the file has, in its order, once and from the
\* position last sought, without a gap but for what is before the target; at the end no more
\* is left out than the decoders have in hand.  For any file, limit, codec delay and number
\* of seeks (VideoPlayer.cpp:145-189, VideoPlayerAudio.cpp:166-219,
\* VideoPlayerVideo.cpp:81-146).
THEOREM ImplementsPlayback == Spec => PlaysTheFile
<1>1. Init => Promise!Init
    BY DEF Init, Promise!Init, Playing
<1>2. Inv /\ WholeInv /\ FlowInv /\ [Next]_vars => Playback
    <2> SUFFICES ASSUME Inv, WholeInv, PlayedInv, [Next]_vars
                 PROVE  Playback
        BY DEF FlowInv
    <2>1. ASSUME NEW target \in Targets, SetTime(target) PROVE Playback
        BY <2>1, Unseen DEF SetTime, reader, Playing
    <2>2. CASE UNCHANGED vars
        BY <2>2, Unseen DEF vars, reader, Playing
    <2> QED
        BY <2>1, <2>2, ReaderShows, AudioShows, VideoShows DEF Next
<1> QED
    BY <1>1, <1>2, SessionIsInvariant, NothingGoesAstray, PlaybackFlows, PTL
       DEF Spec, PlaysTheFile, Promise!Spec, Playback

=============================================================================
