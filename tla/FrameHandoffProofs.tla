------------------------- MODULE FrameHandoffProofs -------------------------
(***************************************************************************)
(* For any number of frames and sessions: the frames are given back once,  *)
(* shown in order, and their pixels are there when they are read.          *)
(***************************************************************************)
EXTENDS FrameHandoff, TLAPS

USE BoundAssumption
USE DEF Frame, None

-----------------------------------------------------------------------------
(***************************************************************************)
(* The main queue as a sequence.                                           *)
(***************************************************************************)
LEMMA AppendedTo ==
    ASSUME NEW S, NEW list \in Seq(S), NEW x \in S
    PROVE  /\ Append(list, x) \in Seq(S) /\ Append(list, x) # <<>>
           /\ Len(list) \in Nat
           /\ Len(Append(list, x)) = Len(list) + 1
           /\ DOMAIN Append(list, x) = DOMAIN list \cup {Len(list) + 1}
           /\ \A k \in DOMAIN list : k \in Nat /\ k <= Len(list) /\ Append(list, x)[k] = list[k]
           /\ Append(list, x)[Len(list) + 1] = x
OBVIOUS

LEMMA HeadAndTail ==
    ASSUME NEW S, NEW list \in Seq(S), list # <<>>
    PROVE  /\ Head(list) \in S /\ Head(list) = list[1] /\ 1 \in DOMAIN list
           /\ Tail(list) \in Seq(S)
           /\ Len(list) \in Nat /\ Len(Tail(list)) = Len(list) - 1
           /\ Tail(list) = <<>> => Len(list) = 1
           /\ \A k \in DOMAIN Tail(list) :
                 k \in Nat /\ 1 < k + 1 /\ k + 1 \in DOMAIN list /\ Tail(list)[k] = list[k + 1]
           /\ Tail(list) # <<>> => Tail(list)[Len(Tail(list))] = list[Len(list)]
<1>1. /\ Len(list) \in Nat /\ Len(list) # 0
      /\ Tail(list) \in Seq(S) /\ Len(Tail(list)) = Len(list) - 1
    OBVIOUS
<1>2. \A k \in 1 .. Len(list) - 1 : Tail(list)[k] = list[k + 1]
    OBVIOUS
<1>3. Tail(list) # <<>> => Len(list) - 1 \in 1 .. Len(list) - 1
    BY <1>1
<1>4. Tail(list) # <<>> => Tail(list)[Len(Tail(list))] = list[Len(list)]
    BY <1>1, <1>2, <1>3
<1>5. Head(list) \in S /\ Head(list) = list[1] /\ 1 \in DOMAIN list
    OBVIOUS
<1>6. DOMAIN Tail(list) = 1 .. Len(list) - 1 /\ DOMAIN list = 1 .. Len(list)
    BY <1>1
<1>7. \A k \in DOMAIN Tail(list) : k \in Nat /\ 1 < k + 1 /\ k + 1 \in DOMAIN list
    BY <1>1, <1>6
<1>8. Tail(list) = <<>> => Len(list) = 1
    <2>1. Len(<<>>) = 0
        OBVIOUS
    <2>2. Tail(list) = <<>> => Len(list) - 1 = 0
        BY <1>1, <2>1
    <2> QED
        BY <1>1, <2>2
<1>9. \A k \in DOMAIN Tail(list) : Tail(list)[k] = list[k + 1]
    BY <1>2, <1>6
<1>10. Tail(list) \in Seq(S) /\ Len(list) \in Nat /\ Len(Tail(list)) = Len(list) - 1
    BY <1>1
<1> QED
    BY <1>4, <1>5, <1>7, <1>8, <1>9, <1>10

LEMMA ElementOf ==
    ASSUME NEW S, NEW list \in Seq(S), NEW k \in DOMAIN list
    PROVE  list[k] \in S
OBVIOUS

-----------------------------------------------------------------------------
(***************************************************************************)
(* Types.  What a thread posts is a frame, because only a busy thread      *)
(* posts.                                                                  *)
(***************************************************************************)
HandInv == \A d \in Decoders : Busy(d) => hand[d] \in Frame

LEMMA InitType == Init => TypeOK /\ HandInv
<1> SUFFICES ASSUME Init
             PROVE  TypeOK /\ HandInv
    OBVIOUS
<1>1. /\ playing \in BOOLEAN /\ uncommitted \in BOOLEAN
      /\ pc \in [Decoders -> Point] /\ ui \in {"idle", "stopping"}
      /\ mishaps \subseteq {"overlap", "behind"}
    BY DEF Init, Point, Off
<1>2. /\ hand \in [Decoders -> Frame \cup {None}]
      /\ deletes \in [Frame -> Nat] /\ releases \in [Frame -> Nat]
    BY DEF Init
<1>3. queue \in Seq(Frame) /\ rendered \in 0 .. MaxFrames
    BY DEF Init
<1>4. {preFrame, preFramedata, contents} \subseteq Frame \cup {None}
    BY DEF Init
<1>5. TypeOK
    BY <1>1, <1>2, <1>3, <1>4 DEF TypeOK
<1>6. HandInv
    BY DEF Init, HandInv, Off, Busy
<1> QED
    BY <1>5, <1>6

LEMMA CountedType ==
    ASSUME NEW count \in [Frame -> Nat], NEW f \in Frame \cup {None}
    PROVE  Counted(count, f) \in [Frame -> Nat]
BY DEF Counted

LEMMA DecoderType ==
    ASSUME TypeOK, HandInv, NEW d \in Decoders, Decoder(d)
    PROVE  TypeOK' /\ HandInv'
<1> USE DEF TypeOK, HandInv, Point, Off, Busy, Goto, service, main
<1>1. CASE Render(d)
    BY <1>1 DEF Render, Note
<1>2. CASE DataTest(d)
    BY <1>2 DEF DataTest
<1>3. CASE DeleteData(d)
    BY <1>3, CountedType DEF DeleteData
<1>4. CASE ClearData(d)
    BY <1>4 DEF ClearData
<1>5. CASE ImageTest(d)
    BY <1>5 DEF ImageTest
<1>6. CASE ReleaseImage(d)
    BY <1>6, CountedType DEF ReleaseImage
<1>7. CASE ClearImage(d)
    BY <1>7 DEF ClearImage
<1>8. CASE SetImage(d)
    BY <1>8 DEF SetImage
<1>9. CASE SetData(d)
    BY <1>9 DEF SetData
<1>10. CASE Post(d)
    <2>1. hand[d] \in Frame
        BY <1>10 DEF Post
    <2>2. queue' \in Seq(Frame)
        BY <1>10, <2>1, AppendedTo DEF Post
    <2> QED
        BY <1>10, <2>2 DEF Post
<1>11. CASE End(d)
    BY <1>11 DEF End
<1> QED
    BY <1>1, <1>2, <1>3, <1>4, <1>5, <1>6, <1>7, <1>8, <1>9, <1>10, <1>10, <1>11 DEF Decoder

LEMMA StepType == TypeOK /\ HandInv /\ [Next]_vars => TypeOK' /\ HandInv'
<1> SUFFICES ASSUME TypeOK, HandInv, [Next]_vars
             PROVE  TypeOK' /\ HandInv'
    OBVIOUS
<1> USE DEF TypeOK, HandInv, Point, Off, Busy, Goto, service, main
<1>1. ASSUME NEW d \in Decoders, Play(d) PROVE TypeOK' /\ HandInv'
    BY <1>1 DEF Play, Note
<1>2. CASE StopBegin
    BY <1>2 DEF StopBegin
<1>3. CASE StopEnd
    BY <1>3 DEF StopEnd
<1>4. CASE StopNothing
    BY <1>4 DEF StopNothing
<1>5. CASE ShowFrame
    <2>1. Head(queue) \in Frame /\ Tail(queue) \in Seq(Frame)
        BY <1>5, HeadAndTail DEF ShowFrame
    <2> QED
        BY <1>5, <2>1 DEF ShowFrame
<1>6. CASE Commit
    BY <1>6 DEF Commit
<1>7. CASE FileEnds
    BY <1>7 DEF FileEnds
<1>8. CASE UNCHANGED vars
    BY <1>8 DEF vars
<1> QED
    BY <1>1, <1>2, <1>3, <1>4, <1>5, <1>6, <1>7, <1>8, DecoderType DEF Next

\* Every variable keeps its type, for any number of decoder threads and frames: a block
\* on the main queue always has an image to show.
THEOREM TypeCorrect == Spec => []TypeOK
BY InitType, StepType, PTL DEF Spec

-----------------------------------------------------------------------------
(***************************************************************************)
(* Frames are given back once.  An overlap, once noted, stays noted.       *)
(***************************************************************************)
Safe == Overlapped \/ OwnerInv

LEMMA InitOwner == Init => OwnerInv
BY DEF Init, OwnerInv, Trace, Alive, Off, Busy, AllFree, Keeps, GivenTo

LEMMA NoteStays == TypeOK /\ [Next]_vars => (Overlapped => Overlapped') /\ ("behind" \in mishaps => "behind" \in mishaps')
<1> SUFFICES ASSUME TypeOK, [Next]_vars
             PROVE  mishaps \subseteq mishaps'
    BY DEF Overlapped
<1>1. CASE \E d \in Decoders : Decoder(d) \/ Play(d)
    BY <1>1 DEF Decoder, Render, DataTest, DeleteData, ClearData, ImageTest, ReleaseImage,
                ClearImage, SetImage, SetData, Post, End, Play, Note
<1>2. CASE ~(\E d \in Decoders : Decoder(d) \/ Play(d))
    BY <1>2 DEF Next, vars, StopBegin, StopEnd, StopNothing, ShowFrame, Commit, FileEnds
<1> QED
    BY <1>1, <1>2

\* What holds of the counts when one more copy, or image, is given back.
LEMMA GivenOneMore ==
    ASSUME TypeOK, NEW count \in [Frame -> Nat], NEW n \in Int, n + 1 \in Frame, GivenTo(count, n)
    PROVE  GivenTo(Counted(count, n + 1), n + 1)
BY DEF GivenTo, Counted

\* The other decoder threads are not there while d is.
LEMMA AloneBusy ==
    ASSUME OwnerInv, NEW d \in Decoders, Alive(d)
    PROVE  \A e \in Decoders \ {d} : pc[e] \in Off
BY DEF OwnerInv, Alive

LEMMA OwnerMoves ==
    ASSUME TypeOK, OwnerInv, NEW d \in Decoders, Alive(d), NEW to \in Point, NEW x,
           pc' = [pc EXCEPT ![d] = to], hand' = [hand EXCEPT ![d] = x], Trace(d)',
           to \in Off \cup {"decode"} => Keeps(rendered, rendered, rendered - 1, rendered - 1)'
    PROVE  OwnerInv'
<1>1. /\ pc'[d] = to
      /\ \A e \in Decoders \ {d} : pc'[e] = pc[e] /\ pc[e] \in Off /\ hand'[e] = hand[e]
    BY AloneBusy DEF TypeOK
<1>2. \A e \in Decoders \ {d} : ~Busy(e) /\ hand[e] = None
    BY <1>1 DEF OwnerInv, Trace, Busy
<1>3. \A e \in Decoders \ {d} : Trace(e)'
    BY <1>1, <1>2 DEF Trace, Busy, Off
<1>4. AllFree' => to \in Off \cup {"decode"}
    BY <1>1 DEF AllFree, Busy
<1>5. \A e \in Decoders : Alive(e)' => e = d
    BY <1>1 DEF Alive
<1> QED
    BY <1>3, <1>4, <1>5 DEF OwnerInv

LEMMA HandKept ==
    ASSUME TypeOK, NEW d \in Decoders, hand' = hand
    PROVE  hand' = [hand EXCEPT ![d] = hand[d]]
BY DEF TypeOK

LEMMA DecoderOwner ==
    ASSUME TypeOK, OwnerInv, NEW d \in Decoders, Decoder(d)
    PROVE  OwnerInv'
<1> DEFINE n == rendered - 1
<1> USE DEF Goto
<1>t. /\ rendered \in Nat /\ rendered \in 0 .. MaxFrames
      /\ pc \in [Decoders -> Point] /\ hand \in [Decoders -> Frame \cup {None}]
      /\ deletes \in [Frame -> Nat] /\ releases \in [Frame -> Nat]
      /\ Trace(d)
    BY DEF TypeOK, OwnerInv
<1>a. Alive(d)
    BY DEF Decoder, Alive, Off, Render, DataTest, DeleteData, ClearData, ImageTest,
           ReleaseImage, ClearImage, SetImage, SetData, Post, End
<1>1. CASE Render(d)
    <2>1. AllFree
        BY <1>1, <1>a, AloneBusy DEF Render, AllFree, Busy, Off
    <2>2. Keeps(rendered, rendered, rendered - 1, rendered - 1)
        BY <2>1 DEF OwnerInv
    <2>3. Trace(d)'
        BY <1>1, <1>t, <2>2 DEF Render, Trace, Busy, Off, Keeps, GivenTo, service
    <2> QED
        BY <1>1, <1>a, <2>3, OwnerMoves DEF Render, Point, Off
<1>2. CASE DataTest(d)
    <2>1. Trace(d)'
        BY <1>2, <1>t DEF DataTest, Trace, Busy, Off, Keeps, GivenTo, service
    <2>2. hand' = [hand EXCEPT ![d] = hand[d]]
        BY <1>2, HandKept DEF DataTest
    <2>3. \E to \in {"delete", "image"} : pc' = [pc EXCEPT ![d] = to]
        BY <1>2 DEF DataTest
    <2> QED
        BY <1>a, <2>1, <2>2, <2>3, OwnerMoves DEF Point, Off
<1>3. CASE DeleteData(d)
    <2>1. rendered \in Frame /\ rendered # 1 /\ preFramedata = n /\ GivenTo(deletes, n - 1)
        BY <1>3, <1>t DEF DeleteData, Trace, Busy, Off, Keeps
    <2>0. n - 1 \in Int /\ (n - 1) + 1 \in Frame
        BY <2>1
    <2>2. GivenTo(Counted(deletes, (n - 1) + 1), (n - 1) + 1)
        BY <1>t, <2>0, <2>1, GivenOneMore
    <2>3. GivenTo(deletes', n)
        BY <1>3, <1>t, <2>1, <2>2 DEF DeleteData
    <2>4. Trace(d)'
        BY <1>3, <1>t, <2>3 DEF DeleteData, Trace, Busy, Off, Keeps, GivenTo
    <2>5. hand' = [hand EXCEPT ![d] = hand[d]]
        BY <1>3, HandKept DEF DeleteData
    <2> QED
        BY <1>3, <1>a, <2>4, <2>5, OwnerMoves DEF DeleteData, Point, Off
<1>4. CASE ClearData(d)
    <2>1. Trace(d)'
        BY <1>4, <1>t DEF ClearData, Trace, Busy, Off, Keeps, GivenTo
    <2>2. hand' = [hand EXCEPT ![d] = hand[d]]
        BY <1>4, HandKept DEF ClearData
    <2> QED
        BY <1>4, <1>a, <2>1, <2>2, OwnerMoves DEF ClearData, Point, Off
<1>5. CASE ImageTest(d)
    <2>1. Trace(d)'
        BY <1>5, <1>t DEF ImageTest, Trace, Busy, Off, Keeps, GivenTo, service
    <2>2. hand' = [hand EXCEPT ![d] = hand[d]]
        BY <1>5, HandKept DEF ImageTest
    <2>3. \E to \in {"release", "set_image"} : pc' = [pc EXCEPT ![d] = to]
        BY <1>5 DEF ImageTest
    <2> QED
        BY <1>a, <2>1, <2>2, <2>3, OwnerMoves DEF Point, Off
<1>6. CASE ReleaseImage(d)
    <2>1. rendered \in Frame /\ rendered # 1 /\ preFrame = n /\ GivenTo(releases, n - 1)
        BY <1>6, <1>t DEF ReleaseImage, Trace, Busy, Off, Keeps
    <2>0. n - 1 \in Int /\ (n - 1) + 1 \in Frame
        BY <2>1
    <2>2. GivenTo(Counted(releases, (n - 1) + 1), (n - 1) + 1)
        BY <1>t, <2>0, <2>1, GivenOneMore
    <2>3. GivenTo(releases', n)
        BY <1>6, <1>t, <2>1, <2>2 DEF ReleaseImage
    <2>4. Trace(d)'
        BY <1>6, <1>t, <2>3 DEF ReleaseImage, Trace, Busy, Off, Keeps, GivenTo
    <2>5. hand' = [hand EXCEPT ![d] = hand[d]]
        BY <1>6, HandKept DEF ReleaseImage
    <2> QED
        BY <1>6, <1>a, <2>4, <2>5, OwnerMoves DEF ReleaseImage, Point, Off
<1>7. CASE ClearImage(d)
    <2>1. Trace(d)'
        BY <1>7, <1>t DEF ClearImage, Trace, Busy, Off, Keeps, GivenTo
    <2>2. hand' = [hand EXCEPT ![d] = hand[d]]
        BY <1>7, HandKept DEF ClearImage
    <2> QED
        BY <1>7, <1>a, <2>1, <2>2, OwnerMoves DEF ClearImage, Point, Off
<1>8. CASE SetImage(d)
    <2>1. Trace(d)'
        BY <1>8, <1>t DEF SetImage, Trace, Busy, Off, Keeps, GivenTo
    <2>2. hand' = [hand EXCEPT ![d] = hand[d]]
        BY <1>8, HandKept DEF SetImage
    <2> QED
        BY <1>8, <1>a, <2>1, <2>2, OwnerMoves DEF SetImage, Point, Off
<1>9. CASE SetData(d)
    <2>1. Trace(d)'
        BY <1>9, <1>t DEF SetData, Trace, Busy, Off, Keeps, GivenTo
    <2>2. hand' = [hand EXCEPT ![d] = hand[d]]
        BY <1>9, HandKept DEF SetData
    <2> QED
        BY <1>9, <1>a, <2>1, <2>2, OwnerMoves DEF SetData, Point, Off
<1>10. CASE Post(d)
    <2>1. Keeps(rendered, rendered, rendered - 1, rendered - 1)'
        BY <1>10, <1>t DEF Post, Trace, Keeps, GivenTo, service
    <2>2. Trace(d)'
        BY <1>10, <1>t DEF Post, Trace, Busy, Off
    <2> QED
        BY <1>10, <1>a, <2>1, <2>2, OwnerMoves DEF Post, Point, Off
<1>11. CASE End(d)
    <2>1. AllFree
        BY <1>11, <1>a, AloneBusy DEF End, AllFree, Busy, Off
    <2>2. Keeps(rendered, rendered, rendered - 1, rendered - 1)'
        BY <1>11, <2>1 DEF End, OwnerInv, Keeps, GivenTo, service
    <2>3. Trace(d)'
        BY <1>11, <1>t DEF End, Trace, Busy, Off
    <2>4. hand' = [hand EXCEPT ![d] = hand[d]]
        BY <1>11, HandKept DEF End
    <2> QED
        BY <1>11, <1>a, <2>2, <2>3, <2>4, OwnerMoves DEF End, Point, Off
<1> QED
    BY <1>1, <1>2, <1>3, <1>4, <1>5, <1>6, <1>7, <1>8, <1>9, <1>10, <1>11 DEF Decoder

LEMMA StepOwner == TypeOK /\ Safe /\ [Next]_vars => Safe'
<1> SUFFICES ASSUME TypeOK, OwnerInv, [Next]_vars, ~Overlapped'
             PROVE  OwnerInv'
    BY NoteStays DEF Safe
<1>1. ASSUME NEW d \in Decoders, Decoder(d) PROVE OwnerInv'
    BY <1>1, DecoderOwner
<1>2. ASSUME NEW d \in Decoders, Play(d) PROVE OwnerInv'
    <2>1. \A e \in Decoders : pc[e] \in Off /\ ~Busy(e)
        BY <1>2 DEF Play, Note, Overlapped, Alive, Busy
    <2>2. \A e \in Decoders : ~Busy(e)' /\ (Alive(e)' => e = d)
        BY <1>2, <2>1 DEF Play, Goto, Alive, Busy, TypeOK
    <2>3. Keeps(rendered, rendered, rendered - 1, rendered - 1)'
        BY <1>2, <2>1 DEF Play, OwnerInv, AllFree, Keeps, GivenTo, service
    <2>4. \A e \in Decoders : hand'[e] = None
        BY <1>2, <2>1 DEF Play, OwnerInv, Trace
    <2>5. \A e \in Decoders : Trace(e)'
        BY <2>2, <2>4 DEF Trace, Busy, Off
    <2> QED
        BY <2>2, <2>3, <2>5 DEF OwnerInv
<1>3. CASE ~(\E d \in Decoders : Decoder(d) \/ Play(d))
    <2>1. UNCHANGED <<pc, hand, rendered, preFrame, preFramedata, deletes, releases>>
        BY <1>3 DEF Next, vars, StopBegin, StopEnd, StopNothing, ShowFrame, Commit, FileEnds, service
    <2> QED
        BY <2>1 DEF OwnerInv, Trace, Alive, Busy, AllFree, Keeps, GivenTo
<1> QED
    BY <1>1, <1>2, <1>3

LEMMA OwnerGives == TypeOK /\ Safe => GivenBackOnce
<1> SUFFICES ASSUME TypeOK, OwnerInv, NEW f \in 1 .. rendered
             PROVE  /\ deletes[f] = 1 \/ (deletes[f] = 0 /\ (preFramedata = f \/ InHand(f)))
                    /\ releases[f] = 1 \/ (releases[f] = 0 /\ (preFrame = f \/ InHand(f)))
    BY DEF Safe, GivenBackOnce
<1>1. rendered \in Nat /\ f \in Frame /\ f \in Nat /\ f <= rendered
    BY DEF TypeOK
<1>2. CASE AllFree
    BY <1>1, <1>2 DEF OwnerInv, Keeps, GivenTo
<1>3. ASSUME NEW d \in Decoders, Busy(d)
      PROVE  /\ deletes[f] = 1 \/ (deletes[f] = 0 /\ (preFramedata = f \/ InHand(f)))
             /\ releases[f] = 1 \/ (releases[f] = 0 /\ (preFrame = f \/ InHand(f)))
    <2>1. Trace(d) /\ hand[d] = rendered /\ pc[d] \in Point
        BY <1>3 DEF OwnerInv, Trace, TypeOK
    <2>2. InHand(rendered)
        BY <2>1 DEF InHand
    <2> QED
        BY <1>1, <1>3, <2>1, <2>2 DEF Trace, Busy, Point, Off, Keeps, GivenTo
<1> QED
    BY <1>2, <1>3 DEF AllFree

\* Every copy and every image is given back exactly once, for any number of frames and
\* sessions, as long as no two decoder threads are in the callback.
THEOREM FramesGivenBackOnce == Spec => []GivenBackOnce
<1>1. Init => Safe
    BY InitOwner DEF Safe
<1> QED
    BY <1>1, InitType, StepType, StepOwner, OwnerGives, PTL DEF Spec

-----------------------------------------------------------------------------
(***************************************************************************)
(* The order on the way to the layer.                                      *)
(***************************************************************************)
LEMMA InitDisplay == Init => DisplayInv /\ CommitInv
<1> SUFFICES ASSUME Init
             PROVE  DisplayInv /\ CommitInv
    OBVIOUS
<1>1. AllFree /\ Posted = 0 /\ DOMAIN queue = {}
    BY DEF Init, AllFree, Busy, Off, Posted
<1> QED
    BY <1>1 DEF Init, DisplayInv, CommitInv, Shown

\* The numbers the order is about.
LEMMA DisplayType ==
    ASSUME TypeOK
    PROVE  /\ Posted \in Int /\ contents \in Nat /\ rendered \in Nat
           /\ Len(queue) \in Nat /\ queue \in Seq(Frame) /\ Shown \in Int
           /\ \A i \in DOMAIN queue : i \in Nat /\ queue[i] \in Frame /\ queue[i] \in Nat
           /\ queue # <<>> => Len(queue) \in DOMAIN queue /\ 1 \in DOMAIN queue
<1>1. queue \in Seq(Frame)
    BY DEF TypeOK
<1>2. \A i \in DOMAIN queue : i \in Nat /\ queue[i] \in Frame
    BY <1>1, ElementOf
<1>3. Len(queue) \in Nat /\ (queue # <<>> => Len(queue) \in DOMAIN queue /\ 1 \in DOMAIN queue)
    BY <1>1
<1>4. contents \in Nat /\ rendered \in Nat /\ Posted \in Int
    BY DEF TypeOK, Posted
<1> QED
    BY <1>1, <1>2, <1>3, <1>4 DEF Shown

\* What a step does to Posted: Render and Post do not change it, unless Post puts it on
\* the queue.
LEMMA DecoderDisplay ==
    ASSUME TypeOK, OwnerInv, DisplayInv, NEW d \in Decoders, Decoder(d)
    PROVE  DisplayInv'
<1> USE DEF Goto
<1>t. /\ rendered \in Nat /\ pc \in [Decoders -> Point] /\ Trace(d)
    BY DEF TypeOK, OwnerInv
<1>a. Alive(d)
    BY DEF Decoder, Alive, Off, Render, DataTest, DeleteData, ClearData, ImageTest,
           ReleaseImage, ClearImage, SetImage, SetData, Post, End
<1>b. \A e \in Decoders \ {d} : pc[e] \in Off
    BY <1>a, AloneBusy
<1>1. CASE Render(d)
    <2>1. AllFree /\ ~AllFree'
        BY <1>1, <1>t, <1>b DEF Render, AllFree, Busy, Off
    <2>2. Posted' = Posted
        BY <1>1, <1>t, <2>1 DEF Render, Posted
    <2> QED
        BY <1>1, <2>2 DEF Render, DisplayInv, Shown, main
<1>2. CASE Post(d)
    <2>1. ~AllFree /\ AllFree'
        BY <1>2, <1>t, <1>b DEF Post, AllFree, Busy, Off
    <2>2. Posted' = rendered /\ Posted = rendered - 1 /\ hand[d] = rendered /\ rendered \in Frame
        BY <1>2, <1>t, <2>1 DEF Post, Posted, Trace, Busy, Off, TypeOK
    <2>3. queue' = Append(queue, rendered) /\ contents' = contents
        BY <1>2, <2>2 DEF Post, main
    <2>4. /\ DOMAIN queue' = DOMAIN queue \cup {Len(queue) + 1}
          /\ \A k \in DOMAIN queue : k \in Nat /\ k <= Len(queue) /\ queue'[k] = queue[k]
          /\ queue'[Len(queue) + 1] = rendered /\ queue' # <<>> /\ Len(queue') = Len(queue) + 1
        BY <2>2, <2>3, AppendedTo, DisplayType
    <2>5. Shown' = Shown /\ rendered = Shown + Len(queue) + 1
        BY <2>2, <2>4, DisplayType DEF Shown
    <2>6. \A k \in DOMAIN queue' : queue'[k] = Shown' + k
        BY <2>4, <2>5, DisplayType DEF DisplayInv
    <2> QED
        BY <2>3, <2>5, <2>6 DEF DisplayInv
<1>3. CASE ~Render(d) /\ ~Post(d)
    <2>1. UNCHANGED <<queue, contents, rendered>>
        BY <1>3 DEF Decoder, DataTest, DeleteData, ClearData, ImageTest, ReleaseImage,
                    ClearImage, SetImage, SetData, End, main
    <2>2. AllFree' <=> AllFree
        BY <1>3, <1>t, <1>b DEF Decoder, DataTest, DeleteData, ClearData, ImageTest, ReleaseImage,
                    ClearImage, SetImage, SetData, End, AllFree, Busy, Off
    <2>3. Posted' = Posted
        BY <2>1, <2>2 DEF Posted
    <2> QED
        BY <2>1, <2>3 DEF DisplayInv, Shown
<1> QED
    BY <1>1, <1>2, <1>3

LEMMA StepDisplay ==
    ASSUME TypeOK, OwnerInv, DisplayInv, [Next]_vars, ~Overlapped'
    PROVE  DisplayInv'
<1>1. ASSUME NEW d \in Decoders, Decoder(d) PROVE DisplayInv'
    BY <1>1, DecoderDisplay
<1>2. ASSUME NEW d \in Decoders, Play(d) PROVE DisplayInv'
    <2>1. \A e \in Decoders : pc[e] \in Off
        BY <1>2 DEF Play, Note, Overlapped, Alive
    <2>2. AllFree /\ AllFree'
        BY <1>2, <2>1 DEF Play, Goto, AllFree, Busy, TypeOK
    <2>3. Posted' = Posted /\ UNCHANGED <<queue, contents>>
        BY <1>2, <2>2 DEF Play, Posted, main
    <2> QED
        BY <2>3 DEF DisplayInv, Shown
<1>3. CASE StopBegin \/ Commit \/ FileEnds \/ UNCHANGED vars
    <2>1. UNCHANGED <<pc, rendered, queue, contents>>
        BY <1>3 DEF StopBegin, Commit, FileEnds, vars, main
    <2> QED
        BY <2>1 DEF DisplayInv, Shown, Posted, AllFree, Busy
<1>4. CASE StopEnd \/ StopNothing
    <2>1. contents' = 0 /\ UNCHANGED <<pc, rendered, queue>>
        BY <1>4 DEF StopEnd, StopNothing
    <2>2. Posted' = Posted
        BY <2>1 DEF Posted, AllFree, Busy
    <2> QED
        BY <2>1, <2>2 DEF DisplayInv, Shown
<1>5. CASE ShowFrame
    <2>1. queue # <<>> /\ contents' = Head(queue) /\ queue' = Tail(queue) /\ UNCHANGED <<pc, rendered>>
        BY <1>5 DEF ShowFrame
    <2>2. Posted' = Posted
        BY <2>1 DEF Posted, AllFree, Busy
    <2>3. /\ contents' = queue[1] /\ 1 \in DOMAIN queue /\ Len(queue') = Len(queue) - 1
          /\ \A k \in DOMAIN queue' :
                k \in Nat /\ 1 < k + 1 /\ k + 1 \in DOMAIN queue /\ queue'[k] = queue[k + 1]
        BY <2>1, HeadAndTail, DisplayType
    <2>4. Shown' = Shown + 1
        BY <2>2, <2>3, DisplayType DEF Shown
    <2>5. contents' = Shown + 1 /\ \A k \in DOMAIN queue' : queue'[k] = Shown + (k + 1)
        BY <2>3 DEF DisplayInv
    <2>6. contents' = Shown' /\ \A k \in DOMAIN queue' : queue'[k] = Shown' + k
        BY <2>3, <2>4, <2>5, DisplayType
    <2> QED
        BY <2>4, <2>6, DisplayType DEF DisplayInv
<1> QED
    BY <1>1, <1>2, <1>3, <1>4, <1>5 DEF Next

\* When nothing is left to show, what is shown is the newest frame, and it is kept.
LEMMA DisplayRests == TypeOK /\ OwnerInv /\ DisplayInv => RestIsLive
<1> SUFFICES ASSUME TypeOK, OwnerInv, DisplayInv, Quiet, contents # None
             PROVE  contents = rendered /\ deletes[contents] = 0
    BY DEF RestIsLive
<1>1. AllFree /\ queue = <<>>
    BY DEF Quiet, AllFree, Alive, Busy
<1>2. contents = rendered
    BY <1>1, DisplayType DEF DisplayInv, Shown, Posted
<1>3. deletes[rendered] = 0
    BY <1>1, <1>2 DEF OwnerInv, Keeps, GivenTo, TypeOK
<1> QED
    BY <1>2, <1>3

\* The contents of the layer are replaced by nothing or by the next frame.
LEMMA DisplayOrder ==
    ASSUME TypeOK, DisplayInv, [Next]_vars
    PROVE  contents' \in {contents, None} \/ contents' = Shown + 1
<1>1. CASE ShowFrame
    <2>1. queue # <<>> /\ contents' = Head(queue)
        BY <1>1 DEF ShowFrame
    <2>2. contents' = queue[1] /\ 1 \in DOMAIN queue
        BY <2>1, HeadAndTail, DisplayType
    <2> QED
        BY <2>2 DEF DisplayInv
<1>2. CASE StopEnd \/ StopNothing
    BY <1>2 DEF StopEnd, StopNothing
<1>3. CASE ~ShowFrame /\ ~StopEnd /\ ~StopNothing
    <2>1. contents' = contents
        BY <1>3 DEF Next, vars, main, StopBegin, Commit, FileEnds, Play, Decoder, Render, DataTest,
                    DeleteData, ClearData, ImageTest, ReleaseImage, ClearImage, SetImage,
                    SetData, Post, End
    <2> QED
        BY <2>1
<1> QED
    BY <1>1, <1>2, <1>3

-----------------------------------------------------------------------------
(***************************************************************************)
(* A main thread that keeps up.                                            *)
(***************************************************************************)
LEMMA StepCommit ==
    ASSUME TypeOK, OwnerInv, CommitInv, [Next]_vars, ~Overlapped', "behind" \notin mishaps'
    PROVE  CommitInv'
<1> USE DEF Goto
<1>1. ASSUME NEW d \in Decoders, Decoder(d) PROVE CommitInv'
    <2>t. /\ rendered \in Nat /\ pc \in [Decoders -> Point] /\ Trace(d)
        BY DEF TypeOK, OwnerInv
    <2>a. Alive(d)
        BY <1>1 DEF Decoder, Alive, Off, Render, DataTest, DeleteData, ClearData, ImageTest,
               ReleaseImage, ClearImage, SetImage, SetData, Post, End
    <2>b. \A e \in Decoders \ {d} : pc[e] \in Off
        BY <2>a, AloneBusy
    <2>1. CASE Render(d)
        <3>1. queue = <<>> /\ ~uncommitted
            BY <2>1 DEF Render, Note
        <3> QED
            BY <2>1, <3>1 DEF Render, CommitInv, main
    <2>2. CASE Post(d)
        <3>1. ~AllFree /\ AllFree'
            BY <2>2, <2>t, <2>b DEF Post, AllFree, Busy, Off
        <3>2. hand[d] = rendered /\ rendered \in Frame
            BY <2>2, <2>t DEF Post, Trace, Busy, Off, TypeOK
        <3>3. queue = <<>> /\ (uncommitted => contents = None)
            BY <3>1 DEF CommitInv
        <3>4. queue' = <<rendered>> /\ UNCHANGED <<uncommitted, contents, rendered>>
            BY <2>2, <3>2, <3>3 DEF Post, main
        <3> QED
            BY <3>1, <3>3, <3>4 DEF CommitInv
    <2>3. CASE ~Render(d) /\ ~Post(d)
        <3>1. UNCHANGED <<queue, contents, rendered, uncommitted>>
            BY <1>1, <2>3 DEF Decoder, DataTest, DeleteData, ClearData, ImageTest, ReleaseImage,
                        ClearImage, SetImage, SetData, End, main
        <3>2. AllFree' <=> AllFree
            BY <1>1, <2>3, <2>t, <2>b DEF Decoder, DataTest, DeleteData, ClearData, ImageTest,
                        ReleaseImage, ClearImage, SetImage, SetData, End, AllFree, Busy, Off
        <3> QED
            BY <3>1, <3>2 DEF CommitInv
    <2> QED
        BY <2>1, <2>2, <2>3
<1>2. ASSUME NEW d \in Decoders, Play(d) PROVE CommitInv'
    <2>1. \A e \in Decoders : pc[e] \in Off
        BY <1>2 DEF Play, Note, Overlapped, Alive
    <2>2. AllFree'
        BY <1>2, <2>1 DEF Play, AllFree, Busy, TypeOK
    <2>3. UNCHANGED <<queue, contents, rendered, uncommitted>>
        BY <1>2 DEF Play, main
    <2> QED
        BY <2>2, <2>3 DEF CommitInv
<1>3. CASE StopBegin \/ FileEnds \/ UNCHANGED vars
    <2>1. UNCHANGED <<pc, rendered, queue, contents, uncommitted>>
        BY <1>3 DEF StopBegin, FileEnds, vars, main
    <2> QED
        BY <2>1 DEF CommitInv, AllFree, Busy
<1>4. CASE Commit
    <2>1. UNCHANGED <<pc, rendered, queue>> /\ ~uncommitted'
        BY <1>4 DEF Commit
    <2> QED
        BY <2>1 DEF CommitInv, AllFree, Busy
<1>5. CASE StopEnd \/ StopNothing
    <2>1. UNCHANGED <<pc, rendered, queue>> /\ contents' = None
        BY <1>5 DEF StopEnd, StopNothing
    <2> QED
        BY <2>1 DEF CommitInv, AllFree, Busy
<1>6. CASE ShowFrame
    <2>1. queue # <<>> /\ contents' = Head(queue) /\ queue' = Tail(queue) /\ UNCHANGED <<pc, rendered>>
        BY <1>6 DEF ShowFrame
    <2>2. /\ contents' = queue[1] /\ 1 \in DOMAIN queue
          /\ \A k \in DOMAIN queue' : k + 1 \in DOMAIN queue /\ queue'[k] = queue[k + 1]
        BY <2>1, HeadAndTail, DisplayType
    <2>3. AllFree
        BY <2>1 DEF CommitInv
    <2>4. AllFree'
        BY <2>1, <2>3 DEF AllFree, Busy
    <2> QED
        BY <2>1, <2>2, <2>4 DEF CommitInv
<1> QED
    BY <1>1, <1>2, <1>3, <1>4, <1>5, <1>6 DEF Next

LEMMA CommitLives == TypeOK /\ OwnerInv /\ CommitInv => PixelsLive
<1> SUFFICES ASSUME TypeOK, OwnerInv, CommitInv, uncommitted, contents # None
             PROVE  deletes[contents] = 0
    BY DEF PixelsLive
<1>1. AllFree /\ contents = rendered /\ rendered \in Frame
    BY DEF CommitInv, TypeOK
<1> QED
    BY <1>1 DEF OwnerInv, Keeps, GivenTo

-----------------------------------------------------------------------------
(***************************************************************************)
(* The invariant as a whole.                                               *)
(***************************************************************************)
LEMMA StepKeeping == TypeOK /\ KeepingInv /\ [Next]_vars => KeepingInv'
<1> SUFFICES ASSUME TypeOK, OwnerInv, DisplayInv, "behind" \in mishaps \/ CommitInv,
                    [Next]_vars, ~Overlapped'
             PROVE  OwnerInv' /\ DisplayInv' /\ ("behind" \in mishaps' \/ CommitInv')
    BY NoteStays DEF KeepingInv
<1>1. OwnerInv'
    BY StepOwner DEF Safe
<1>2. DisplayInv'
    BY StepDisplay
<1>3. "behind" \in mishaps' \/ CommitInv'
    BY NoteStays, StepCommit
<1> QED
    BY <1>1, <1>2, <1>3

LEMMA KeepingGives == TypeOK /\ KeepingInv => PixelsLive /\ RestIsLive
BY DisplayRests, CommitLives DEF KeepingInv, PixelsLive, RestIsLive, Overlapped

\* The invariant of the hand-over is inductive.
THEOREM KeepingInvariant == Spec => []KeepingInv
<1>1. Init => KeepingInv
    BY InitOwner, InitDisplay DEF KeepingInv
<1> QED
    BY <1>1, InitType, StepType, StepKeeping, PTL DEF Spec

\* What a commit reads has not been deleted, as long as the main thread keeps up.
THEOREM PixelsAreLive == Spec => []PixelsLive
BY KeepingInvariant, TypeCorrect, KeepingGives, PTL

\* What a player at rest shows is kept, whatever the main thread has missed.
THEOREM RestsLive == Spec => []RestIsLive
BY KeepingInvariant, TypeCorrect, KeepingGives, PTL

\* No frame is shown after a newer one, and none is left out.
THEOREM FramesInOrder == Spec => ShowsInOrder
<1>1. TypeOK /\ KeepingInv /\ [Next]_vars
          => [contents' \in {contents, None} \/ contents' = Shown + 1 \/ Overlapped]_contents
    BY DisplayOrder DEF KeepingInv
<1> QED
    BY <1>1, KeepingInvariant, TypeCorrect, PTL DEF ShowsInOrder, Spec

=============================================================================
