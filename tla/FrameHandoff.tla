---------------------------- MODULE FrameHandoff ----------------------------
(***************************************************************************)
(* A decoded frame on its way to the screen: decodeVideo copies it, the    *)
(* callback of VideoService makes an image of the copy without copying it  *)
(* again and frees the previous one, the controller posts the image to     *)
(* the main queue, and the view gives it to its layer (VideoService.mm,    *)
(* VideoPlayerVC.swift, PlayerView.swift).                                 *)
(*                                                                         *)
(* A block and a layer retain the image, not the copy its pixels are in.   *)
(* The pixels are read when the main thread commits the layer.  That one   *)
(* decoder thread has ended before the next starts is PlayerLifecycle's    *)
(* business; here an overlap is one of two named mishaps.                  *)
(***************************************************************************)
EXTENDS Naturals, Sequences, SequencesExt

CONSTANTS
    Decoders,       \* decoder threads: one for each session that may be started
    MaxFrames       \* frames that may be decoded: the bound of the counter

ASSUME BoundAssumption == MaxFrames \in Nat

Frame == 1 .. MaxFrames
None == 0

VARIABLES
    playing,        \* the state of the player is not Stopped
    pc,             \* where each decoder thread is
    hand,           \* the frame it is passing on
    rendered,       \* number of frames copied and made into images so far
    preFrame,       \* VideoService: the image, by the number of its frame, ...
    preFramedata,   \* ... and the copy it was made of
    deletes,        \* how often each copy has been deleted
    releases,       \* how often the service has released each image
    queue,          \* blocks on the main queue, by the frame they show
    ui,             \* the main thread: in its run loop or inside service.stop()
    contents,       \* the image the layer shows
    uncommitted,    \* the layer has been given contents since the last commit
    mishaps         \* auxiliary: "overlap", "behind"

service == <<preFrame, preFramedata, deletes, releases>>
main == <<ui, contents, uncommitted>>
vars == <<playing, pc, hand, rendered, service, queue, main, mishaps>>

Off == {"unborn", "done"}
Point == Off \cup {"decode", "data", "delete", "clear_data", "image", "release",
                   "clear_image", "set_image", "set_data", "post"}

TypeOK ==
    /\ playing \in BOOLEAN /\ uncommitted \in BOOLEAN
    /\ pc \in [Decoders -> Point]
    /\ hand \in [Decoders -> Frame \cup {None}]
    /\ rendered \in 0 .. MaxFrames
    /\ {preFrame, preFramedata, contents} \subseteq Frame \cup {None}
    /\ deletes \in [Frame -> Nat] /\ releases \in [Frame -> Nat]
    /\ queue \in Seq(Frame)
    /\ ui \in {"idle", "stopping"}
    /\ mishaps \subseteq {"overlap", "behind"}

Init ==
    /\ playing = FALSE
    /\ pc = [d \in Decoders |-> "unborn"]
    /\ hand = [d \in Decoders |-> None]
    /\ rendered = 0
    /\ preFrame = None /\ preFramedata = None
    /\ deletes = [f \in Frame |-> 0] /\ releases = [f \in Frame |-> 0]
    /\ queue = <<>>
    /\ ui = "idle" /\ contents = None /\ uncommitted = FALSE
    /\ mishaps = {}

Alive(d) == pc[d] \notin Off
Note(m, happened) == mishaps' = IF happened THEN mishaps \cup {m} ELSE mishaps
Counted(count, f) == IF f = None THEN count ELSE [count EXCEPT ![f] = @ + 1]

-----------------------------------------------------------------------------
(***************************************************************************)
(* A decoder thread.                                                       *)
(***************************************************************************)
\* d goes from one statement to the next
Goto(d, from, to) == pc[d] = from /\ pc' = [pc EXCEPT ![d] = to]

\* The end of the inner loop of decodeVideo: copy the converted frame, make an image of
\* the copy.  Only the outer loop looks at the state.
Render(d) ==
    /\ Goto(d, "decode", "data")
    /\ rendered < MaxFrames
    /\ rendered' = rendered + 1
    /\ hand' = [hand EXCEPT ![d] = rendered + 1]
    /\ Note("behind", queue # <<>> \/ uncommitted)
    /\ UNCHANGED <<playing, service, queue, main>>

\* Mutant: releasePreFrame is not called.
ReleaseForgotten(d) ==
    /\ Goto(d, "data", "set_image")
    /\ UNCHANGED <<playing, hand, rendered, service, queue, main, mishaps>>

\* releasePreFrame: both parts test the image.
DataTest(d) ==
    /\ Goto(d, "data", IF preFrame # None THEN "delete" ELSE "image")
    /\ UNCHANGED <<playing, hand, rendered, service, queue, main, mishaps>>

\* Mutant: the new copy is deleted instead of the previous one.
DeleteNewData(d) ==
    /\ Goto(d, "delete", "clear_data")
    /\ deletes' = Counted(deletes, hand[d])
    /\ UNCHANGED <<playing, hand, rendered, preFrame, preFramedata, releases, queue, main, mishaps>>

DeleteData(d) ==
    /\ Goto(d, "delete", "clear_data")
    /\ deletes' = Counted(deletes, preFramedata)
    /\ UNCHANGED <<playing, hand, rendered, preFrame, preFramedata, releases, queue, main, mishaps>>

ClearData(d) ==
    /\ Goto(d, "clear_data", "image")
    /\ preFramedata' = None
    /\ UNCHANGED <<playing, hand, rendered, preFrame, deletes, releases, queue, main, mishaps>>

ImageTest(d) ==
    /\ Goto(d, "image", IF preFrame # None THEN "release" ELSE "set_image")
    /\ UNCHANGED <<playing, hand, rendered, service, queue, main, mishaps>>

ReleaseImage(d) ==
    /\ Goto(d, "release", "clear_image")
    /\ releases' = Counted(releases, preFrame)
    /\ UNCHANGED <<playing, hand, rendered, preFrame, preFramedata, deletes, queue, main, mishaps>>

ClearImage(d) ==
    /\ Goto(d, "clear_image", "set_image")
    /\ preFrame' = None
    /\ UNCHANGED <<playing, hand, rendered, preFramedata, deletes, releases, queue, main, mishaps>>

SetImage(d) ==
    /\ Goto(d, "set_image", "set_data")
    /\ preFrame' = hand[d]
    /\ UNCHANGED <<playing, hand, rendered, preFramedata, deletes, releases, queue, main, mishaps>>

SetData(d) ==
    /\ Goto(d, "set_data", "post")
    /\ preFramedata' = hand[d]
    /\ UNCHANGED <<playing, hand, rendered, preFrame, deletes, releases, queue, main, mishaps>>

\* Mutant: the block is posted in front of those that wait.
PostInFront(d) ==
    /\ Goto(d, "post", "decode")
    /\ queue' = <<hand[d]>> \o queue
    /\ hand' = [hand EXCEPT ![d] = None]
    /\ UNCHANGED <<playing, rendered, service, main, mishaps>>

\* Mutant: the decoder thread waits until the main thread is free for the block.
PostWhenFree(d) ==
    /\ Goto(d, "post", "decode")
    /\ ui = "idle"
    /\ queue' = Append(queue, hand[d])
    /\ hand' = [hand EXCEPT ![d] = None]
    /\ UNCHANGED <<playing, rendered, service, main, mishaps>>

\* playerDidDecodeVideoFrame: DispatchQueue.main.async
Post(d) ==
    /\ Goto(d, "post", "decode")
    /\ queue' = Append(queue, hand[d])
    /\ hand' = [hand EXCEPT ![d] = None]
    /\ UNCHANGED <<playing, rendered, service, main, mishaps>>

End(d) ==
    /\ Goto(d, "decode", "done")
    /\ ~playing
    /\ UNCHANGED <<playing, hand, rendered, service, queue, main, mishaps>>

Decoder(d) ==
    \/ Render(d) \/ DataTest(d) \/ DeleteData(d) \/ ClearData(d) \/ ImageTest(d)
    \/ ReleaseImage(d) \/ ClearImage(d) \/ SetImage(d) \/ SetData(d) \/ Post(d) \/ End(d)

-----------------------------------------------------------------------------
(***************************************************************************)
(* The main thread.  While it waits in stop() it runs no block and does    *)
(* not commit.                                                             *)
(***************************************************************************)
\* A session whose decoder thread starts; play() does not always find the last one over.
Play(d) ==
    /\ ui = "idle"
    /\ Goto(d, "unborn", "decode")
    /\ playing' = TRUE
    /\ Note("overlap", \E e \in Decoders : Alive(e))
    /\ UNCHANGED <<hand, rendered, service, queue, main>>

StopBegin ==
    /\ ui = "idle" /\ playing
    /\ ui' = "stopping"
    /\ playing' = FALSE
    /\ UNCHANGED <<pc, hand, rendered, service, queue, contents, uncommitted, mishaps>>

\* Mutant: the last frame is released here too, and its pointers are kept.
StopEndReleases ==
    /\ ui = "stopping"
    /\ \A d \in Decoders : ~Alive(d)
    /\ ui' = "idle"
    /\ contents' = None /\ uncommitted' = TRUE
    /\ deletes' = Counted(deletes, preFramedata)
    /\ releases' = Counted(releases, preFrame)
    /\ UNCHANGED <<playing, pc, hand, rendered, preFrame, preFramedata, queue, mishaps>>

\* stop() has waited for the decoder thread; the layer is emptied.
StopEnd ==
    /\ ui = "stopping"
    /\ \A d \in Decoders : ~Alive(d)
    /\ ui' = "idle"
    /\ contents' = None /\ uncommitted' = TRUE
    /\ UNCHANGED <<playing, pc, hand, rendered, service, queue, mishaps>>

\* stop() finds Stopped and returns; a decoder thread may still be in its last turn.
StopNothing ==
    /\ ui = "idle" /\ ~playing
    /\ contents' = None /\ uncommitted' = TRUE
    /\ UNCHANGED <<playing, pc, hand, rendered, service, queue, ui, mishaps>>

ShowFrame ==
    /\ ui = "idle" /\ queue # <<>>
    /\ contents' = Head(queue) /\ uncommitted' = TRUE
    /\ queue' = Tail(queue)
    /\ UNCHANGED <<playing, pc, hand, rendered, service, ui, mishaps>>

Commit ==
    /\ ui = "idle" /\ uncommitted
    /\ uncommitted' = FALSE
    /\ UNCHANGED <<playing, pc, hand, rendered, service, queue, ui, contents, mishaps>>

\* The reader's own stop() at the end of the file leaves the layer alone.
FileEnds ==
    /\ playing
    /\ playing' = FALSE
    /\ UNCHANGED <<pc, hand, rendered, service, queue, main, mishaps>>

Next ==
    \/ \E d \in Decoders : Decoder(d) \/ Play(d)
    \/ StopBegin \/ StopEnd \/ StopNothing \/ ShowFrame \/ Commit \/ FileEnds

Spec == Init /\ [][Next]_vars

\* Decoder threads and the main thread go on; a user need not press anything.
Fairness ==
    /\ \A d \in Decoders : WF_vars(Decoder(d))
    /\ WF_vars(StopEnd) /\ WF_vars(ShowFrame) /\ WF_vars(Commit)

FairSpec == Spec /\ Fairness

-----------------------------------------------------------------------------
(***************************************************************************)
(* Properties.                                                             *)
(***************************************************************************)
Overlapped == "overlap" \in mishaps

InHand(f) == \E d \in Decoders : hand[d] = f

\* The copy and the image of every frame are given back exactly once, and until then a
\* decoder thread has them in hand or the service keeps them, as long as no two decoder
\* threads are in the callback (VideoService.mm:40-50, 81-84).
GivenBackOnce ==
    Overlapped \/ \A f \in 1 .. rendered :
        /\ deletes[f] = 1 \/ (deletes[f] = 0 /\ (preFramedata = f \/ InHand(f)))
        /\ releases[f] = 1 \/ (releases[f] = 0 /\ (preFrame = f \/ InHand(f)))

\* A commit reads the pixels of a copy that has not been deleted, as long as the main
\* thread has committed each frame before the next is decoded: nothing in the code makes
\* the decoder thread wait for it (VideoService.mm:82-85, VideoPlayerVC.swift:74).
PixelsLive ==
    mishaps # {} \/ (uncommitted /\ contents # None => deletes[contents] = 0)

Quiet == ui = "idle" /\ queue = <<>> /\ \A d \in Decoders : ~Alive(d)

\* Even when the main thread is behind, what the layer shows when everything has come to
\* rest is nothing or the newest frame, whose copy the service keeps until the next
\* session (VideoService.mm:83-84).
RestIsLive ==
    Overlapped \/ (Quiet /\ contents # None => contents = rendered /\ deletes[contents] = 0)

Busy(d) == pc[d] \notin Off \cup {"decode"}
AllFree == \A d \in Decoders : ~Busy(d)

\* The newest frame that has been given to the main queue.
Posted == IF AllFree THEN rendered ELSE rendered - 1
\* How many of them are not on it any more.
Shown == Posted - Len(queue)

\* Frames reach the layer in the order in which they were decoded and none is left out,
\* across sessions too and however far behind the main thread is
\* (VideoPlayerVC.swift:74, 97).
ShowsInOrder ==
    [][contents' \in {contents, None} \/ contents' = Shown + 1 \/ Overlapped]_contents

\* The main thread does not stay in stop(), and every frame posted is shown
\* (VideoPlayerVC.swift:53-54, 97).
EveryFrameShown == \A f \in Frame : f \in ToSet(queue) ~> contents = f

-----------------------------------------------------------------------------
(***************************************************************************)
(* Why they hold: where the newest frame is, and what has been done to the *)
(* one before it.                                                          *)
(***************************************************************************)
\* The frames up to n have been given back, once, and no other.
GivenTo(count, n) == \A f \in Frame : count[f] = IF f <= n THEN 1 ELSE 0

Keeps(image, data, released, deleted) ==
    /\ preFrame = image /\ preFramedata = data
    /\ GivenTo(releases, released) /\ GivenTo(deletes, deleted)

\* Each statement of a decoder thread leaves its trace.
Trace(d) ==
    /\ hand[d] = IF Busy(d) THEN rendered ELSE None
    /\ Busy(d) => rendered # 0
    /\ pc[d] \in {"data", "delete"} =>
           Keeps(rendered - 1, rendered - 1, rendered - 2, rendered - 2)
    /\ pc[d] = "clear_data" => Keeps(rendered - 1, rendered - 1, rendered - 2, rendered - 1)
    /\ pc[d] \in {"image", "release"} => Keeps(rendered - 1, None, rendered - 2, rendered - 1)
    /\ pc[d] \in {"delete", "clear_data", "release", "clear_image"} => rendered # 1
    /\ pc[d] = "clear_image" => Keeps(rendered - 1, None, rendered - 1, rendered - 1)
    /\ pc[d] = "set_image" => Keeps(None, None, rendered - 1, rendered - 1)
    /\ pc[d] = "set_data" => Keeps(rendered, None, rendered - 1, rendered - 1)
    /\ pc[d] = "post" => Keeps(rendered, rendered, rendered - 1, rendered - 1)

\* It is alone, and between two frames the last one is kept.
OwnerInv ==
    /\ \A d, e \in Decoders : Alive(d) /\ Alive(e) => d = e
    /\ AllFree => Keeps(rendered, rendered, rendered - 1, rendered - 1)
    /\ \A d \in Decoders : Trace(d)

\* What is on the main queue continues what has been shown.
DisplayInv ==
    /\ 0 <= Shown /\ contents \in {None, Shown}
    /\ \A i \in DOMAIN queue : queue[i] = Shown + i

\* A main thread that keeps up has only the newest frame before it.
CommitInv ==
    /\ ~AllFree => queue = <<>> /\ (uncommitted => contents = None)
    /\ \A i \in DOMAIN queue : queue[i] = rendered
    /\ uncommitted => contents \in {None, rendered}

KeepingInv ==
    Overlapped \/ (OwnerInv /\ DisplayInv /\ ("behind" \in mishaps \/ CommitInv))

=============================================================================
