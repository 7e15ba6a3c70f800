-------------------------- MODULE PermenantThread --------------------------
(***************************************************************************)
(* PermenantThread.m: a thread kept alive by its run loop, to which        *)
(* excuteTask: hands blocks and stop hands __stop and waits.  dealloc      *)
(* calls stop.                                                             *)
(*                                                                         *)
(* The perform queue of a thread is Foundation's: a request is performed   *)
(* when the thread is in its run loop, runMode returns once it has         *)
(* performed one or more, and what is handed to a thread that has ended is *)
(* never performed: a task is dropped, and a call that waits for it does   *)
(* not return normally.  A request retains the object, and so does the     *)
(* condition of the loop while it is evaluated.                            *)
(***************************************************************************)
EXTENDS Naturals, Sequences, SequencesExt

CONSTANTS
    Callers,        \* threads that use the object
    Tasks           \* blocks that may be handed, each once

ASSUME CallersAssumption == Callers \cap Tasks = {}

VARIABLES
    innerThread,    \* it is not nil
    stopped,
    owned,          \* the callers still have their reference
    weakSelf,       \* the object has not been deallocated
    loop,           \* where the thread is
    queue,          \* requests to perform: a task, or the caller that wants a stop
    pc,             \* where each caller is
    hand,           \* the task it is about to hand over, if any
    submitted,      \* auxiliary: tasks in the order in which they were handed over
    performed,      \* auxiliary: tasks in the order in which they were performed
    mishaps         \* auxiliary: races that have happened

flags == <<innerThread, stopped, owned, weakSelf>>
history == <<submitted, performed>>
vars == <<flags, loop, queue, pc, hand, history, mishaps>>

TypeOK ==
    /\ innerThread \in BOOLEAN /\ stopped \in BOOLEAN
    /\ owned \in BOOLEAN /\ weakSelf \in BOOLEAN
    /\ loop \in {"self", "flag", "run", "ended"}
    /\ queue \in Seq(Tasks \cup Callers)
    /\ pc \in [Callers -> {"idle", "task", "stop", "wait"}]
    /\ hand \in [Callers -> SUBSET Tasks]
    /\ submitted \in Seq(Tasks) /\ performed \in Seq(Tasks)
    /\ mishaps \subseteq {"late_stop", "late_task", "gone", "leaked"}

Init ==
    /\ innerThread = TRUE /\ stopped = FALSE /\ owned = TRUE /\ weakSelf = TRUE
    /\ loop = "self" /\ queue = <<>>
    /\ pc = [c \in Callers |-> "idle"] /\ hand = [c \in Callers |-> {}]
    /\ submitted = <<>> /\ performed = <<>>
    /\ mishaps = {}

Goto(c, from, to) == pc[c] = from /\ pc' = [pc EXCEPT ![c] = to]
Note(m, happened) == mishaps' = IF happened THEN mishaps \cup {m} ELSE mishaps

\* a stop is on its way, or has been performed, or the thread is not there any more
Ending == stopped \/ loop = "ended" \/ ToSet(queue) \cap Callers # {}

-----------------------------------------------------------------------------
ExcuteTask(c, t) ==
    /\ owned /\ innerThread
    /\ t \notin ToSet(submitted) \cup UNION {hand[d] : d \in Callers}
    /\ Goto(c, "idle", "task")
    /\ hand' = [hand EXCEPT ![c] = {t}]
    /\ UNCHANGED <<flags, loop, queue, history, mishaps>>

\* performSelector:onThread:withObject:waitUntilDone:NO
HandTask(c) ==
    /\ Goto(c, "task", "idle")
    /\ \E t \in hand[c] : queue' = Append(queue, t) /\ submitted' = Append(submitted, t)
    /\ hand' = [hand EXCEPT ![c] = {}]
    /\ Note("late_task", Ending)
    /\ UNCHANGED <<flags, loop, performed>>

Stop(c) ==
    /\ owned /\ innerThread
    /\ Goto(c, "idle", "stop")
    /\ UNCHANGED <<flags, loop, queue, hand, history, mishaps>>

\* performSelector:onThread:withObject:waitUntilDone:YES
HandStop(c) ==
    /\ Goto(c, "stop", "wait")
    /\ queue' = Append(queue, c)
    /\ Note("late_stop", Ending /\ "gone" \notin mishaps)
    /\ UNCHANGED <<flags, loop, hand, history>>

\* The reference of the callers goes, when none of them is in a call.  It is the last
\* one unless a request or the condition of the loop has another: then dealloc stops.
Release(c) ==
    /\ owned /\ \A d \in Callers : pc[d] = "idle"
    /\ owned' = FALSE
    /\ IF queue = <<>> /\ loop # "flag"
       THEN weakSelf' = FALSE /\ Goto(c, "idle", IF innerThread THEN "stop" ELSE "idle")
       ELSE UNCHANGED <<weakSelf, pc>>
    /\ UNCHANGED <<innerThread, stopped, loop, queue, hand, history, mishaps>>

Call(c) == HandTask(c) \/ HandStop(c)

-----------------------------------------------------------------------------
(***************************************************************************)
(* The thread: while (weakSelf && !weakSelf.isStopped) runMode.  If it     *)
(* drops the last reference, dealloc performs __stop here and now.         *)
(***************************************************************************)
Drop(rest) ==
    LET last == weakSelf /\ ~owned /\ rest = <<>>
    IN  /\ weakSelf' = (weakSelf /\ ~last)
        /\ stopped' = (stopped \/ last)
        /\ innerThread' = (innerThread /\ ~last)

SelfTest ==
    /\ loop = "self"
    /\ loop' = IF weakSelf THEN "flag" ELSE "ended"
    /\ Note("gone", ~weakSelf /\ ~stopped)
    /\ UNCHANGED <<flags, queue, pc, hand, history>>

FlagTest ==
    /\ loop = "flag"
    /\ loop' = IF stopped THEN "ended" ELSE "run"
    /\ Drop(queue)
    /\ Note("leaked", weakSelf /\ ~weakSelf' /\ ~stopped)
    /\ UNCHANGED <<owned, queue, pc, hand, history>>

\* runMode returns, or goes on with what is in the queue.
TurnEnds(rest) == loop' = "self" \/ (rest # <<>> /\ loop' = "run")

\* Mutant: the run loop is entered only once.
PerformTaskOnce ==
    /\ loop = "run" /\ queue # <<>> /\ Head(queue) \in Tasks
    /\ performed' = Append(performed, Head(queue))
    /\ queue' = Tail(queue) /\ loop' = "ended" /\ Drop(queue')
    /\ UNCHANGED <<owned, pc, hand, submitted, mishaps>>

PerformTask ==
    /\ loop = "run" /\ queue # <<>> /\ Head(queue) \in Tasks
    /\ performed' = Append(performed, Head(queue))
    /\ queue' = Tail(queue) /\ TurnEnds(queue') /\ Drop(queue')
    /\ UNCHANGED <<owned, pc, hand, submitted, mishaps>>

\* Mutant: __stop does not set the flag.
PerformStopOnly ==
    /\ loop = "run" /\ queue # <<>> /\ Head(queue) \in Callers
    /\ innerThread' = FALSE
    /\ pc' = [pc EXCEPT ![Head(queue)] = "idle"]
    /\ queue' = Tail(queue) /\ TurnEnds(queue')
    /\ UNCHANGED <<stopped, owned, weakSelf, hand, history, mishaps>>

\* Mutant: the caller is not let go on when __stop has been performed.
PerformStopSilently ==
    /\ loop = "run" /\ queue # <<>> /\ Head(queue) \in Callers
    /\ stopped' = TRUE /\ innerThread' = FALSE
    /\ queue' = Tail(queue) /\ TurnEnds(queue')
    /\ UNCHANGED <<owned, weakSelf, pc, hand, history, mishaps>>

\* __stop, after which its caller goes on
PerformStop ==
    /\ loop = "run" /\ queue # <<>> /\ Head(queue) \in Callers
    /\ stopped' = TRUE /\ innerThread' = FALSE
    /\ pc' = [pc EXCEPT ![Head(queue)] = "idle"]
    /\ queue' = Tail(queue) /\ TurnEnds(queue')
    /\ UNCHANGED <<owned, weakSelf, hand, history, mishaps>>

Thread == SelfTest \/ FlagTest \/ PerformTask \/ PerformStop

Next ==
    \/ \E c \in Callers : Stop(c) \/ Release(c) \/ Call(c) \/ \E t \in Tasks : ExcuteTask(c, t)
    \/ Thread

Spec == Init /\ [][Next]_vars

\* The thread runs when it has something to do, and a call that has begun goes on.
FairSpec == Spec /\ WF_vars(Thread) /\ \A c \in Callers : WF_vars(Call(c))

-----------------------------------------------------------------------------
(***************************************************************************)
(* Properties.                                                             *)
(***************************************************************************)
\* A task is performed, unless it was handed over after a stop: excuteTask looks at
\* innerThread before (PermenantThread.m:41, 44).
TasksPerformed ==
    \A t \in Tasks : t \in ToSet(submitted) ~> t \in ToSet(performed) \/ "late_task" \in mishaps

\* A stop returns, unless another one was on its way, or the thread has seen the object
\* gone before dealloc handed it the stop (PermenantThread.m:25, 48-52).
StopReturns ==
    \A c \in Callers : pc[c] = "wait" ~> pc[c] = "idle" \/ mishaps \cap {"late_stop", "gone"} # {}

\* After a stop or the end of the object the thread ends, unless the object went at the
\* end of the condition, after the last look at the flag: then runMode has nothing to
\* wake up for (PermenantThread.m:25-27, 37).
ThreadEnds ==
    (stopped \/ ~weakSelf) ~> (loop = "ended" \/ "leaked" \in mishaps)

\* Nothing is left where nobody will come by (PermenantThread.m:25-27, 41-52): when the
\* thread has ended, no task is unperformed and no caller of stop waits, and the thread
\* sleeps in an empty run loop after the end only if a stop is about to be handed to it,
\* all of this up to the races named above.
NothingStranded ==
    /\ loop = "ended" =>
          /\ ToSet(submitted) \subseteq ToSet(performed) \/ "late_task" \in mishaps
          /\ (\A c \in Callers : pc[c] # "wait") \/ mishaps \cap {"late_stop", "gone"} # {}
    /\ loop = "run" /\ queue = <<>> /\ (stopped \/ ~weakSelf) =>
          "leaked" \in mishaps \/ \E c \in Callers : pc[c] = "stop"

-----------------------------------------------------------------------------
(***************************************************************************)
(* The inductive invariant behind NothingStranded.                         *)
(***************************************************************************)
\* A caller waits exactly while its stop is in the queue, and no task gets lost.
QueueInv ==
    /\ \A c \in Callers : pc[c] = "wait" <=> c \in ToSet(queue)
    /\ \A i, j \in DOMAIN queue : queue[i] = queue[j] /\ queue[i] \in Callers => i = j
    /\ ToSet(submitted) = ToSet(performed) \cup (ToSet(queue) \cap Tasks)

\* The end of the object: who may still be in a call, and what ends the thread.
LifeInv ==
    /\ innerThread = ~stopped
    /\ ~weakSelf => ~owned /\ ToSet(queue) \cap Tasks = {}
    /\ ~owned => \A c \in Callers : pc[c] # "task" /\ (weakSelf => pc[c] = "idle")
    /\ ~weakSelf /\ ~stopped => \E c \in Callers : pc[c] \in {"stop", "wait"}
    /\ loop = "ended" => stopped \/ (~weakSelf /\ "gone" \in mishaps)
    /\ loop = "run" /\ queue = <<>> /\ stopped => "leaked" \in mishaps

\* The queue is first in, first out: unless a race has been noted, no task is behind a
\* stop, and only the stop that is performed first is ever waited for.
OrderInv ==
    /\ "late_task" \notin mishaps =>
          /\ stopped => ToSet(queue) \cap Tasks = {}
          /\ \A i, j \in DOMAIN queue : i < j /\ queue[i] \in Callers => queue[j] \in Callers
    /\ mishaps \cap {"late_stop", "gone"} = {} =>
          /\ \A c \in Callers : pc[c] = "wait" => ~stopped
          /\ \A c, d \in Callers : pc[c] = "wait" /\ pc[d] = "wait" => c = d

ThreadInv == QueueInv /\ LifeInv /\ OrderInv

=============================================================================
