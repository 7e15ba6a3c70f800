----------------------- MODULE PermenantThreadProofs -----------------------
(***************************************************************************)
(* For any number of callers and tasks: PermenantThread strands nobody     *)
(* except after the races that the model names.  The invariant ThreadInv   *)
(* has a part about the perform queue, one about the end of the object and *)
(* one about the order in which tasks and stops were handed over; there    *)
(* is one lemma per part and one step per action in each.                  *)
(***************************************************************************)
EXTENDS PermenantThread, TLAPS

USE CallersAssumption
USE DEF flags, history, Goto, Note

(***************************************************************************)
(* Types.                                                                  *)
(***************************************************************************)
LEMMA InitType == Init => TypeOK
<1> SUFFICES ASSUME Init
             PROVE  TypeOK
    OBVIOUS
<1> USE DEF Init
<1>1. /\ innerThread \in BOOLEAN /\ stopped \in BOOLEAN
      /\ owned \in BOOLEAN /\ weakSelf \in BOOLEAN
      /\ loop \in {"self", "flag", "run", "ended"}
    OBVIOUS
<1>2. queue \in Seq(Tasks \cup Callers) /\ submitted \in Seq(Tasks) /\ performed \in Seq(Tasks)
    OBVIOUS
<1>3. pc \in [Callers -> {"idle", "task", "stop", "wait"}]
    OBVIOUS
<1>4. hand \in [Callers -> SUBSET Tasks]
    OBVIOUS
<1> QED
    BY <1>1, <1>2, <1>3, <1>4 DEF TypeOK

LEMMA StepType == TypeOK /\ [Next]_vars => TypeOK'
<1> SUFFICES ASSUME TypeOK, [Next]_vars
             PROVE  TypeOK'
    OBVIOUS
<1> USE DEF TypeOK
<1>1. ASSUME NEW c \in Callers, NEW t \in Tasks, ExcuteTask(c, t)
      PROVE  TypeOK'
    BY <1>1 DEF ExcuteTask
<1>2. ASSUME NEW c \in Callers, HandTask(c)
      PROVE  TypeOK'
    BY <1>2 DEF HandTask
<1>3. ASSUME NEW c \in Callers, Stop(c)
      PROVE  TypeOK'
    BY <1>3 DEF Stop
<1>4. ASSUME NEW c \in Callers, HandStop(c)
      PROVE  TypeOK'
    BY <1>4 DEF HandStop
<1>5. ASSUME NEW c \in Callers, Release(c)
      PROVE  TypeOK'
    BY <1>5 DEF Release
<1>6. CASE SelfTest
    BY <1>6 DEF SelfTest
<1>7. CASE FlagTest
    BY <1>7 DEF FlagTest, Drop
<1>8. CASE PerformTask
    BY <1>8 DEF PerformTask, Drop, TurnEnds
<1>9. CASE PerformStop
    <2>1. queue' \in Seq(Tasks \cup Callers) /\ loop' \in {"self", "flag", "run", "ended"}
        BY <1>9 DEF PerformStop, TurnEnds
    <2>2. pc' \in [Callers -> {"idle", "task", "stop", "wait"}]
        BY <1>9 DEF PerformStop
    <2>3. innerThread' \in BOOLEAN /\ stopped' \in BOOLEAN
        BY <1>9 DEF PerformStop
    <2>4. UNCHANGED <<owned, weakSelf, hand, submitted, performed, mishaps>>
        BY <1>9 DEF PerformStop
    <2> QED
        BY <2>1, <2>2, <2>3, <2>4
<1>10. CASE UNCHANGED vars
    BY <1>10 DEF vars
<1> QED
    BY <1>1, <1>2, <1>3, <1>4, <1>5, <1>6, <1>7, <1>8, <1>9, <1>10 DEF Next, Call, Thread

\* Every variable of PermenantThread keeps its type, for any callers and tasks.
THEOREM TypeCorrect == Spec => []TypeOK
BY InitType, StepType, PTL DEF Spec

(***************************************************************************)
(* A queue as a set: what Append adds and Tail takes away.                 *)
(***************************************************************************)
LEMMA AppendedTo ==
    ASSUME NEW S, NEW s \in Seq(S), NEW x \in S
    PROVE  /\ Append(s, x) # <<>>
           /\ ToSet(Append(s, x)) = ToSet(s) \cup {x}
           /\ Len(s) \in Nat
           /\ DOMAIN Append(s, x) = DOMAIN s \cup {Len(s) + 1}
           /\ \A i \in DOMAIN s : i \in Nat /\ i <= Len(s) /\ Append(s, x)[i] = s[i]
           /\ Append(s, x)[Len(s) + 1] = x
<1>1. /\ Len(Append(s, x)) = Len(s) + 1 /\ Len(s) \in Nat
      /\ DOMAIN Append(s, x) = DOMAIN s \cup {Len(s) + 1}
      /\ \A i \in DOMAIN s : i \in Nat /\ i <= Len(s) /\ Append(s, x)[i] = s[i]
      /\ Append(s, x)[Len(s) + 1] = x
    OBVIOUS
<1>2. ToSet(Append(s, x)) = ToSet(s) \cup {x}
    BY <1>1 DEF ToSet
<1> QED
    BY <1>1, <1>2

LEMMA HeadAndTail ==
    ASSUME NEW S, NEW s \in Seq(S), s # <<>>
    PROVE  /\ Head(s) \in S /\ Head(s) = s[1] /\ 1 \in DOMAIN s
           /\ Tail(s) \in Seq(S)
           /\ \A i \in DOMAIN Tail(s) : i \in Nat /\ 1 < i + 1 /\ i + 1 \in DOMAIN s /\ Tail(s)[i] = s[i + 1]
           /\ ToSet(s) = {Head(s)} \cup ToSet(Tail(s))
<1>1. /\ Head(s) \in S /\ Head(s) = s[1] /\ Len(s) \in Nat /\ 1 <= Len(s)
      /\ Tail(s) \in Seq(S) /\ Len(Tail(s)) = Len(s) - 1
      /\ \A i \in 1 .. Len(s) - 1 : Tail(s)[i] = s[i + 1]
    OBVIOUS
<1>2. \A i \in DOMAIN Tail(s) : i \in Nat /\ 1 < i + 1 /\ i + 1 \in DOMAIN s /\ Tail(s)[i] = s[i + 1]
    BY <1>1
<1>3. ToSet(s) \subseteq {Head(s)} \cup ToSet(Tail(s))
    <2> SUFFICES ASSUME NEW i \in 1 .. Len(s), i # 1
                 PROVE  s[i] \in ToSet(Tail(s))
        BY <1>1 DEF ToSet
    <2>1. i - 1 \in 1 .. Len(s) - 1 /\ Tail(s)[i - 1] = s[i]
        BY <1>1
    <2>2. DOMAIN Tail(s) = 1 .. Len(s) - 1
        BY <1>1
    <2> QED
        BY <2>1, <2>2 DEF ToSet
<1>4. {Head(s)} \cup ToSet(Tail(s)) \subseteq ToSet(s)
    BY <1>1, <1>2 DEF ToSet
<1> QED
    BY <1>1, <1>2, <1>3, <1>4

LEMMA EmptySet == ToSet(<<>>) = {} /\ \A S : \A s \in Seq(S) : ToSet(s) \subseteq S
BY DEF ToSet

\* What the actions that change the queue make of it.
LEMMA QueueGrows ==
    ASSUME TypeOK, NEW x \in Tasks \cup Callers, queue' = Append(queue, x)
    PROVE  /\ queue' # <<>> /\ ToSet(queue') = ToSet(queue) \cup {x}
           /\ Len(queue) \in Nat
           /\ DOMAIN queue' = DOMAIN queue \cup {Len(queue) + 1}
           /\ \A i \in DOMAIN queue : i \in Nat /\ i <= Len(queue) /\ queue'[i] = queue[i]
           /\ queue'[Len(queue) + 1] = x
BY AppendedTo DEF TypeOK

LEMMA QueueShrinks ==
    ASSUME TypeOK, queue # <<>>, queue' = Tail(queue)
    PROVE  /\ Head(queue) = queue[1] /\ 1 \in DOMAIN queue
           /\ \A i \in DOMAIN queue' : i \in Nat /\ 1 < i + 1 /\ i + 1 \in DOMAIN queue /\ queue'[i] = queue[i + 1]
           /\ ToSet(queue) = {Head(queue)} \cup ToSet(queue')
BY HeadAndTail DEF TypeOK

LEMMA InQueue == \A i \in DOMAIN queue : queue[i] \in ToSet(queue)
BY DEF ToSet

(***************************************************************************)
(* The perform queue.                                                      *)
(***************************************************************************)
LEMMA StepQueue == TypeOK /\ QueueInv /\ [Next]_vars => QueueInv'
<1> SUFFICES ASSUME TypeOK, QueueInv, [Next]_vars
             PROVE  QueueInv'
    OBVIOUS
<1> USE DEF QueueInv
<1>1. ASSUME NEW c \in Callers, NEW t \in Tasks, ExcuteTask(c, t)
      PROVE  QueueInv'
    BY <1>1 DEF ExcuteTask, TypeOK
<1>2. ASSUME NEW c \in Callers, HandTask(c)
      PROVE  QueueInv'
    <2>1. PICK t \in hand[c] : queue' = Append(queue, t) /\ submitted' = Append(submitted, t)
        BY <1>2 DEF HandTask
    <2>2. t \in Tasks /\ t \notin Callers
        BY DEF TypeOK
    <2>3. ToSet(submitted') = ToSet(submitted) \cup {t}
        BY <2>1, <2>2, AppendedTo DEF TypeOK
    <2>4. \A d \in Callers : pc'[d] = "wait" <=> pc[d] = "wait"
        BY <1>2 DEF HandTask, TypeOK
    <2>5. performed' = performed
        BY <1>2 DEF HandTask
    <2>6. \A i, j \in DOMAIN queue' : queue'[i] = queue'[j] /\ queue'[i] \in Callers => i = j
        BY <2>1, <2>2, QueueGrows
    <2> QED
        BY <2>1, <2>2, <2>3, <2>4, <2>5, <2>6, QueueGrows
<1>3. ASSUME NEW c \in Callers, Stop(c)
      PROVE  QueueInv'
    BY <1>3 DEF Stop, TypeOK
<1>4. ASSUME NEW c \in Callers, HandStop(c)
      PROVE  QueueInv'
    <2>1. queue' = Append(queue, c) /\ UNCHANGED history /\ c \notin Tasks
        BY <1>4 DEF HandStop
    <2>2. c \notin ToSet(queue) /\ \A d \in Callers : pc'[d] = "wait" <=> pc[d] = "wait" \/ d = c
        BY <1>4 DEF HandStop, TypeOK
    <2>3. \A i, j \in DOMAIN queue' : queue'[i] = queue'[j] /\ queue'[i] \in Callers => i = j
        BY <2>1, <2>2, QueueGrows, InQueue
    <2> QED
        BY <2>1, <2>2, <2>3, QueueGrows
<1>5. ASSUME NEW c \in Callers, Release(c)
      PROVE  QueueInv'
    BY <1>5 DEF Release, TypeOK
<1>6. CASE SelfTest
    BY <1>6 DEF SelfTest
<1>7. CASE FlagTest
    BY <1>7 DEF FlagTest
<1>8. CASE PerformTask
    <2> DEFINE t == Head(queue)
    <2>1. /\ queue # <<>> /\ t \in Tasks /\ t \notin Callers /\ queue' = Tail(queue)
          /\ performed' = Append(performed, t) /\ pc' = pc /\ submitted' = submitted
        BY <1>8 DEF PerformTask
    <2>2. ToSet(performed') = ToSet(performed) \cup {t}
        BY <2>1, AppendedTo DEF TypeOK
    <2>3. \A i, j \in DOMAIN queue' : queue'[i] = queue'[j] /\ queue'[i] \in Callers => i = j
        BY <2>1, QueueShrinks
    <2> QED
        BY <2>1, <2>2, <2>3, QueueShrinks
<1>9. CASE PerformStop
    <2> DEFINE c == Head(queue)
    <2>1. /\ queue # <<>> /\ c \in Callers /\ c \notin Tasks /\ queue' = Tail(queue)
          /\ pc' = [pc EXCEPT ![c] = "idle"] /\ UNCHANGED history
        BY <1>9 DEF PerformStop
    <2>2. c \notin ToSet(queue')
        <3> SUFFICES ASSUME NEW i \in DOMAIN queue', queue'[i] = c
                     PROVE  FALSE
            BY DEF ToSet
        <3> QED
            BY <2>1, QueueShrinks
    <2>3. \A d \in Callers : pc'[d] = "wait" <=> pc[d] = "wait" /\ d # c
        BY <2>1 DEF TypeOK
    <2>4. \A i, j \in DOMAIN queue' : queue'[i] = queue'[j] /\ queue'[i] \in Callers => i = j
        BY <2>1, QueueShrinks
    <2> QED
        BY <2>1, <2>2, <2>3, <2>4, QueueShrinks
<1>10. CASE UNCHANGED vars
    BY <1>10 DEF vars
<1> QED
    BY <1>1, <1>2, <1>3, <1>4, <1>5, <1>6, <1>7, <1>8, <1>9, <1>10 DEF Next, Call, Thread

(***************************************************************************)
(* The end of the object.                                                  *)
(***************************************************************************)
LEMMA StepLife == TypeOK /\ QueueInv /\ LifeInv /\ [Next]_vars => LifeInv'
<1> SUFFICES ASSUME TypeOK, QueueInv, LifeInv, [Next]_vars
             PROVE  LifeInv'
    OBVIOUS
<1> USE DEF LifeInv
<1>1. ASSUME NEW c \in Callers, NEW t \in Tasks, ExcuteTask(c, t)
      PROVE  LifeInv'
    BY <1>1 DEF ExcuteTask, TypeOK
<1>2. ASSUME NEW c \in Callers, HandTask(c)
      PROVE  LifeInv'
    <2>1. PICK t \in hand[c] : queue' = Append(queue, t)
        BY <1>2 DEF HandTask
    <2>2. t \in Tasks /\ queue' # <<>>
        BY <2>1, QueueGrows DEF TypeOK
    <2>3. owned /\ weakSelf /\ UNCHANGED <<flags, loop>>
        BY <1>2 DEF HandTask
    <2> QED
        BY <1>2, <2>2, <2>3 DEF HandTask
<1>3. ASSUME NEW c \in Callers, Stop(c)
      PROVE  LifeInv'
    BY <1>3 DEF Stop, TypeOK
<1>4. ASSUME NEW c \in Callers, HandStop(c)
      PROVE  LifeInv'
    <2>1. queue' # <<>> /\ ToSet(queue') \cap Tasks = ToSet(queue) \cap Tasks
        BY <1>4, QueueGrows DEF HandStop
    <2>2. mishaps \subseteq mishaps' /\ UNCHANGED <<flags, loop>>
        BY <1>4 DEF HandStop
    <2>3. /\ \A d \in Callers : d # c => pc'[d] = pc[d]
          /\ pc[c] = "stop" /\ pc'[c] = "wait"
        BY <1>4 DEF HandStop, TypeOK
    <2> QED
        BY <2>1, <2>2, <2>3
<1>5. ASSUME NEW c \in Callers, Release(c)
      PROVE  LifeInv'
    BY <1>5, EmptySet DEF Release, TypeOK
<1>6. CASE SelfTest
    BY <1>6 DEF SelfTest, TypeOK
<1>7. CASE FlagTest
    BY <1>7, EmptySet DEF FlagTest, Drop, TypeOK
<1>8. CASE PerformTask
    <2>1. queue # <<>> /\ queue' = Tail(queue) /\ UNCHANGED <<pc, owned, mishaps>> /\ loop = "run"
        BY <1>8 DEF PerformTask
    <2>2. ToSet(queue') \subseteq ToSet(queue) /\ Head(queue) \in ToSet(queue) \cap Tasks
        BY <1>8, <2>1, QueueShrinks DEF PerformTask
    <2>3. loop' = "self" \/ (queue' # <<>> /\ loop' = "run")
        BY <1>8 DEF PerformTask, TurnEnds
    <2>4. weakSelf
        BY <2>2
    <2>5. ~weakSelf' => ~owned /\ stopped' /\ queue' = <<>>
        BY <1>8, <2>4 DEF PerformTask, Drop, TypeOK
    <2>6. innerThread' = ~stopped'
        BY <1>8, <2>1 DEF PerformTask, Drop, TypeOK
    <2> QED
        BY <2>1, <2>2, <2>3, <2>4, <2>5, <2>6, EmptySet
<1>9. CASE PerformStop
    <2>1. /\ queue # <<>> /\ Head(queue) \in Callers /\ queue' = Tail(queue) /\ loop = "run"
          /\ stopped' = TRUE /\ innerThread' = FALSE /\ UNCHANGED <<owned, weakSelf, mishaps>>
          /\ pc' = [pc EXCEPT ![Head(queue)] = "idle"]
        BY <1>9 DEF PerformStop
    <2>2. ToSet(queue') \subseteq ToSet(queue)
        BY <2>1, QueueShrinks
    <2>3. loop' = "self" \/ (queue' # <<>> /\ loop' = "run")
        BY <1>9 DEF PerformStop, TurnEnds
    <2>4. \A d \in Callers : pc'[d] = pc[d] \/ pc'[d] = "idle"
        BY <2>1 DEF TypeOK
    <2> QED
        BY <2>1, <2>2, <2>3, <2>4
<1>10. CASE UNCHANGED vars
    BY <1>10 DEF vars
<1> QED
    BY <1>1, <1>2, <1>3, <1>4, <1>5, <1>6, <1>7, <1>8, <1>9, <1>10 DEF Next, Call, Thread

(***************************************************************************)
(* The order of tasks and stops.                                           *)
(***************************************************************************)
LEMMA StepOrder == TypeOK /\ QueueInv /\ LifeInv /\ OrderInv /\ [Next]_vars => OrderInv'
<1> SUFFICES ASSUME TypeOK, QueueInv, LifeInv, OrderInv, [Next]_vars
             PROVE  OrderInv'
    OBVIOUS
<1> USE DEF OrderInv
<1>1. ASSUME NEW c \in Callers, NEW t \in Tasks, ExcuteTask(c, t)
      PROVE  OrderInv'
    BY <1>1 DEF ExcuteTask, TypeOK
<1>2. ASSUME NEW c \in Callers, HandTask(c)
      PROVE  OrderInv'
    <2>1. PICK t \in hand[c] : queue' = Append(queue, t)
        BY <1>2 DEF HandTask
    <2>2. t \in Tasks
        BY DEF TypeOK
    <2>3. /\ stopped' = stopped
          /\ "late_task" \notin mishaps' => "late_task" \notin mishaps /\ ~Ending
          /\ mishaps' \cap {"late_stop", "gone"} = mishaps \cap {"late_stop", "gone"}
        BY <1>2 DEF HandTask
    <2>4. \A d \in Callers : pc'[d] = "wait" <=> pc[d] = "wait"
        BY <1>2 DEF HandTask, TypeOK
    <2>5. ~Ending => ~stopped /\ \A i \in DOMAIN queue : queue[i] \notin Callers
        BY InQueue DEF Ending
    <2>6. "late_task" \notin mishaps' =>
              \A i, j \in DOMAIN queue' : i < j /\ queue'[i] \in Callers => queue'[j] \in Callers
        BY <2>1, <2>2, <2>3, <2>5, QueueGrows
    <2> QED
        BY <2>3, <2>4, <2>5, <2>6
<1>3. ASSUME NEW c \in Callers, Stop(c)
      PROVE  OrderInv'
    BY <1>3 DEF Stop, TypeOK
<1>4. ASSUME NEW c \in Callers, HandStop(c)
      PROVE  OrderInv'
    <2>1. queue' = Append(queue, c) /\ stopped' = stopped
        BY <1>4 DEF HandStop
    <2>2. /\ "late_task" \notin mishaps' => "late_task" \notin mishaps
          /\ mishaps' \cap {"late_stop", "gone"} = {} =>
                ~Ending /\ mishaps \cap {"late_stop", "gone"} = {}
        BY <1>4 DEF HandStop
    <2>3. \A d \in Callers : pc'[d] = "wait" <=> pc[d] = "wait" \/ d = c
        BY <1>4 DEF HandStop, TypeOK
    <2>4. ~Ending => ~stopped /\ \A d \in Callers : pc[d] # "wait"
        BY DEF Ending, QueueInv
    <2>5. "late_task" \notin mishaps' =>
              \A i, j \in DOMAIN queue' : i < j /\ queue'[i] \in Callers => queue'[j] \in Callers
        BY <2>1, <2>2, QueueGrows
    <2>6. ToSet(queue') \cap Tasks = ToSet(queue) \cap Tasks
        BY <2>1, QueueGrows
    <2> QED
        BY <2>1, <2>2, <2>3, <2>4, <2>5, <2>6
<1>5. ASSUME NEW c \in Callers, Release(c)
      PROVE  OrderInv'
    BY <1>5 DEF Release, TypeOK
<1>6. CASE SelfTest
    BY <1>6 DEF SelfTest, TypeOK
<1>7. CASE FlagTest
    BY <1>7, EmptySet DEF FlagTest, Drop, TypeOK, QueueInv
<1>8. CASE PerformTask
    <2>1. queue # <<>> /\ queue' = Tail(queue) /\ UNCHANGED <<pc, mishaps>>
        BY <1>8 DEF PerformTask
    <2>2. ToSet(queue') \subseteq ToSet(queue)
        BY <2>1, QueueShrinks
    <2>3. stopped' => stopped \/ queue' = <<>>
        BY <1>8 DEF PerformTask, Drop
    <2>4. "late_task" \notin mishaps' =>
              \A i, j \in DOMAIN queue' : i < j /\ queue'[i] \in Callers => queue'[j] \in Callers
        BY <2>1, QueueShrinks
    <2>5. queue' = <<>> => \A d \in Callers : pc[d] # "wait"
        <3>1. Head(queue) \notin Callers
            BY <1>8 DEF PerformTask
        <3> QED
            BY <2>1, <3>1, QueueShrinks, EmptySet DEF QueueInv
    <2> QED
        BY <2>1, <2>2, <2>3, <2>4, <2>5, EmptySet
<1>9. CASE PerformStop
    <2> DEFINE c == Head(queue)
    <2>1. /\ queue # <<>> /\ c \in Callers /\ queue' = Tail(queue)
          /\ pc' = [pc EXCEPT ![c] = "idle"] /\ mishaps' = mishaps
        BY <1>9 DEF PerformStop
    <2>2. c \in ToSet(queue) /\ pc[c] = "wait"
        BY <2>1, QueueShrinks DEF QueueInv
    <2>3. \A d \in Callers : pc'[d] = "wait" => pc[d] = "wait" /\ d # c
        BY <2>1 DEF TypeOK
    <2>4. "late_task" \notin mishaps' =>
              \A i, j \in DOMAIN queue' : i < j /\ queue'[i] \in Callers => queue'[j] \in Callers
        BY <2>1, QueueShrinks
    <2>5. "late_task" \notin mishaps' => ToSet(queue') \cap Tasks = {}
        <3> SUFFICES ASSUME "late_task" \notin mishaps, NEW i \in DOMAIN queue'
                     PROVE  queue'[i] \notin Tasks
            BY <2>1 DEF ToSet
        <3> QED
            BY <2>1, QueueShrinks
    <2> QED
        BY <2>1, <2>2, <2>3, <2>4, <2>5
<1>10. CASE UNCHANGED vars
    BY <1>10 DEF vars
<1> QED
    BY <1>1, <1>2, <1>3, <1>4, <1>5, <1>6, <1>7, <1>8, <1>9, <1>10 DEF Next, Call, Thread

(***************************************************************************)
(* The theorems.                                                           *)
(***************************************************************************)
\* ThreadInv is an invariant of the thread, for any callers and tasks.
THEOREM ThreadInvariant == Spec => []ThreadInv
<1>1. Init => ThreadInv
    <2> SUFFICES ASSUME Init
                 PROVE  QueueInv /\ LifeInv /\ OrderInv
        BY DEF ThreadInv
    <2> USE DEF Init
    <2>1. QueueInv
        BY EmptySet DEF QueueInv
    <2>2. LifeInv
        BY EmptySet DEF LifeInv
    <2>3. OrderInv
        BY EmptySet DEF OrderInv
    <2> QED
        BY <2>1, <2>2, <2>3
<1>2. TypeOK /\ ThreadInv /\ [Next]_vars => ThreadInv'
    BY StepQueue, StepLife, StepOrder DEF ThreadInv
<1> QED
    BY <1>1, <1>2, TypeCorrect, PTL DEF Spec

\* Up to the races named in the model, the thread does not end before what was handed to
\* it has been done, and does not sleep past its end: the safety core of TasksPerformed,
\* StopReturns and ThreadEnds.
THEOREM StrandsNobody == Spec => []NothingStranded
<1>1. TypeOK /\ ThreadInv => NothingStranded
    <2> SUFFICES ASSUME TypeOK, ThreadInv
                 PROVE  NothingStranded
        OBVIOUS
    <2> USE DEF ThreadInv, QueueInv, LifeInv, OrderInv
    <2>1. ASSUME loop = "ended"
          PROVE  ToSet(submitted) \subseteq ToSet(performed) \/ "late_task" \in mishaps
        BY <2>1
    <2>2. ASSUME loop = "ended"
          PROVE  (\A c \in Callers : pc[c] # "wait") \/ mishaps \cap {"late_stop", "gone"} # {}
        BY <2>2
    <2>3. ASSUME loop = "run", queue = <<>>, stopped \/ ~weakSelf
          PROVE  "leaked" \in mishaps \/ \E c \in Callers : pc[c] = "stop"
        BY <2>3, EmptySet
    <2> QED
        BY <2>1, <2>2, <2>3 DEF NothingStranded
<1> QED
    BY <1>1, TypeCorrect, ThreadInvariant, PTL

=============================================================================
