--------------------------- MODULE MutexCondProofs ---------------------------
(***************************************************************************)
(* For any finite, nonempty sets of producers and consumers: the mutex     *)
(* protects the list, the threads never all wait for each other, and the   *)
(* list is bounded.                                                        *)
(***************************************************************************)
EXTENDS MutexCond, FiniteSetTheorems, TLAPS

USE ThreadsAssumption, NumbersAssumption, NobodyAssumption
USE DEF Threads, Inside

(***************************************************************************)
(* Types and mutual exclusion.                                             *)
(***************************************************************************)
LEMMA InitExclusion == Init => TypeOK /\ Exclusion
BY DEF Init, TypeOK, Exclusion

LEMMA StepExclusion == TypeOK /\ Exclusion /\ [Next]_vars => TypeOK' /\ Exclusion'
<1> SUFFICES ASSUME TypeOK, Exclusion, [Next]_vars
             PROVE  TypeOK' /\ Exclusion'
    OBVIOUS
<1> USE DEF TypeOK, Exclusion
<1>1. ASSUME NEW t \in Threads, Acquire(t)
      PROVE  TypeOK' /\ Exclusion'
    BY <1>1 DEF Acquire
<1>2. ASSUME NEW c \in Consumers, Consume(c)
      PROVE  TypeOK' /\ Exclusion'
    BY <1>2 DEF Consume, Pop, Drained
<1>3. ASSUME NEW p \in Producers, Produce(p)
      PROVE  TypeOK' /\ Exclusion'
    BY <1>3 DEF Produce, Push, Pushed
<1>4. ASSUME NEW t \in Threads, Signal(t)
      PROVE  TypeOK' /\ Exclusion'
    BY <1>4 DEF Signal, Blocked, Others
<1>5. ASSUME NEW t \in Threads, Wait(t)
      PROVE  TypeOK' /\ Exclusion'
    BY <1>5 DEF Wait
<1>6. ASSUME NEW t \in Threads, SpuriousWakeup(t)
      PROVE  TypeOK' /\ Exclusion'
    BY <1>6 DEF SpuriousWakeup
<1>7. CASE UNCHANGED vars
    BY <1>7 DEF vars
<1> QED
    BY <1>1, <1>2, <1>3, <1>4, <1>5, <1>6, <1>7 DEF Next, Step

\* Every variable of MutexCond keeps its type, for any producers and consumers.
THEOREM TypeCorrect == Spec => []TypeOK
BY InitExclusion, StepExclusion, PTL DEF Spec

\* One thread at a time is inside the critical section, and it holds the mutex.
THEOREM MutualExclusion == Spec => []Exclusion
BY InitExclusion, StepExclusion, PTL DEF Spec

(***************************************************************************)
(* No thread waits before it has left somebody awake on the other side.    *)
(***************************************************************************)
LEMMA InitWake == Init => WakeInv /\ SomeoneAwake
BY DEF Init, WakeInv, SomeoneAwake

LEMMA StepWake ==
    TypeOK /\ Exclusion /\ WakeInv /\ SomeoneAwake /\ [Next]_vars
        => WakeInv' /\ SomeoneAwake'
<1> SUFFICES ASSUME TypeOK, Exclusion, WakeInv, SomeoneAwake, [Next]_vars
             PROVE  WakeInv' /\ SomeoneAwake'
    OBVIOUS
<1> USE DEF TypeOK, Exclusion, WakeInv, SomeoneAwake, Others
<1>1. ASSUME NEW t \in Threads, Acquire(t)
      PROVE  WakeInv' /\ SomeoneAwake'
    BY <1>1 DEF Acquire
<1>2. ASSUME NEW c \in Consumers, Consume(c)
      PROVE  WakeInv' /\ SomeoneAwake'
    BY <1>2 DEF Consume, Pop, Drained
<1>3. ASSUME NEW p \in Producers, Produce(p)
      PROVE  WakeInv' /\ SomeoneAwake'
    BY <1>3 DEF Produce, Push, Pushed
<1>4. ASSUME NEW t \in Threads, Signal(t)
      PROVE  WakeInv' /\ SomeoneAwake'
    BY <1>4 DEF Signal, Blocked
<1>5. ASSUME NEW t \in Threads, Wait(t)
      PROVE  WakeInv' /\ SomeoneAwake'
    BY <1>5 DEF Wait
<1>6. ASSUME NEW t \in Threads, SpuriousWakeup(t)
      PROVE  WakeInv' /\ SomeoneAwake'
    BY <1>6 DEF SpuriousWakeup
<1>7. CASE UNCHANGED vars
    BY <1>7 DEF vars
<1> QED
    BY <1>1, <1>2, <1>3, <1>4, <1>5, <1>6, <1>7 DEF Next, Step

\* The threads never all wait for each other, however many there are.
THEOREM NeverAllBlocked == Spec => []SomeoneAwake
BY InitExclusion, StepExclusion, InitWake, StepWake, PTL DEF Spec

(***************************************************************************)
(* The bound on the list.                                                  *)
(***************************************************************************)
LEMMA BatchArithmetic ==
    /\ \A x, y \in Nat : x <= y => Batch * x <= Batch * y
    /\ \A x \in Nat : Batch * x \in Nat /\ Batch * (x + 1) = Batch * x + Batch
OBVIOUS

LEMMA ReadyFinite ==
    /\ Cardinality(Producers) \in Nat
    /\ IsFiniteSet(Ready) /\ Cardinality(Ready) \in Nat
    /\ Cardinality(Ready) <= Cardinality(Producers)
<1>1. Ready \in SUBSET Producers
    BY DEF Ready
<1> QED
    BY <1>1, FS_Subset, FS_CardinalityType

LEMMA InitBound == Init => BoundInv
<1> SUFFICES ASSUME Init
             PROVE  BoundInv
    OBVIOUS
<1>1. Ready = Producers
    BY DEF Init, Ready
<1> QED
    BY <1>1, ReadyFinite, BatchArithmetic DEF Init, BoundInv

LEMMA StepBound ==
    TypeOK /\ Exclusion /\ BoundInv /\ [Next]_vars => BoundInv'
<1> SUFFICES ASSUME TypeOK, Exclusion, BoundInv, [Next]_vars
             PROVE  BoundInv'
    OBVIOUS
<1> USE DEF TypeOK, Exclusion, BoundInv
<1> DEFINE Room(n) == Initial + Batch * (Cardinality(Producers) + n)
<1>1. ASSUME NEW t \in Producers, Acquire(t)
      PROVE  BoundInv'
    <2>1. Ready' = Ready \ {t} /\ t \in Ready
        BY <1>1 DEF Acquire, Ready
    <2>2. Cardinality(Ready') = Cardinality(Ready) - 1 /\ Cardinality(Ready') \in Nat
        BY <2>1, ReadyFinite, FS_RemoveElement, FS_CardinalityType
    <2>3. Batch * Cardinality(Ready) = Batch * Cardinality(Ready') + Batch
        BY <2>2, ReadyFinite, BatchArithmetic
    <2>4. left = 0 /\ left' = Batch /\ size' = size
        BY <1>1 DEF Acquire
    <2>5. size' + left' + Batch * Cardinality(Ready') <= Room(spurious')
        BY <1>1, <2>2, <2>3, <2>4, ReadyFinite, BatchArithmetic DEF Acquire
    <2> QED
        BY <1>1, <2>5 DEF Acquire
<1>2. ASSUME NEW t \in Consumers, Acquire(t)
      PROVE  BoundInv'
    <2>1. Ready' = Ready
        BY <1>2 DEF Acquire, Ready
    <2> QED
        BY <1>2, <2>1 DEF Acquire
<1>3. ASSUME NEW c \in Consumers, Consume(c)
      PROVE  BoundInv'
    <2>1. Ready' = Ready
        BY <1>3 DEF Consume, Pop, Drained, Ready
    <2>2. left = 0 /\ left' = 0
        BY <1>3 DEF Consume, Pop, Drained
    <2> QED
        BY <1>3, <2>1, <2>2, ReadyFinite, BatchArithmetic DEF Consume, Pop, Drained
<1>4. ASSUME NEW p \in Producers, Produce(p)
      PROVE  BoundInv'
    <2>1. Ready' = Ready
        BY <1>4 DEF Produce, Push, Pushed, Ready
    <2>2. size' + left' = size + left
        BY <1>4 DEF Produce, Push, Pushed
    <2> QED
        BY <1>4, <2>1, <2>2, ReadyFinite, BatchArithmetic DEF Produce, Push, Pushed
<1>5. ASSUME NEW t \in Consumers, Signal(t)
      PROVE  BoundInv'
    <2>1. size' = 0 /\ left' = 0 /\ spurious' = spurious
        BY <1>5 DEF Signal
    <2>2. Cardinality(Ready') \in Nat /\ Cardinality(Ready') <= Cardinality(Producers)
        <3>1. Ready' \in SUBSET Producers
            BY DEF Ready
        <3> QED
            BY <3>1, FS_Subset, FS_CardinalityType
    <2>3. /\ Batch * Cardinality(Ready') <= Batch * (Cardinality(Producers) + spurious)
          /\ Batch * Cardinality(Ready') \in Nat
          /\ Batch * (Cardinality(Producers) + spurious) \in Nat
        BY <2>2, ReadyFinite, BatchArithmetic
    <2>4. size' + left' + Batch * Cardinality(Ready') <= Room(spurious')
        BY <2>1, <2>3
    <2> QED
        BY <1>5, <2>1, <2>4 DEF Signal, Blocked, Others
<1>6. ASSUME NEW t \in Producers, Signal(t)
      PROVE  BoundInv'
    <2>1. Ready' = Ready
        BY <1>6 DEF Signal, Blocked, Others, Ready
    <2> QED
        BY <1>6, <2>1 DEF Signal, Blocked, Others
<1>7. ASSUME NEW t \in Threads, Wait(t)
      PROVE  BoundInv'
    <2>1. Ready' = Ready
        BY <1>7 DEF Wait, Ready
    <2> QED
        BY <1>7, <2>1 DEF Wait
<1>8. ASSUME NEW t \in Threads, SpuriousWakeup(t)
      PROVE  BoundInv'
    <2>1. Ready' = Ready \/ Ready' = Ready \cup {t}
        BY <1>8 DEF SpuriousWakeup, Ready
    <2>2. Cardinality(Ready') \in Nat /\ Cardinality(Ready') <= Cardinality(Ready) + 1
        <3>1. /\ IsFiniteSet(Ready \cup {t})
              /\ Cardinality(Ready \cup {t}) =
                   IF t \in Ready THEN Cardinality(Ready) ELSE Cardinality(Ready) + 1
            BY ReadyFinite, FS_AddElement
        <3>2. /\ Cardinality(Ready \cup {t}) \in Nat
              /\ Cardinality(Ready \cup {t}) <= Cardinality(Ready) + 1
            BY <3>1, ReadyFinite
        <3>3. Cardinality(Ready) <= Cardinality(Ready) + 1
            BY ReadyFinite
        <3> QED
            BY <2>1, <3>2, <3>3, ReadyFinite, Zenon
    <2>3. /\ Batch * Cardinality(Ready') <= Batch * Cardinality(Ready) + Batch
          /\ Batch * Cardinality(Ready') \in Nat /\ Batch * Cardinality(Ready) \in Nat
        BY <2>2, ReadyFinite, BatchArithmetic
    <2>4. Room(spurious + 1) = Room(spurious) + Batch
        BY ReadyFinite, BatchArithmetic
    <2>5. size' + left' + Batch * Cardinality(Ready') <= Room(spurious')
        BY <1>8, <2>3, <2>4, ReadyFinite DEF SpuriousWakeup
    <2> QED
        BY <1>8, <2>5 DEF SpuriousWakeup
<1>9. CASE UNCHANGED vars
    BY <1>9 DEF vars, Ready
<1> QED
    BY <1>1, <1>2, <1>3, <1>4, <1>5, <1>6, <1>7, <1>8, <1>9 DEF Next, Step

\* The list never holds more than the initial items and one batch for each producer
\* and each spurious wakeup.
THEOREM BoundedList == Spec => []ListBounded
<1>1. TypeOK /\ BoundInv => ListBounded
    BY ReadyFinite, BatchArithmetic DEF TypeOK, BoundInv, ListBounded
<1> QED
    BY <1>1, InitExclusion, StepExclusion, InitBound, StepBound, PTL DEF Spec

\* The parts the two proofs rest on, together: who may be asleep, and how much work
\* the wakeups on their way stand for.
THEOREM HandoffIsInvariant == Spec => []HandoffInv
    BY InitExclusion, StepExclusion, InitWake, StepWake, InitBound, StepBound, PTL
       DEF Spec, HandoffInv

=============================================================================
