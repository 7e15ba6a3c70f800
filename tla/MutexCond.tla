------------------------------- MODULE MutexCond -------------------------------
(***************************************************************************)
(* FaceWorkflow/MutexCond/MutexCond.cpp: consumers that drain a list and   *)
(* producers that refill it in batches, with one mutex and two condition   *)
(* variables.  A consumer signals cond2 and waits on cond1, a producer     *)
(* signals cond1 and waits on cond2.  Neither tests anything after a wait: *)
(* a woken thread goes straight to the top of its loop.                    *)
(*                                                                         *)
(* The list is abstracted to its length: items are numbered consecutively, *)
(* pushed at the back and popped at the front under the mutex.             *)
(***************************************************************************)
EXTENDS Integers, FiniteSets

CONSTANTS
    Producers,
    Consumers,
    Nobody,             \* the holder of a free mutex
    Initial,            \* items the constructor puts in the list
    Batch,              \* items a producer pushes before it waits
    MaxSpurious         \* bound on the waits that return without a signal

ASSUME ThreadsAssumption ==
    /\ IsFiniteSet(Producers) /\ Producers # {}
    /\ IsFiniteSet(Consumers) /\ Consumers # {}
    /\ Producers \cap Consumers = {}
ASSUME NumbersAssumption ==
    Initial \in Nat /\ Batch \in Nat \ {0} /\ MaxSpurious \in Nat

Threads == Producers \cup Consumers

ASSUME NobodyAssumption == Nobody \notin Threads

VARIABLES
    size,       \* list->size()
    mutex,      \* the thread that holds the mutex, or Nobody
    pc,         \* where each thread is
    left,       \* items the producer that holds the mutex has still to push
    spurious    \* waits that have returned without a signal so far

vars == <<size, mutex, pc, left, spurious>>

\* "acquire" is at SDL_LockMutex, or woken in SDL_CondWait and waiting for the mutex;
\* these are the points with the mutex.
Inside == {"work", "signal", "wait"}

TypeOK ==
    /\ size \in Nat
    /\ mutex \in Threads \cup {Nobody}
    /\ pc \in [Threads -> {"acquire", "blocked"} \cup Inside]
    /\ left \in 0 .. Batch
    /\ spurious \in 0 .. MaxSpurious

Init ==
    /\ size = Initial
    /\ mutex = Nobody
    /\ pc = [t \in Threads |-> "acquire"]
    /\ left = 0
    /\ spurious = 0

Blocked(S) == {t \in S : pc[t] = "blocked"}
Awake(S) == {t \in S : pc[t] # "blocked"}

\* SDL_LockMutex, or the end of a wait: the thread is at the top of its loop.
Acquire(t) ==
    /\ pc[t] = "acquire"
    /\ mutex = Nobody
    /\ mutex' = t
    /\ pc' = [pc EXCEPT ![t] = "work"]
    /\ left' = IF t \in Producers THEN Batch ELSE left
    /\ UNCHANGED <<size, spurious>>

\* Mutant: the list is popped without looking whether it is empty.
PopUnchecked(c) ==
    /\ pc[c] = "work"
    /\ size' = size - 1
    /\ UNCHANGED <<mutex, pc, left, spurious>>

\* while (!list->empty()) list->pop_front();
Pop(c) ==
    /\ pc[c] = "work"
    /\ size > 0
    /\ size' = size - 1
    /\ UNCHANGED <<mutex, pc, left, spurious>>

Drained(c) ==
    /\ pc[c] = "work"
    /\ size = 0
    /\ pc' = [pc EXCEPT ![c] = "signal"]
    /\ UNCHANGED <<size, mutex, left, spurious>>

\* list->push_back(to_string(++index)), Batch times
Push(p) ==
    /\ pc[p] = "work"
    /\ left > 0
    /\ size' = size + 1
    /\ left' = left - 1
    /\ UNCHANGED <<mutex, pc, spurious>>

Pushed(p) ==
    /\ pc[p] = "work"
    /\ left = 0
    /\ pc' = [pc EXCEPT ![p] = "signal"]
    /\ UNCHANGED <<size, mutex, left, spurious>>

Others(t) == IF t \in Producers THEN Consumers ELSE Producers

\* Mutant: the consumer forgets to signal before it waits.
SignalOnlyProducers(t) ==
    /\ pc[t] = "signal"
    /\ IF t \in Consumers \/ Blocked(Others(t)) = {}
       THEN pc' = [pc EXCEPT ![t] = "wait"]
       ELSE \E u \in Blocked(Others(t)) : pc' = [pc EXCEPT ![t] = "wait", ![u] = "acquire"]
    /\ UNCHANGED <<size, mutex, left, spurious>>

\* Mutant: the producer forgets to signal before it waits.
SignalOnlyConsumers(t) ==
    /\ pc[t] = "signal"
    /\ IF t \in Producers \/ Blocked(Others(t)) = {}
       THEN pc' = [pc EXCEPT ![t] = "wait"]
       ELSE \E u \in Blocked(Others(t)) : pc' = [pc EXCEPT ![t] = "wait", ![u] = "acquire"]
    /\ UNCHANGED <<size, mutex, left, spurious>>

\* SDL_CondSignal wakes one thread that waits on the condition variable, if any.
Signal(t) ==
    /\ pc[t] = "signal"
    /\ IF Blocked(Others(t)) = {}
       THEN pc' = [pc EXCEPT ![t] = "wait"]
       ELSE \E u \in Blocked(Others(t)) : pc' = [pc EXCEPT ![t] = "wait", ![u] = "acquire"]
    /\ UNCHANGED <<size, mutex, left, spurious>>

\* Mutant: the producer does not wait for the consumers.
WaitOnlyConsumers(t) ==
    /\ pc[t] = "wait"
    /\ mutex' = Nobody
    /\ pc' = [pc EXCEPT ![t] = IF t \in Consumers THEN "blocked" ELSE "acquire"]
    /\ UNCHANGED <<size, left, spurious>>

\* SDL_CondWait releases the mutex and blocks in one step.
Wait(t) ==
    /\ pc[t] = "wait"
    /\ mutex' = Nobody
    /\ pc' = [pc EXCEPT ![t] = "blocked"]
    /\ UNCHANGED <<size, left, spurious>>

SpuriousWakeup(t) ==
    /\ pc[t] = "blocked"
    /\ spurious < MaxSpurious
    /\ spurious' = spurious + 1
    /\ pc' = [pc EXCEPT ![t] = "acquire"]
    /\ UNCHANGED <<size, mutex, left>>

Consume(c) == Pop(c) \/ Drained(c)
Produce(p) == Push(p) \/ Pushed(p)

Step(t) ==
    \/ Acquire(t) \/ Signal(t) \/ Wait(t)
    \/ t \in Consumers /\ Consume(t)
    \/ t \in Producers /\ Produce(t)

Next == \E t \in Threads : Step(t) \/ SpuriousWakeup(t)

Spec == Init /\ [][Next]_vars

\* Every thread that can run does; a free mutex goes to one of those that want it.
FairSpec == Spec /\ \A t \in Threads : WF_vars(Step(t))

-----------------------------------------------------------------------------
(***************************************************************************)
(* Properties.                                                             *)
(***************************************************************************)
\* One thread at a time touches the list, and the mutex says which.
Exclusion == \A t \in Threads : pc[t] \in Inside <=> mutex = t

\* No lost wakeup: the threads never all wait for each other, although a signal that
\* finds nobody waiting is lost and no thread tests the list before it waits.
SomeoneAwake == \E t \in Threads : pc[t] # "blocked"

\* The producers cannot run ahead: besides the initial items the list holds at most
\* one batch of each producer, and one more for every wait that returned unsignalled.
ListBounded ==
    size <= Initial + Batch * (Cardinality(Producers) + spurious)

\* Both sides go on for ever: whatever is in the list is consumed, and the producers
\* fill it again (MutexCond.cpp:76-79, 100-103).
ListAlternates == []<>(size = 0) /\ []<>(size > 0)

(***************************************************************************)
(* The inductive invariants.  A thread about to wait has signalled, so     *)
(* either it woke a thread of the other side or nobody there was waiting;  *)
(* that thread cannot run before the signaller has released the mutex.     *)
(***************************************************************************)
WakeInv ==
    \A t \in Threads : pc[t] = "wait" => \E u \in Others(t) : pc[u] # "blocked"

\* the producers that will push a batch when they get the mutex
Ready == {p \in Producers : pc[p] = "acquire"}

\* What the producers that are not blocked can still push counts as pushed.
BoundInv ==
    /\ left > 0 => mutex \in Producers
    /\ \A t \in Threads : pc[t] \in {"signal", "wait"} => left = 0
    /\ \A c \in Consumers : pc[c] = "signal" => size = 0
    /\ size + left + Batch * Cardinality(Ready)
         <= Initial + Batch * (Cardinality(Producers) + spurious)

HandoffInv == WakeInv /\ BoundInv

=============================================================================
