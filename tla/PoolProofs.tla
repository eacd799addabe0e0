----------------------------- MODULE PoolProofs -----------------------------
(***************************************************************************)
(* Proofs about SafeQueue, for any threads and any number of values, and   *)
(* about ThreadPool as one of its users, for any number of workers and     *)
(* tasks: what its owner and its workers may be at, that no task is lost   *)
(* or run twice, and that all are run when the destructor returns.         *)
(***************************************************************************)
EXTENDS ThreadPool, FiniteSetTheorems, TLAPS

(***************************************************************************)
(* Types, with which a thread holds the mutex only inside an operation.    *)
(***************************************************************************)

LEMMA QueueTypeStep ==
  ASSUME QueueTypeOK, [QueueNext]_queueVars
  PROVE  QueueTypeOK'
<1>. USE FreeIsNoThread DEF QueueTypeOK, Places, Operations
<1>1. ASSUME NEW t \in Threads, NEW op \in Operations, Call(t, op)
      PROVE  QueueTypeOK'
  BY <1>1 DEF Call
<1>2. ASSUME NEW t \in Threads, Lock(t)
      PROVE  QueueTypeOK'
  BY <1>2 DEF Lock
<1>3. ASSUME NEW t \in Threads, Push(t)
      PROVE  QueueTypeOK'
  BY <1>3 DEF Push, UnlockAt, AfterPush
<1>4. ASSUME NEW t \in Threads, NotifyOne(t)
      PROVE  QueueTypeOK'
  <2>1. CASE Waiting = {} /\ at' = [at EXCEPT ![t] = "out"]
    BY <1>4, <2>1 DEF NotifyOne
  <2>2. ASSUME NEW w \in Waiting, at' = [at EXCEPT ![t] = "out", ![w] = "pop"]
        PROVE  QueueTypeOK'
    BY <1>4, <2>2 DEF NotifyOne, Waiting, At
  <2>. QED  BY <1>4, <2>1, <2>2 DEF NotifyOne
<1>5. ASSUME NEW t \in Threads, Take(t)
      PROVE  QueueTypeOK'
  BY <1>5 DEF Take, UnlockAt, Dequeued
<1>6. ASSUME NEW t \in Threads, PopWait(t) \/ PopEnd(t) \/ TryPopFails(t) \/ SetShutdown(t)
      PROVE  QueueTypeOK'
  BY <1>6 DEF PopWait, PopEnd, TryPopFails, SetShutdown, UnlockAt
<1>7. ASSUME NEW t \in Threads, NotifyAll(t)
      PROVE  QueueTypeOK'
  BY <1>7 DEF NotifyAll, Notified, Waiting, At
<1>8. ASSUME NEW t \in Threads, SpuriousWake(t)
      PROVE  QueueTypeOK'
  BY <1>8 DEF SpuriousWake
<1>9. CASE UNCHANGED queueVars
  BY <1>9 DEF queueVars
<1>. QED  BY <1>1, <1>2, <1>3, <1>4, <1>5, <1>6, <1>7, <1>8, <1>9
          DEF QueueNext, Operate, PopTake, TryPopTakes

LEMMA QueueTypeInit == QueueInit => QueueTypeOK
<1>. SUFFICES ASSUME QueueInit PROVE QueueTypeOK
  OBVIOUS
<1>. USE DEF QueueInit
<1>1. queue_ \in Seq(Nat) /\ pushed \in Nat
  OBVIOUS
<1>2. at \in [Threads -> Places]
  BY DEF Places
<1>3. item \in [Threads -> Nat \cup {Nothing}]
  OBVIOUS
<1>4. mtx_ = Free /\ shutdown_flag_ \in BOOLEAN
  OBVIOUS
<1>. QED  BY <1>1, <1>2, <1>3, <1>4 DEF QueueTypeOK

\* Every thread is where its operation takes it, and only a thread in a critical section
\* of safe_queue.hpp, or about to wait in one, holds mtx_.
THEOREM QueueTypeCorrect == QueueSpec => []QueueTypeOK
  BY QueueTypeInit, QueueTypeStep, PTL DEF QueueSpec

(***************************************************************************)
(* Shutdown.                                                               *)
(***************************************************************************)

\* shutdown() raises the flag under the mutex and notifies after it: nobody waits on
\* with the flag up and no notify_all() to come.
THEOREM ShutdownReaches == QueueSpec => []ShutdownReachesAll
<1>1. QueueInit => ShutdownReachesAll
  BY DEF QueueInit, ShutdownReachesAll
<1>2. QueueTypeOK /\ ShutdownReachesAll /\ [QueueNext]_queueVars => ShutdownReachesAll'
  <2>. SUFFICES ASSUME QueueTypeOK, ShutdownReachesAll, [QueueNext]_queueVars
                PROVE  ShutdownReachesAll'
    OBVIOUS
  <2>. USE DEF ShutdownReachesAll, QueueTypeOK, Waiting, At, Operations
  <2>1. ASSUME NEW t \in Threads, NEW op \in Operations, Call(t, op)
        PROVE  ShutdownReachesAll'
    BY <2>1 DEF Call
  <2>2. ASSUME NEW t \in Threads, Lock(t)
        PROVE  ShutdownReachesAll'
    BY <2>2 DEF Lock
  <2>3. ASSUME NEW t \in Threads, Push(t)
        PROVE  ShutdownReachesAll'
    BY <2>3 DEF Push, UnlockAt, AfterPush
  <2>4. ASSUME NEW t \in Threads, NotifyOne(t)
        PROVE  ShutdownReachesAll'
    BY <2>4 DEF NotifyOne
  <2>5. ASSUME NEW t \in Threads, PopTake(t) \/ TryPopTakes(t)
        PROVE  ShutdownReachesAll'
    BY <2>5 DEF PopTake, TryPopTakes, Take, UnlockAt
  <2>6. ASSUME NEW t \in Threads, PopWait(t)
        PROVE  ShutdownReachesAll'
    BY <2>6 DEF PopWait
  <2>7. ASSUME NEW t \in Threads, PopEnd(t) \/ TryPopFails(t)
        PROVE  ShutdownReachesAll'
    BY <2>7 DEF PopEnd, TryPopFails, UnlockAt
  <2>8. ASSUME NEW t \in Threads, SetShutdown(t)
        PROVE  ShutdownReachesAll'
    BY <2>8 DEF SetShutdown, UnlockAt
  <2>9. ASSUME NEW t \in Threads, NotifyAll(t)
        PROVE  ShutdownReachesAll'
    BY <2>9 DEF NotifyAll, Notified
  <2>10. ASSUME NEW t \in Threads, SpuriousWake(t)
         PROVE  ShutdownReachesAll'
    BY <2>10 DEF SpuriousWake
  <2>11. CASE UNCHANGED queueVars
    BY <2>11 DEF queueVars
  <2>. QED  BY <2>1, <2>2, <2>3, <2>4, <2>5, <2>6, <2>7, <2>8, <2>9, <2>10, <2>11
            DEF QueueNext, Operate
<1>. QED  BY <1>1, <1>2, QueueTypeCorrect, PTL DEF QueueSpec

(***************************************************************************)
(* Wake-ups.                                                               *)
(***************************************************************************)

LEMMA AtFinite ==
  \A place : IsFiniteSet(At(place)) /\ Cardinality(At(place)) \in Nat
<1>. SUFFICES ASSUME NEW place
              PROVE  IsFiniteSet(At(place)) /\ Cardinality(At(place)) \in Nat
  OBVIOUS
<1>1. At(place) \in SUBSET Threads
  BY DEF At
<1>. QED  BY <1>1, ThreadsAreFinite, FS_Subset, FS_CardinalityType

LEMMA PrimedAtFinite ==
  \A place : IsFiniteSet(At(place)') /\ Cardinality(At(place)') \in Nat
<1>. SUFFICES ASSUME NEW place
              PROVE  IsFiniteSet(At(place)') /\ Cardinality(At(place)') \in Nat
  OBVIOUS
<1>1. At(place)' \in SUBSET Threads
  BY DEF At
<1>. QED  BY <1>1, ThreadsAreFinite, FS_Subset, FS_CardinalityType

\* A thread that takes the first value is no longer there for it, and neither is the value.
LEMMA TakeKeeps ==
  ASSUME QueueTypeOK, NoLostWakeup, NEW t \in Threads, Take(t), at[t] \in {"pop", "try_pop"}
  PROVE  NoLostWakeup'
<1>1. at' = [at EXCEPT ![t] = "out"]
  BY DEF Take, UnlockAt
<1>2. /\ At("notify_one")' = At("notify_one")
      /\ At("pop")' = At("pop") \ {t}
  BY <1>1 DEF At, QueueTypeOK
<1>3. /\ Cardinality(At("pop")') \in Nat
       /\ Cardinality(At("pop")') >= Cardinality(At("pop")) - 1
  BY <1>2, AtFinite, PrimedAtFinite, FS_RemoveElement
<1>4. Waiting' = Waiting
  BY <1>1 DEF Waiting, At, QueueTypeOK
<1>5. Len(queue_') = Len(queue_) - 1
  BY DEF Take, Dequeued, QueueTypeOK
<1>6. queue_ \in Seq(Nat) /\ queue_' \in Seq(Nat)
  BY DEF Take, Dequeued, QueueTypeOK
<1>. QED  BY <1>2, <1>3, <1>4, <1>5, <1>6, AtFinite DEF NoLostWakeup

\* push() notifies one thread for each value, after the unlock, and every thread that
\* waits has seen the queue empty: no value is left with threads waiting beside it.
THEOREM NoWakeupIsLost == QueueSpec => []NoLostWakeup
<1>1. QueueInit => NoLostWakeup
  BY DEF QueueInit, NoLostWakeup, Waiting, At
<1>2. QueueTypeOK /\ NoLostWakeup /\ [QueueNext]_queueVars => NoLostWakeup'
  <2>. SUFFICES ASSUME QueueTypeOK, NoLostWakeup, [QueueNext]_queueVars
                PROVE  NoLostWakeup'
    OBVIOUS
  <2>. QueueTypeOK'
    BY QueueTypeStep
  <2>. at \in [Threads -> Places] /\ queue_ \in Seq(Nat) /\ queue_' \in Seq(Nat)
    BY DEF QueueTypeOK
  <2>1. ASSUME NEW t \in Threads, NEW op \in Operations, Call(t, op)
        PROVE  NoLostWakeup'
    <3>1. at' = [at EXCEPT ![t] = op] /\ at[t] = "out" /\ queue_' = queue_
      BY <2>1 DEF Call
    <3>2. /\ At("notify_one")' = At("notify_one")
          /\ At("pop")' \in {At("pop"), At("pop") \cup {t}}
      BY <3>1 DEF At, Operations
    <3>3. Cardinality(At("pop")') >= Cardinality(At("pop"))
      <4>1. CASE At("pop")' = At("pop")
        BY <4>1, AtFinite
      <4>2. CASE At("pop")' = At("pop") \cup {t}
        <5>1. Cardinality(At("pop") \cup {t}) = Cardinality(At("pop")) + 1
          <6>1. t \notin At("pop")
            BY <3>1 DEF At
          <6>. QED  BY <6>1, AtFinite, FS_AddElement
        <5>2. Cardinality(At("pop")') = Cardinality(At("pop")) + 1
          BY <4>2, <5>1
        <5>3. Cardinality(At("pop")) \in Nat
          BY AtFinite
        <5>. QED  BY <5>2, <5>3
      <4>. QED  BY <3>2, <4>1, <4>2
    <3>4. Waiting' = Waiting
      BY <3>1 DEF Waiting, At, Operations
    <3>. QED  BY <3>1, <3>2, <3>3, <3>4, AtFinite, PrimedAtFinite DEF NoLostWakeup
  <2>2. ASSUME NEW t \in Threads, Lock(t)
        PROVE  NoLostWakeup'
    BY <2>2 DEF Lock, NoLostWakeup, Waiting, At
  <2>3. ASSUME NEW t \in Threads, Push(t)
        PROVE  NoLostWakeup'
    <3>1. at' = [at EXCEPT ![t] = "notify_one"] /\ at[t] = "push"
      BY <2>3 DEF Push, UnlockAt, AfterPush
    <3>2. /\ At("notify_one")' = At("notify_one") \cup {t} /\ t \notin At("notify_one")
          /\ At("pop")' = At("pop")
      BY <3>1 DEF At
    <3>3. Cardinality(At("notify_one")') = Cardinality(At("notify_one")) + 1
      BY <3>2, AtFinite, FS_AddElement
    <3>4. Waiting' = Waiting
      BY <3>1 DEF Waiting, At
    <3>5. Len(queue_') = Len(queue_) + 1
      BY <2>3 DEF Push
    <3>. QED  BY <3>2, <3>3, <3>4, <3>5, AtFinite DEF NoLostWakeup
  <2>4. ASSUME NEW t \in Threads, NotifyOne(t)
        PROVE  NoLostWakeup'
    <3>1. CASE Waiting = {} /\ at' = [at EXCEPT ![t] = "out"]
      BY <3>1 DEF NoLostWakeup, Waiting, At
    <3>2. ASSUME NEW w \in Waiting, at' = [at EXCEPT ![t] = "out", ![w] = "pop"]
          PROVE  NoLostWakeup'
      <4>1. at[t] = "notify_one" /\ w \in Threads /\ at[w] = "waiting" /\ queue_' = queue_
        BY <2>4, <3>2 DEF NotifyOne, Waiting, At
      <4>2. At("notify_one")' = At("notify_one") \ {t} /\ t \in At("notify_one")
        BY <3>2, <4>1 DEF At
      <4>3. At("pop")' = At("pop") \cup {w} /\ w \notin At("pop")
        BY <3>2, <4>1 DEF At
      <4>4. Cardinality(At("notify_one")') = Cardinality(At("notify_one")) - 1
        BY <4>2, AtFinite, FS_RemoveElement
      <4>5. Cardinality(At("pop")') = Cardinality(At("pop")) + 1
        BY <4>3, AtFinite, FS_AddElement
      <4>6. Waiting # {}
        OBVIOUS
      <4>. QED  BY <4>1, <4>4, <4>5, <4>6, AtFinite DEF NoLostWakeup
    <3>. QED  BY <2>4, <3>1, <3>2 DEF NotifyOne
  <2>5. ASSUME NEW t \in Threads, PopTake(t) \/ TryPopTakes(t)
        PROVE  NoLostWakeup'
    BY <2>5, TakeKeeps DEF PopTake, TryPopTakes
  <2>6. ASSUME NEW t \in Threads, PopWait(t) \/ PopEnd(t) \/ TryPopFails(t)
        PROVE  NoLostWakeup'
    <3>1. queue_' = << >>
      BY <2>6 DEF PopWait, PopEnd, TryPopFails, Ended
    <3>2. \A place : Cardinality(At(place)') \in Nat
      <4>1. \A place : At(place)' \in SUBSET Threads
        BY DEF At
      <4>. QED  BY <4>1, ThreadsAreFinite, FS_Subset, FS_CardinalityType
    <3>. QED  BY <3>1, <3>2 DEF NoLostWakeup
  <2>7. ASSUME NEW t \in Threads, SetShutdown(t)
        PROVE  NoLostWakeup'
    <3>1. at' = [at EXCEPT ![t] = "notify_all"] /\ at[t] = "shutdown" /\ queue_' = queue_
      BY <2>7 DEF SetShutdown, UnlockAt
    <3>2. \A place \in {"notify_one", "pop", "waiting"} : At(place)' = At(place)
      BY <3>1 DEF At
    <3>. QED  BY <3>1, <3>2 DEF NoLostWakeup, Waiting
  <2>8. ASSUME NEW t \in Threads, NotifyAll(t)
        PROVE  NoLostWakeup'
    <3>1. Waiting' = {}
      BY <2>8 DEF NotifyAll, Notified, Waiting, At
    <3>. QED  BY <3>1 DEF NoLostWakeup
  <2>9. ASSUME NEW t \in Threads, SpuriousWake(t)
        PROVE  NoLostWakeup'
    <3>1. at' = [at EXCEPT ![t] = "pop"] /\ at[t] = "waiting" /\ queue_' = queue_
      BY <2>9 DEF SpuriousWake
    <3>2. /\ At("notify_one")' = At("notify_one")
          /\ At("pop")' = At("pop") \cup {t} /\ t \notin At("pop")
      BY <3>1 DEF At
    <3>3. Cardinality(At("pop")') = Cardinality(At("pop")) + 1
      BY <3>2, AtFinite, FS_AddElement
    <3>4. Waiting # {}
      BY <3>1 DEF Waiting, At
    <3>. QED  BY <3>1, <3>2, <3>3, <3>4, AtFinite DEF NoLostWakeup
  <2>10. CASE UNCHANGED queueVars
    BY <2>10 DEF queueVars, NoLostWakeup, Waiting, At
  <2>. QED  BY <2>1, <2>2, <2>3, <2>4, <2>5, <2>6, <2>7, <2>8, <2>9, <2>10
            DEF QueueNext, Operate
<1>. QED  BY <1>1, <1>2, QueueTypeCorrect, PTL DEF QueueSpec

(***************************************************************************)
(* The mutex and the condition variable implement an atomic closable queue.*)
(***************************************************************************)

\* At every moment safe_queue.hpp is one of the states of ClosableQueue, and each of its
\* steps is one of that queue's or none: push and shutdown happen under the mutex, pop
\* from its call to the critical section that ends it.
THEOREM QueueImplements == QueueSpec => Implements
<1>1. QueueInit => Abstract!Init
  BY DEF QueueInit, Abstract!Init, Waiting, At
<1>2. QueueTypeOK /\ [QueueNext]_queueVars => [Abstract!Next]_(Abstract!vars)
  <2>. SUFFICES ASSUME QueueTypeOK, [QueueNext]_queueVars
                PROVE  Abstract!Next \/ UNCHANGED Abstract!vars
    OBVIOUS
  <2>. DEFINE asking == At("pop") \cup Waiting
  <2>. at \in [Threads -> Places]
    BY DEF QueueTypeOK
  <2>1. ASSUME NEW t \in Threads, NEW op \in Operations, Call(t, op)
        PROVE  Abstract!Next \/ UNCHANGED Abstract!vars
    <3>1. CASE op = "pop"
      <4>1. t \notin asking /\ asking' = asking \cup {t}
        BY <2>1, <3>1 DEF Call, Waiting, At
      <4>2. Abstract!Ask(t)
        BY <2>1, <4>1 DEF Call, Abstract!Ask
      <4>. QED  BY <4>2 DEF Abstract!Next
    <3>2. CASE op # "pop"
      <4>1. asking' = asking
        BY <2>1, <3>2 DEF Call, Waiting, At, Operations
      <4>. QED  BY <2>1, <4>1 DEF Call, Abstract!vars
    <3>. QED  BY <3>1, <3>2
  <2>2. ASSUME NEW t \in Threads, Lock(t)
        PROVE  UNCHANGED Abstract!vars
    BY <2>2 DEF Lock, Abstract!vars, Waiting, At
  <2>3. ASSUME NEW t \in Threads, Push(t)
        PROVE  Abstract!Next
    <3>1. asking' = asking
      BY <2>3 DEF Push, UnlockAt, AfterPush, Waiting, At
    <3>2. Abstract!Put
      BY <2>3, <3>1 DEF Push, Abstract!Put
    <3>. QED  BY <3>2 DEF Abstract!Next
  <2>4. ASSUME NEW t \in Threads, NotifyOne(t)
        PROVE  UNCHANGED Abstract!vars
    <3>1. asking' = asking
      BY <2>4 DEF NotifyOne, Waiting, At
    <3>. QED  BY <2>4, <3>1 DEF NotifyOne, Abstract!vars
  <2>5. ASSUME NEW t \in Threads, PopWait(t)
        PROVE  UNCHANGED Abstract!vars
    <3>1. asking' = asking
      BY <2>5 DEF PopWait, UnlockAt, Waiting, At
    <3>. QED  BY <2>5, <3>1 DEF PopWait, Abstract!vars
  <2>6. ASSUME NEW t \in Threads, PopEnd(t)
        PROVE  Abstract!Next
    <3>1. t \in asking /\ asking' = asking \ {t}
      BY <2>6 DEF PopEnd, UnlockAt, Waiting, At
    <3>2. Abstract!End(t)
      BY <2>6, <3>1 DEF PopEnd, Ended, Abstract!End
    <3>. QED  BY <3>2 DEF Abstract!Next
  <2>7. ASSUME NEW t \in Threads, PopTake(t)
        PROVE  Abstract!Next
    <3>1. t \in asking /\ asking' = asking \ {t}
      BY <2>7 DEF PopTake, Take, UnlockAt, Waiting, At
    <3>2. Abstract!Get(t)
      BY <2>7, <3>1 DEF PopTake, Take, Dequeued, Abstract!Get, Abstract!TakeFirst
    <3>. QED  BY <3>2 DEF Abstract!Next
  <2>8. ASSUME NEW t \in Threads, TryPopFails(t) \/ TryPopTakes(t)
        PROVE  Abstract!Next
    <3>1. t \notin asking /\ asking' = asking
      BY <2>8 DEF TryPopFails, TryPopTakes, Take, UnlockAt, Waiting, At
    <3>2. Abstract!Poll(t)
      BY <2>8, <3>1 DEF TryPopFails, TryPopTakes, Take, Dequeued, Abstract!Poll, Abstract!TakeFirst
    <3>. QED  BY <3>2 DEF Abstract!Next
  <2>9. ASSUME NEW t \in Threads, SetShutdown(t)
        PROVE  Abstract!Next
    <3>1. asking' = asking
      BY <2>9 DEF SetShutdown, UnlockAt, Waiting, At
    <3>2. Abstract!Close
      BY <2>9, <3>1 DEF SetShutdown, Abstract!Close
    <3>. QED  BY <3>2 DEF Abstract!Next
  <2>10. ASSUME NEW t \in Threads, NotifyAll(t) \/ SpuriousWake(t)
         PROVE  UNCHANGED Abstract!vars
    <3>1. asking' = asking
      BY <2>10 DEF NotifyAll, Notified, SpuriousWake, Waiting, At
    <3>. QED  BY <2>10, <3>1 DEF NotifyAll, SpuriousWake, Abstract!vars
  <2>11. CASE UNCHANGED queueVars
    BY <2>11 DEF queueVars, Abstract!vars, Waiting, At
  <2>. QED  BY <2>1, <2>2, <2>3, <2>4, <2>5, <2>6, <2>7, <2>8, <2>9, <2>10, <2>11
            DEF QueueNext, Operate
<1>. QED  BY <1>1, <1>2, QueueTypeCorrect, PTL DEF QueueSpec, Implements, Abstract!Spec

(***************************************************************************)
(* The pool uses its queue in no other way than its operations.            *)
(***************************************************************************)

LEMMA PoolStepUsesQueue == [Next]_vars => [QueueNext]_queueVars
<1>. USE PoolThreads DEF Operations
<1>1. ASSUME NEW w \in Workers, WorkerStep(w) \/ SpuriousWake(w)
      PROVE  [QueueNext]_queueVars
  BY <1>1 DEF WorkerStep, AskTask, GotTask, RunTask, InQueue, QueueNext
<1>2. ASSUME OwnerStep
      PROVE  [QueueNext]_queueVars
  BY <1>2 DEF OwnerStep, Join, InQueue, QueueNext
<1>3. ASSUME Submit \/ Destroy
      PROVE  QueueNext
  BY <1>3 DEF Submit, Destroy, QueueNext
<1>. QED  BY <1>1, <1>2, <1>3 DEF Next, vars

\* The workers' loop, submit() and the destructor of thread_pool.cpp are users of a
\* SafeQueue: whatever holds of the queue under any use holds in the pool.
THEOREM PoolUsesQueue == Spec => QueueSpec
<1>1. Init => QueueInit
  BY DEF Init
<1>. QED  BY <1>1, PoolStepUsesQueue, PTL DEF Spec, QueueSpec

-----------------------------------------------------------------------------
(***************************************************************************)
(* ThreadPool: types.                                                      *)
(***************************************************************************)

LEMMA PoolTypeStep ==
  ASSUME TypeOK, [Next]_vars
  PROVE  TypeOK'
<1>. USE PoolThreads DEF TypeOK
<1>1. QueueTypeOK'
  BY PoolStepUsesQueue, QueueTypeStep
<1>2. at \in [Threads -> Places] /\ item \in [Threads -> Nat \cup {Nothing}] /\ queue_ \in Seq(Nat)
  BY DEF QueueTypeOK
<1>3. ASSUME NEW w \in Workers, AskTask(w)
      PROVE  TypeOK'
  BY <1>1, <1>2, <1>3 DEF AskTask, Call
<1>4. ASSUME NEW w \in Workers, GotTask(w)
      PROVE  TypeOK'
  BY <1>1, <1>2, <1>4 DEF GotTask, AfterPop, queueVars
<1>5. ASSUME NEW w \in Workers, RunTask(w)
      PROVE  TypeOK'
  BY <1>1, <1>2, <1>5 DEF RunTask, queueVars
<1>6. ASSUME Submit \/ Destroy
      PROVE  TypeOK'
  BY <1>1, <1>2, <1>6 DEF Submit, Destroy, Call, poolVars
<1>7. ASSUME Join
      PROVE  TypeOK'
  BY <1>1, <1>2, <1>7 DEF Join, queueVars
<1>8. ASSUME NEW t \in Threads, InQueue(t)
      PROVE  TypeOK'
  <2>. USE <1>1, <1>2, <1>8 DEF InQueue, poolVars
  <2>1. CASE Lock(t)
    BY <2>1 DEF Lock
  <2>2. CASE Push(t)
    BY <2>2 DEF Push, UnlockAt, AfterPush
  <2>3. CASE NotifyOne(t)
    BY <2>3 DEF NotifyOne, Waiting, At
  <2>4. CASE PopWait(t)
    BY <2>4 DEF PopWait, UnlockAt
  <2>5. CASE PopEnd(t)
    BY <2>5 DEF PopEnd, UnlockAt
  <2>6. CASE PopTake(t)
    BY <2>6 DEF PopTake, Take, UnlockAt
  <2>7. CASE TryPopFails(t) \/ TryPopTakes(t)
    BY <2>7 DEF TryPopFails, TryPopTakes
  <2>8. CASE SetShutdown(t)
    BY <2>8 DEF SetShutdown, UnlockAt
  <2>9. CASE NotifyAll(t)
    BY <2>9 DEF NotifyAll, Notified, Waiting, At
  <2>. QED  BY <2>1, <2>2, <2>3, <2>4, <2>5, <2>6, <2>7, <2>8, <2>9 DEF Operate
<1>9. ASSUME NEW w \in Workers, SpuriousWake(w), UNCHANGED poolVars
      PROVE  TypeOK'
  BY <1>1, <1>2, <1>9 DEF SpuriousWake, poolVars
<1>10. CASE UNCHANGED vars
  BY <1>1, <1>10 DEF vars, queueVars, poolVars
<1>. QED  BY <1>3, <1>4, <1>5, <1>6, <1>7, <1>8, <1>9, <1>10 DEF Next, WorkerStep, OwnerStep

LEMMA PoolTypeInit == Init => TypeOK
<1>. SUFFICES ASSUME Init PROVE TypeOK
  OBVIOUS
<1>1. QueueTypeOK
  BY QueueTypeInit DEF Init
<1>. QED  BY <1>1, PoolThreads DEF Init, QueueInit, TypeOK

\* A worker stands in pop() or outside the queue and holds a task while it runs one; the
\* owner only pushes and shuts down.
THEOREM PoolTypeCorrect == Spec => []TypeOK
  BY PoolTypeInit, PoolTypeStep, PTL DEF Spec

(***************************************************************************)
(* Tasks.  They leave the queue in the order they came in, so that what is *)
(* in it are the last numbers, and what left it is held by one worker or   *)
(* done.                                                                   *)
(***************************************************************************)

QueueConsecutive ==
  /\ Len(queue_) <= pushed
  /\ \A i \in 1..Len(queue_) : queue_[i] = pushed - Len(queue_) + i

HeldOnce ==
  /\ {item[w] : w \in Holding} \cup done = 1..(pushed - Len(queue_))
  /\ \A w \in Holding : item[w] \notin done
  /\ \A v, w \in Holding : item[v] = item[w] => v = w

TasksCounted == pushed = Len(queue_) + Cardinality(Holding) + Cardinality(done)

TaskInv == QueueConsecutive /\ HeldOnce /\ TasksCounted

LEMMA HoldingFinite == IsFiniteSet(Holding) /\ IsFiniteSet(Holding')
<1>1. Holding \in SUBSET Threads /\ Holding' \in SUBSET Threads
  BY PoolThreads DEF Holding
<1>. QED  BY <1>1, ThreadsAreFinite, FS_Subset

LEMMA DoneFinite ==
  ASSUME TypeOK, TaskInv
  PROVE  IsFiniteSet(done) /\ Cardinality(done) \in Nat
<1>1. done \subseteq 1..(pushed - Len(queue_)) /\ pushed - Len(queue_) \in Int
  BY DEF TaskInv, HeldOnce, TypeOK, QueueTypeOK
<1>2. IsFiniteSet(1..(pushed - Len(queue_)))
  BY <1>1, FS_Interval
<1>. QED  BY <1>1, <1>2, FS_Subset, FS_CardinalityType

\* What queue, hands and finished tasks depend on.
LEMMA TaskInvFrame ==
  ASSUME TaskInv, queue_' = queue_, pushed' = pushed, done' = done,
         Holding' = Holding, \A w \in Holding : item'[w] = item[w]
  PROVE  TaskInv'
<1>1. {item'[w] : w \in Holding'} = {item[w] : w \in Holding}
  OBVIOUS
<1>. QED  BY <1>1 DEF TaskInv, QueueConsecutive, HeldOnce, TasksCounted

LEMMA TaskInvPush ==
  ASSUME TypeOK, TaskInv, NEW t \in Threads, Push(t), UNCHANGED poolVars
  PROVE  TaskInv'
<1>. queue_ \in Seq(Nat) /\ pushed \in Nat /\ at \in [Threads -> Places]
  BY DEF TypeOK, QueueTypeOK
<1>1. at' = [at EXCEPT ![t] = "notify_one"] /\ at[t] = "push" /\ item' = item
  BY DEF Push, UnlockAt, AfterPush
<1>2. t \notin Workers
  BY <1>1 DEF TypeOK
<1>3. Holding' = Holding
  BY <1>1, <1>2, PoolThreads DEF Holding, poolVars
<1>4. pushed' = pushed + 1 /\ queue_' = Append(queue_, pushed')
  BY DEF Push
<1>5. Len(queue_') = Len(queue_) + 1 /\ pushed' - Len(queue_') = pushed - Len(queue_)
  BY <1>4
<1>6. QueueConsecutive'
  BY <1>4, <1>5 DEF TaskInv, QueueConsecutive
<1>7. HeldOnce' /\ TasksCounted'
  <2>1. {item'[w] : w \in Holding'} = {item[w] : w \in Holding}
    BY <1>1, <1>3
  <2>2. Cardinality(Holding) \in Nat /\ Cardinality(done) \in Nat
    BY HoldingFinite, DoneFinite, FS_CardinalityType
  <2>3. done' = done
    BY DEF poolVars
  <2>4. HeldOnce'
    BY <1>1, <1>3, <1>5, <2>1, <2>3 DEF TaskInv, HeldOnce
  <2>5. TasksCounted'
    BY <1>3, <1>4, <1>5, <2>2, <2>3 DEF TaskInv, TasksCounted
  <2>. QED  BY <2>4, <2>5
<1>. QED  BY <1>6, <1>7 DEF TaskInv

\* The first value passes from the queue into the hands of thread t.
LEMMA TaskInvTake ==
  ASSUME TypeOK, TaskInv, NEW t \in Threads, PopTake(t), UNCHANGED poolVars
  PROVE  TaskInv'
<1>. queue_ \in Seq(Nat) /\ pushed \in Nat /\ at \in [Threads -> Places]
     /\ item \in [Threads -> Nat \cup {Nothing}]
  BY DEF TypeOK, QueueTypeOK
<1>1. /\ at[t] = "pop" /\ at' = [at EXCEPT ![t] = "out"]
      /\ queue_ # << >> /\ queue_' = Tail(queue_) /\ pushed' = pushed
      /\ item' = [item EXCEPT ![t] = Head(queue_)]
  BY DEF PopTake, Take, UnlockAt, Dequeued
<1>2. t \in Workers /\ worker[t] = "pop" /\ worker' = worker /\ done' = done
  BY <1>1, PoolThreads DEF TypeOK, poolVars
<1>3. /\ Len(queue_) >= 1 /\ Len(queue_') = Len(queue_) - 1
      /\ Head(queue_) = queue_[1] /\ Head(queue_) \in Nat
      /\ \A i \in 1..Len(queue_') : queue_'[i] = queue_[i + 1]
  BY <1>1
<1>. DEFINE first == pushed - Len(queue_) + 1
<1>4. Head(queue_) = first /\ first \in Nat /\ pushed - Len(queue_') = first
  BY <1>1, <1>3 DEF TaskInv, QueueConsecutive
<1>5. t \notin Holding /\ Holding' = Holding \cup {t}
  BY <1>1, <1>2, <1>3, NothingIsNoItem DEF Holding
<1>6. QueueConsecutive'
  BY <1>1, <1>3, <1>4 DEF TaskInv, QueueConsecutive
<1>7. \A w \in Holding : item'[w] = item[w]
  BY <1>1, <1>5, PoolThreads DEF Holding
<1>8. item'[t] = first
  BY <1>1, <1>4
<1>9. first \notin {item[w] : w \in Holding} \cup done
  BY <1>4 DEF TaskInv, HeldOnce
<1>10. HeldOnce'
  <2>1. {item'[w] : w \in Holding'} = {item[w] : w \in Holding} \cup {first}
    BY <1>5, <1>7, <1>8
  <2>2. 1..first = (1..(pushed - Len(queue_))) \cup {first}
    <3>1. Len(queue_) \in Nat /\ pushed - Len(queue_) = first - 1 /\ first >= 1
      BY DEF TaskInv, QueueConsecutive
    <3>2. \A n \in Nat : n >= 1 => 1..n = (1..(n - 1)) \cup {n}
      OBVIOUS
    <3>. QED  BY <1>4, <3>1, <3>2
  <2>3. {item'[w] : w \in Holding'} \cup done' = 1..(pushed' - Len(queue_'))
    BY <1>1, <1>2, <1>4, <2>1, <2>2 DEF TaskInv, HeldOnce
  <2>4. \A w \in Holding' : item'[w] \notin done'
    BY <1>2, <1>5, <1>7, <1>8, <1>9 DEF TaskInv, HeldOnce
  <2>5. \A v, w \in Holding' : item'[v] = item'[w] => v = w
    BY <1>5, <1>7, <1>8, <1>9 DEF TaskInv, HeldOnce
  <2>. QED  BY <2>3, <2>4, <2>5 DEF HeldOnce
<1>11. TasksCounted'
  <2>1. Cardinality(Holding') = Cardinality(Holding) + 1
    BY <1>5, HoldingFinite, FS_AddElement
  <2>2. Cardinality(Holding) \in Nat /\ Cardinality(done) \in Nat
    BY HoldingFinite, DoneFinite, FS_CardinalityType
  <2>. QED  BY <1>1, <1>2, <1>3, <2>1, <2>2 DEF TaskInv, TasksCounted
<1>. QED  BY <1>6, <1>10, <1>11 DEF TaskInv

\* A task passes from a worker's hands to those that are done.
LEMMA TaskInvRun ==
  ASSUME TypeOK, TaskInv, NEW t \in Workers, RunTask(t)
  PROVE  TaskInv'
<1>. queue_ \in Seq(Nat) /\ pushed \in Nat /\ worker \in [Workers -> {"loop", "pop", "running", "exited"}]
  BY DEF TypeOK, QueueTypeOK
<1>1. /\ worker[t] = "running" /\ worker' = [worker EXCEPT ![t] = "loop"]
      /\ done' = done \cup {item[t]}
      /\ queue_' = queue_ /\ pushed' = pushed /\ item' = item /\ at' = at
  BY DEF RunTask, queueVars
<1>2. t \in Holding /\ Holding' = Holding \ {t}
  BY <1>1 DEF Holding
<1>3. item[t] \notin done /\ \A w \in Holding' : item[w] # item[t]
  BY <1>2 DEF TaskInv, HeldOnce
<1>4. QueueConsecutive'
  BY <1>1 DEF TaskInv, QueueConsecutive
<1>5. HeldOnce'
  <2>1. {item'[w] : w \in Holding'} \cup done' = {item[w] : w \in Holding} \cup done
    BY <1>1, <1>2
  <2>2. {item'[w] : w \in Holding'} \cup done' = 1..(pushed' - Len(queue_'))
    BY <1>1, <2>1 DEF TaskInv, HeldOnce
  <2>3. \A w \in Holding' : item'[w] \notin done'
    BY <1>1, <1>2, <1>3 DEF TaskInv, HeldOnce
  <2>4. \A v, w \in Holding' : item'[v] = item'[w] => v = w
    BY <1>1, <1>2 DEF TaskInv, HeldOnce
  <2>. QED  BY <2>2, <2>3, <2>4 DEF HeldOnce
<1>6. TasksCounted'
  <2>1. Cardinality(Holding') = Cardinality(Holding) - 1
    BY <1>2, HoldingFinite, FS_RemoveElement
  <2>2. Cardinality(done') = Cardinality(done) + 1
    BY <1>1, <1>3, DoneFinite, FS_AddElement
  <2>3. Cardinality(Holding) \in Nat /\ Cardinality(done) \in Nat
    BY HoldingFinite, DoneFinite, FS_CardinalityType
  <2>. QED  BY <1>1, <2>1, <2>2, <2>3 DEF TaskInv, TasksCounted
<1>. QED  BY <1>4, <1>5, <1>6 DEF TaskInv

LEMMA TaskInvStep ==
  ASSUME TypeOK, TaskInv, [Next]_vars
  PROVE  TaskInv'
<1>. at \in [Threads -> Places] /\ item \in [Threads -> Nat \cup {Nothing}]
     /\ worker \in [Workers -> {"loop", "pop", "running", "exited"}]
  BY DEF TypeOK, QueueTypeOK
<1>. USE PoolThreads
<1>1. ASSUME NEW w \in Workers, AskTask(w)
      PROVE  TaskInv'
  <2>1. at' = [at EXCEPT ![w] = "pop"] /\ worker' = [worker EXCEPT ![w] = "pop"]
        /\ worker[w] = "loop" /\ item' = item
    BY <1>1 DEF AskTask, Call
  <2>2. Holding' = Holding
    BY <2>1 DEF Holding
  <2>. QED  BY <1>1, <2>1, <2>2, TaskInvFrame DEF AskTask, Call
<1>2. ASSUME NEW w \in Workers, GotTask(w)
      PROVE  TaskInv'
  <2>1. worker' = [worker EXCEPT ![w] = AfterPop(w)]
        /\ worker[w] = "pop" /\ at[w] = "out" /\ item' = item /\ at' = at
    BY <1>2 DEF GotTask, queueVars
  <2>2. Holding' = Holding
    BY <2>1 DEF Holding, AfterPop
  <2>. QED  BY <1>2, <2>1, <2>2, TaskInvFrame DEF GotTask, queueVars
<1>3. ASSUME Submit \/ Destroy
      PROVE  TaskInv'
  <2>1. worker' = worker /\ item' = item /\ \A w \in Workers : at'[w] = at[w]
    BY <1>3 DEF Submit, Destroy, Call, poolVars
  <2>2. Holding' = Holding
    BY <2>1 DEF Holding
  <2>. QED  BY <1>3, <2>1, <2>2, TaskInvFrame DEF Submit, Destroy, Call, poolVars
<1>4. ASSUME Join
      PROVE  TaskInv'
  <2>1. Holding' = Holding
    BY <1>4 DEF Join, queueVars, Holding
  <2>. QED  BY <1>4, <2>1, TaskInvFrame DEF Join, queueVars
<1>5. ASSUME NEW t \in Threads, InQueue(t)
      PROVE  TaskInv'
  <2>. worker' = worker /\ done' = done /\ UNCHANGED poolVars
    BY <1>5 DEF InQueue, poolVars
  <2>1. CASE Lock(t)
    <3>1. Holding' = Holding
      BY <2>1 DEF Lock, Holding
    <3>. QED  BY <2>1, <3>1, TaskInvFrame DEF Lock
  <2>2. CASE NotifyOne(t) \/ NotifyAll(t) \/ SetShutdown(t)
    <3>1. /\ \A w \in Workers : at'[w] = "out" <=> at[w] = "out"
          /\ item' = item /\ queue_' = queue_ /\ pushed' = pushed
      BY <2>2 DEF NotifyOne, NotifyAll, Notified, Waiting, At, SetShutdown, UnlockAt, TypeOK
    <3>2. Holding' = Holding
      BY <3>1 DEF Holding
    <3>. QED  BY <3>1, <3>2, TaskInvFrame
  <2>3. CASE PopWait(t)
    <3>1. at[t] = "pop" /\ at' = [at EXCEPT ![t] = "waiting"]
          /\ item' = item /\ queue_' = queue_ /\ pushed' = pushed
      BY <2>3 DEF PopWait, UnlockAt
    <3>2. Holding' = Holding
      BY <3>1 DEF Holding, TypeOK
    <3>. QED  BY <3>1, <3>2, TaskInvFrame
  <2>4. CASE PopEnd(t)
    <3>1. at[t] = "pop" /\ at' = [at EXCEPT ![t] = "out"] /\ item' = [item EXCEPT ![t] = Nothing]
          /\ queue_' = queue_ /\ pushed' = pushed
      BY <2>4 DEF PopEnd, UnlockAt
    <3>2. Holding' = Holding /\ t \notin Holding
      BY <3>1 DEF Holding, TypeOK
    <3>3. \A w \in Holding : item'[w] = item[w]
      BY <3>1, <3>2 DEF Holding
    <3>. QED  BY <3>1, <3>2, <3>3, TaskInvFrame
  <2>5. CASE Push(t)
    BY <2>5, TaskInvPush
  <2>6. CASE PopTake(t)
    BY <2>6, TaskInvTake
  <2>7. CASE TryPopFails(t) \/ TryPopTakes(t)
    BY <2>7 DEF TryPopFails, TryPopTakes, TypeOK
  <2>. QED  BY <1>5, <2>1, <2>2, <2>3, <2>4, <2>5, <2>6, <2>7 DEF InQueue, Operate
<1>6. ASSUME NEW w \in Workers, SpuriousWake(w), UNCHANGED poolVars
      PROVE  TaskInv'
  <2>1. at[w] = "waiting" /\ at' = [at EXCEPT ![w] = "pop"] /\ worker' = worker /\ item' = item
    BY <1>6 DEF SpuriousWake, poolVars
  <2>2. Holding' = Holding
    BY <2>1 DEF Holding
  <2>. QED  BY <1>6, <2>1, <2>2, TaskInvFrame DEF SpuriousWake, poolVars
<1>7. CASE UNCHANGED vars
  <2>1. Holding' = Holding
    BY <1>7 DEF vars, queueVars, poolVars, Holding
  <2>. QED  BY <1>7, <2>1, TaskInvFrame DEF vars, queueVars, poolVars
<1>. QED  BY <1>1, <1>2, <1>3, <1>4, <1>5, <1>6, <1>7, TaskInvRun DEF Next, WorkerStep, OwnerStep

LEMMA TaskInvInit == Init => TaskInv
<1>. SUFFICES ASSUME Init PROVE TaskInv
  OBVIOUS
<1>1. queue_ = << >> /\ Len(queue_) = 0 /\ pushed = 0 /\ done = {}
  BY DEF Init, QueueInit
<1>2. Holding = {}
  BY DEF Init, QueueInit, Holding
<1>3. QueueConsecutive
  BY <1>1 DEF QueueConsecutive
<1>4. HeldOnce
  BY <1>1, <1>2 DEF HeldOnce
<1>5. TasksCounted
  BY <1>1, <1>2, FS_EmptySet DEF TasksCounted
<1>. QED  BY <1>3, <1>4, <1>5 DEF TaskInv

LEMMA TaskInvHolds == Spec => [](TypeOK /\ TaskInv)
  BY PoolTypeCorrect, TaskInvInit, TaskInvStep, PTL DEF Spec

\* Whatever is submitted is in the queue, in one worker's hands or done, and nowhere twice:
\* the queue gives out its values in order, and each of them to one worker.
THEOREM TasksRunOnce == Spec => []EachTaskOnce
<1>1. TypeOK /\ TaskInv => EachTaskOnce
  <2>. SUFFICES ASSUME TypeOK, TaskInv PROVE EachTaskOnce
    OBVIOUS
  <2>. queue_ \in Seq(Nat) /\ pushed \in Nat /\ Len(queue_) \in Nat /\ Len(queue_) <= pushed
    BY DEF TypeOK, QueueTypeOK, TaskInv, QueueConsecutive
  <2>1. {queue_[i] : i \in DOMAIN queue_} = (pushed - Len(queue_) + 1)..pushed
    <3>1. \A i \in 1..Len(queue_) : queue_[i] = pushed - Len(queue_) + i
      BY DEF TaskInv, QueueConsecutive
    <3>2. ASSUME NEW n \in (pushed - Len(queue_) + 1)..pushed
          PROVE  n \in {queue_[i] : i \in DOMAIN queue_}
      <4>1. n - (pushed - Len(queue_)) \in 1..Len(queue_)
        OBVIOUS
      <4>2. queue_[n - (pushed - Len(queue_))] = n
        BY <3>1, <4>1
      <4>. QED  BY <4>1, <4>2
    <3>3. ASSUME NEW i \in DOMAIN queue_
          PROVE  queue_[i] \in (pushed - Len(queue_) + 1)..pushed
      BY <3>1
    <3>. QED  BY <3>2, <3>3
  <2>2. 1..pushed = (1..(pushed - Len(queue_))) \cup ((pushed - Len(queue_) + 1)..pushed)
    OBVIOUS
  <2>. QED  BY <2>1, <2>2 DEF TaskInv, HeldOnce, TasksCounted, EachTaskOnce
<1>. QED  BY <1>1, TaskInvHolds, PTL

(***************************************************************************)
(* The end.  Whoever has found nothing in the queue found it shut down and *)
(* empty, and so it stays: only the owner pushes, and not after that.      *)
(***************************************************************************)

FoundEnd(w) == worker[w] = "exited" \/ (worker[w] = "pop" /\ at[w] = "out" /\ item[w] = Nothing)

StopInv ==
  /\ at[Owner] \in {"push", "notify_one"} => owner = "serving"
  /\ at[Owner] \in {"shutdown", "notify_all"} => owner = "stopping"
  /\ shutdown_flag_ => owner # "serving"
  /\ \A w \in Workers : FoundEnd(w) => shutdown_flag_ /\ queue_ = << >>
  /\ owner = "joined" => \A w \in Workers : worker[w] = "exited"

LEMMA StopInvStep ==
  ASSUME TypeOK, StopInv, [Next]_vars
  PROVE  StopInv'
<1>. USE PoolThreads DEF StopInv, FoundEnd
<1>. at \in [Threads -> Places] /\ item \in [Threads -> Nat \cup {Nothing}]
     /\ worker \in [Workers -> {"loop", "pop", "running", "exited"}]
     /\ owner \in {"serving", "stopping", "joined"}
  BY DEF TypeOK, QueueTypeOK
<1>1. ASSUME NEW w \in Workers, AskTask(w)
      PROVE  StopInv'
  BY <1>1 DEF AskTask, Call
<1>2. ASSUME NEW w \in Workers, GotTask(w)
      PROVE  StopInv'
  BY <1>2 DEF GotTask, AfterPop, queueVars
<1>3. ASSUME NEW w \in Workers, RunTask(w)
      PROVE  StopInv'
  BY <1>3 DEF RunTask, queueVars
<1>4. ASSUME Submit
      PROVE  StopInv'
  BY <1>4 DEF Submit, Call, poolVars
<1>5. ASSUME Destroy
      PROVE  StopInv'
  BY <1>5 DEF Destroy, Call
<1>6. ASSUME Join
      PROVE  StopInv'
  BY <1>6 DEF Join, queueVars
<1>7. ASSUME NEW t \in Threads, InQueue(t)
      PROVE  StopInv'
  <2>. worker' = worker /\ owner' = owner
    BY <1>7 DEF InQueue, poolVars
  <2>1. CASE Lock(t)
    BY <2>1 DEF Lock
  <2>2. CASE Push(t)
    <3>1. t = Owner /\ owner = "serving"
      BY <2>2 DEF Push, TypeOK
    <3>. QED  BY <2>2, <3>1 DEF Push, UnlockAt, AfterPush
  <2>3. CASE NotifyOne(t) \/ NotifyAll(t)
    BY <2>3 DEF NotifyOne, NotifyAll, Notified, Waiting, At, TypeOK
  <2>4. CASE PopWait(t)
    BY <2>4 DEF PopWait, UnlockAt, TypeOK
  <2>5. CASE PopEnd(t)
    BY <2>5 DEF PopEnd, UnlockAt, Ended, TypeOK
  <2>6. CASE PopTake(t)
    <3>1. /\ at[t] = "pop" /\ at' = [at EXCEPT ![t] = "out"] /\ shutdown_flag_' = shutdown_flag_
          /\ item' = [item EXCEPT ![t] = Head(queue_)] /\ queue_ # << >>
          /\ queue_ \in Seq(Nat)
      BY <2>6 DEF PopTake, Take, UnlockAt, TypeOK, QueueTypeOK
    <3>2. item'[t] # Nothing
      BY <3>1, NothingIsNoItem
    <3>. QED  BY <3>1, <3>2 DEF TypeOK
  <2>7. CASE TryPopFails(t) \/ TryPopTakes(t)
    BY <2>7 DEF TryPopFails, TryPopTakes, TypeOK
  <2>8. CASE SetShutdown(t)
    BY <2>8 DEF SetShutdown, UnlockAt, TypeOK
  <2>. QED  BY <1>7, <2>1, <2>2, <2>3, <2>4, <2>5, <2>6, <2>7, <2>8 DEF InQueue, Operate
<1>8. ASSUME NEW w \in Workers, SpuriousWake(w), UNCHANGED poolVars
      PROVE  StopInv'
  BY <1>8 DEF SpuriousWake, poolVars
<1>9. CASE UNCHANGED vars
  BY <1>9 DEF vars, queueVars, poolVars
<1>. QED  BY <1>1, <1>2, <1>3, <1>4, <1>5, <1>6, <1>7, <1>8, <1>9 DEF Next, WorkerStep, OwnerStep

LEMMA StopInvHolds == Spec => []StopInv
<1>1. Init => StopInv
  BY PoolThreads DEF Init, QueueInit, StopInv, FoundEnd
<1>. QED  BY <1>1, StopInvStep, PoolTypeCorrect, PTL DEF Spec

\* ~ThreadPool returns when every worker has left its loop, each on finding the queue shut
\* down and empty: every task submitted was run to its end.
THEOREM JoinedAllDone == Spec => []JoinedMeansDone
<1>1. TypeOK /\ TaskInv /\ StopInv => JoinedMeansDone
  <2>. SUFFICES ASSUME TypeOK, TaskInv, StopInv, owner = "joined"
                PROVE  done = 1..pushed /\ \A w \in Workers : worker[w] = "exited"
    BY DEF JoinedMeansDone
  <2>1. \A w \in Workers : worker[w] = "exited"
    BY DEF StopInv
  <2>2. queue_ = << >>
    BY <2>1, PoolHasWorkers DEF StopInv, FoundEnd
  <2>3. Holding = {}
    BY <2>1 DEF Holding
  <2>4. done = 1..(pushed - 0)
    BY <2>2, <2>3 DEF TaskInv, HeldOnce
  <2>. QED  BY <2>1, <2>4 DEF TypeOK, QueueTypeOK
<1>. QED  BY <1>1, TaskInvHolds, StopInvHolds, PTL
=============================================================================
