----------------------------- MODULE SafeQueue -----------------------------
(***************************************************************************)
(* concurrency/safe_queue.hpp: a queue under a mutex, with a condition     *)
(* variable for the threads that wait in pop().                            *)
(*                                                                         *)
(* One action is what happens between two points where another thread can  *)
(* step in: taking the mutex, a critical section up to the release of the  *)
(* mutex (cv_.wait releases it as it starts waiting), a notification.      *)
(* The threads here are any threads, that call anything at any time; what  *)
(* a thread holds in its hands after a call is item[t].                    *)
(***************************************************************************)
EXTENDS Naturals, Sequences, FiniteSets

CONSTANTS Threads,     \* the threads that share the queue
          Free,        \* the mutex when nobody holds it
          Nothing,     \* std::nullopt, or a try_pop that returns false
          MaxPushes    \* bound: calls of push

ASSUME FreeIsNoThread == Free \notin Threads
ASSUME NothingIsNoItem == Nothing \notin Nat
ASSUME MaxPushesIsNat == MaxPushes \in Nat
ASSUME ThreadsAreFinite == IsFiniteSet(Threads)

VARIABLES
  queue_, mtx_, shutdown_flag_,
  at,       \* [thread -> where it stands in the operation it has called]
  item,     \* [thread -> what its last pop or try_pop returned]
  pushed    \* how many values were pushed: the n-th one is n

queueVars == <<queue_, mtx_, shutdown_flag_, at, item, pushed>>

Operations == {"push", "pop", "try_pop", "shutdown"}

\* Outside; about to lock, or holding the mutex, in an operation; blocked in cv_.wait;
\* or past the critical section, with a notification to make.
Places == {"out", "waiting", "notify_one", "notify_all"} \cup Operations

QueueInit ==
  /\ queue_ = << >> /\ mtx_ = Free /\ shutdown_flag_ = FALSE /\ pushed = 0
  /\ at = [t \in Threads |-> "out"]
  /\ item = [t \in Threads |-> Nothing]

At(place) == {t \in Threads : at[t] = place}
Waiting == At("waiting")

-----------------------------------------------------------------------------
\* A call; pushes are bounded.
Call(t, op) ==
  /\ at[t] = "out"
  /\ op = "push" => pushed + Cardinality(At("push")) < MaxPushes
  /\ at' = [at EXCEPT ![t] = op]
  /\ UNCHANGED <<queue_, mtx_, shutdown_flag_, item, pushed>>

Lock(t) ==
  /\ at[t] \in Operations
  /\ mtx_ = Free
  /\ mtx_' = t
  /\ UNCHANGED <<queue_, shutdown_flag_, at, item, pushed>>

\* A slip: leaving the critical section with the mutex held.
KeepHolding(t, place) ==
  /\ mtx_ = t /\ mtx_' = mtx_
  /\ at' = [at EXCEPT ![t] = place]

\* Thread t, which holds the mutex, releases it and goes on at `place'.
UnlockAt(t, place) ==
  /\ mtx_ = t /\ mtx_' = Free
  /\ at' = [at EXCEPT ![t] = place]

\* A slip: notifying only when the queue was empty.
NotifyIfWasEmpty == IF queue_ = << >> THEN "notify_one" ELSE "out"
\* A slip: not notifying at all.
NotifyNever == "out"
AfterPush == "notify_one"

Push(t) ==
  /\ at[t] = "push"
  /\ pushed' = pushed + 1
  /\ queue_' = Append(queue_, pushed')
  /\ UnlockAt(t, AfterPush)
  /\ UNCHANGED <<shutdown_flag_, item>>

\* cv_.notify_one(), outside the mutex: one of the waiting threads, if any, wakes up and
\* goes for the mutex again.
NotifyOne(t) ==
  /\ at[t] = "notify_one"
  /\ \/ Waiting = {} /\ at' = [at EXCEPT ![t] = "out"]
     \/ \E w \in Waiting : at' = [at EXCEPT ![t] = "out", ![w] = "pop"]
  /\ UNCHANGED <<queue_, mtx_, shutdown_flag_, item, pushed>>

\* A slip: front() without pop().
FrontOnly == queue_
Dequeued == Tail(queue_)

Take(t) ==
  /\ queue_ # << >>
  /\ item' = [item EXCEPT ![t] = Head(queue_)]
  /\ queue_' = Dequeued
  /\ UnlockAt(t, "out")
  /\ UNCHANGED <<shutdown_flag_, pushed>>

\* A slip: giving up at shutdown though the queue still holds something.
EndAtShutdown == shutdown_flag_
\* pop() has nothing to return, and never will.
Ended == shutdown_flag_ /\ queue_ = << >>

\* The predicate is tested under the mutex, at first and after every wake-up.
PopWait(t) ==
  /\ at[t] = "pop"
  /\ ~(shutdown_flag_ \/ queue_ # << >>)
  /\ UnlockAt(t, "waiting")
  /\ UNCHANGED <<queue_, shutdown_flag_, item, pushed>>

PopEnd(t) ==
  /\ at[t] = "pop"
  /\ Ended
  /\ item' = [item EXCEPT ![t] = Nothing]
  /\ UnlockAt(t, "out")
  /\ UNCHANGED <<queue_, shutdown_flag_, pushed>>

PopTake(t) == at[t] = "pop" /\ ~Ended /\ Take(t)

\* A condition variable may wake a thread for no reason.
SpuriousWake(t) ==
  /\ at[t] = "waiting"
  /\ at' = [at EXCEPT ![t] = "pop"]
  /\ UNCHANGED <<queue_, mtx_, shutdown_flag_, item, pushed>>

TryPopFails(t) ==
  /\ at[t] = "try_pop"
  /\ queue_ = << >>
  /\ item' = [item EXCEPT ![t] = Nothing]
  /\ UnlockAt(t, "out")
  /\ UNCHANGED <<queue_, shutdown_flag_, pushed>>

TryPopTakes(t) == at[t] = "try_pop" /\ Take(t)

SetShutdown(t) ==
  /\ at[t] = "shutdown"
  /\ shutdown_flag_' = TRUE
  /\ UnlockAt(t, "notify_all")
  /\ UNCHANGED <<queue_, item, pushed>>

\* A slip: notify_one() in shutdown.
OneWaiting == IF Waiting = {} THEN {} ELSE {CHOOSE w \in Waiting : TRUE}
Notified == Waiting

\* cv_.notify_all(): whoever waits now goes for the mutex again.
NotifyAll(t) ==
  /\ at[t] = "notify_all"
  /\ at' = [u \in Threads |-> IF u = t THEN "out" ELSE IF u \in Notified THEN "pop" ELSE at[u]]
  /\ UNCHANGED <<queue_, mtx_, shutdown_flag_, item, pushed>>

\* What thread t does inside an operation.
Operate(t) ==
  \/ Lock(t)
  \/ Push(t) \/ NotifyOne(t)
  \/ PopWait(t) \/ PopEnd(t) \/ PopTake(t)
  \/ TryPopFails(t) \/ TryPopTakes(t)
  \/ SetShutdown(t) \/ NotifyAll(t)

QueueNext ==
  \E t \in Threads : (\E op \in Operations : Call(t, op)) \/ Operate(t) \/ SpuriousWake(t)

QueueSpec == QueueInit /\ [][QueueNext]_queueVars

-----------------------------------------------------------------------------
(***************************************************************************)
(* Properties.                                                             *)
(***************************************************************************)

\* Each variable has its type, and only a thread inside an operation holds the mutex.
QueueTypeOK ==
  /\ queue_ \in Seq(Nat)
  /\ mtx_ \in Threads \cup {Free}
  /\ mtx_ # Free => at[mtx_] \in Operations
  /\ shutdown_flag_ \in BOOLEAN
  /\ at \in [Threads -> Places]
  /\ item \in [Threads -> Nat \cup {Nothing}]
  /\ pushed \in Nat

\* No wake-up is lost: while threads wait, every value in the queue has a notification
\* still to be made for it, or a thread awake that will come for it.
NoLostWakeup ==
  Waiting # {} => Len(queue_) <= Cardinality(At("notify_one")) + Cardinality(At("pop"))

\* Shutdown reaches everyone: a thread that waits although the flag is set has a
\* notify_all() coming.
ShutdownReachesAll == shutdown_flag_ /\ Waiting # {} => At("notify_all") # {}

\* With its mutex and its condition variable the queue is an atomic queue that can be
\* closed: the form in which the event loop's two queues are modelled.
Abstract == INSTANCE ClosableQueue
  WITH queue <- queue_, closed <- shutdown_flag_, asking <- At("pop") \cup Waiting
Implements == Abstract!Spec
=============================================================================
