--------------------------- MODULE ShutdownProofs ---------------------------
(***************************************************************************)
(* Proofs about Shutdown, for any number of workers, tasks and signals:    *)
(* main() is an owner of the pool as ThreadPool knows it, so that what is  *)
(* proved of the pool holds here, and the end of main() after a signal.    *)
(***************************************************************************)
EXTENDS Shutdown, PoolProofs

LEMMA MainStepsPool == [NextAll]_allVars => [Next]_vars
<1>1. ASSUME MainStep
      PROVE  [Next]_vars
  BY <1>1 DEF MainStep, Test, Enter, Return, Logged, Handled, EndOfMain, InPool, Next, flags
<1>2. ASSUME SubmitTask
      PROVE  Next
  BY <1>2 DEF SubmitTask, Next
<1>3. ASSUME Signal \/ SignalInLogger \/ EventArrives
      PROVE  UNCHANGED vars
  BY <1>3 DEF Signal, SignalInLogger, EventArrives
<1>4. ASSUME NEW w \in Workers, PoolStep(w) \/ Wakes(w)
      PROVE  Next
  BY <1>4 DEF PoolStep, EndTask, Wakes, Next, WorkerStep
<1>. QED  BY <1>1, <1>2, <1>3, <1>4 DEF NextAll, allVars

\* The loop of main.cpp and the destruction at its end are one of the ways in which
\* ThreadPool lets its owner use it: each task is run once and none is left behind.
THEOREM MainOwnsPool == SpecAll => Spec
<1>1. InitAll => Init
  BY DEF InitAll
<1>. QED  BY <1>1, MainStepsPool, PTL DEF SpecAll, Spec

(***************************************************************************)
(* Where main() can be.                                                    *)
(***************************************************************************)

\* The owner's calls are made from two places only.
CallsFrom ==
  /\ at[Owner] \in {"push", "notify_one"} => point = "handle"
  /\ at[Owner] \in {"shutdown", "notify_all"} => point \in {"left", "dead"}

MainInv ==
  /\ CallsFrom
  /\ WaitsOnlyIfMissed
  /\ batches <= 1
  /\ running \/ point \in {"enter", "blocked"} => batches = 0

LEMMA MainTypeInit == InitAll => AllTypeOK /\ MainInv
<1>. SUFFICES ASSUME InitAll PROVE AllTypeOK /\ MainInv
  OBVIOUS
<1>1. TypeOK
  BY PoolTypeInit DEF InitAll
<1>2. at[Owner] = "out"
  BY PoolThreads DEF InitAll, Init, QueueInit
<1>3. owner = "serving"
  BY DEF InitAll, Init
<1>4. point = "test" /\ running /\ resultsHere /\ batches = 0 /\ signals = 0
  BY DEF InitAll
<1>5. /\ running \in BOOLEAN /\ ready \in BOOLEAN /\ resultsHere \in BOOLEAN
      /\ missed \in BOOLEAN /\ idleAtEnd \in BOOLEAN /\ late \in BOOLEAN
  BY DEF InitAll
<1>6. AllTypeOK
  BY <1>1, <1>2, <1>3, <1>4, <1>5, MaxSignalsIsNat DEF AllTypeOK, Points
<1>7. MainInv
  BY <1>2, <1>4 DEF MainInv, CallsFrom, WaitsOnlyIfMissed
<1>. QED  BY <1>6, <1>7

\* Where the owner stands after a step inside one of its calls.
LEMMA OwnerInCall ==
  ASSUME TypeOK, InQueue(Owner)
  PROVE  /\ owner' = owner
         /\ at'[Owner] \in {"push", "notify_one"} => at[Owner] \in {"push", "notify_one"}
         /\ at'[Owner] \in {"shutdown", "notify_all"} => at[Owner] \in {"shutdown", "notify_all"}
<1>. USE PoolThreads DEF TypeOK, QueueTypeOK
<1>1. owner' = owner
  BY DEF InQueue, poolVars
<1>2. CASE Lock(Owner)
  BY <1>1, <1>2 DEF Lock
<1>3. CASE Push(Owner) \/ NotifyOne(Owner) \/ SetShutdown(Owner) \/ NotifyAll(Owner)
  BY <1>1, <1>3 DEF Push, NotifyOne, SetShutdown, NotifyAll, UnlockAt, AfterPush, Waiting, At
<1>4. CASE PopWait(Owner) \/ PopEnd(Owner) \/ PopTake(Owner) \/ TryPopFails(Owner) \/ TryPopTakes(Owner)
  BY <1>4 DEF PopWait, PopEnd, PopTake, TryPopFails, TryPopTakes
<1>. QED  BY <1>2, <1>3, <1>4 DEF InQueue, Operate

\* A worker's steps leave the owner where it is.
LEMMA OwnerLeftAlone ==
  ASSUME TypeOK, NEW w \in Workers,
         WorkerStep(w) \/ (SpuriousWake(w) /\ UNCHANGED poolVars)
  PROVE  owner' = owner /\ at'[Owner] = at[Owner]
<1>. USE PoolThreads DEF TypeOK, QueueTypeOK
<1>1. CASE AskTask(w) \/ GotTask(w) \/ RunTask(w)
  BY <1>1 DEF AskTask, Call, GotTask, RunTask, queueVars
<1>2. CASE SpuriousWake(w) /\ UNCHANGED poolVars
  BY <1>2 DEF SpuriousWake, poolVars
<1>3. CASE InQueue(w)
  <2>. owner' = owner
    BY <1>3 DEF InQueue, poolVars
  <2>1. CASE Lock(w)
    BY <2>1 DEF Lock
  <2>2. CASE PopWait(w) \/ PopEnd(w) \/ PopTake(w)
    BY <2>2 DEF PopWait, PopEnd, PopTake, Take, UnlockAt
  <2>3. CASE Push(w) \/ NotifyOne(w) \/ TryPopFails(w) \/ TryPopTakes(w) \/ SetShutdown(w) \/ NotifyAll(w)
    BY <2>3 DEF Push, NotifyOne, TryPopFails, TryPopTakes, SetShutdown, NotifyAll
  <2>. QED  BY <1>3, <2>1, <2>2, <2>3 DEF InQueue, Operate
<1>. QED  BY <1>1, <1>2, <1>3 DEF WorkerStep

LEMMA MainTypeStep ==
  ASSUME AllTypeOK, MainInv, [NextAll]_allVars
  PROVE  AllTypeOK' /\ MainInv'
<1>1. TypeOK'
  BY MainStepsPool, PoolTypeStep DEF AllTypeOK
<1>. USE <1>1, MaxSignalsIsNat DEF AllTypeOK, MainInv, CallsFrom, WaitsOnlyIfMissed, Points
<1>. at \in [Threads -> Places] /\ Owner \in Threads
  BY PoolThreads DEF TypeOK, QueueTypeOK
<1>2. CASE Test
  BY <1>2 DEF Test, AfterTest, vars, queueVars, poolVars
<1>3. CASE Enter \/ Logged
  BY <1>3 DEF Enter, Logged, vars, queueVars, poolVars, flags
<1>4. CASE Return
  <2>1. at' = at /\ owner' = owner /\ point = "blocked" /\ point' = "log" /\ batches = 0
    BY <1>4 DEF Return, vars, queueVars, poolVars
  <2>2. running' = running /\ missed' = missed /\ batches' \in 0..1 /\ (running => batches' = 0)
    BY <1>4, <2>1 DEF Return
  <2>3. ready' \in BOOLEAN /\ UNCHANGED <<resultsHere, signals, idleAtEnd, late>>
    BY <1>4 DEF Return
  <2>4. AllTypeOK'
    BY <2>1, <2>2, <2>3
  <2>. QED  BY <2>1, <2>2, <2>4
<1>5. CASE Handled
  BY <1>5 DEF Handled, vars, queueVars, poolVars, flags
<1>6. CASE SubmitTask
  BY <1>6 DEF SubmitTask, Submit, Call, poolVars, flags
<1>7. CASE EndOfMain
  BY <1>7 DEF EndOfMain, Destroy, Call, flags
<1>8. CASE InPool /\ Join
  BY <1>8 DEF InPool, Join, queueVars, flags
<1>9. CASE InPool /\ InQueue(Owner)
  BY <1>9, OwnerInCall DEF InPool, flags
<1>10. CASE Signal
  <2>1. /\ at' = at /\ owner' = owner /\ batches' = batches /\ running' = FALSE
        /\ point' = (IF point = "blocked" THEN "test" ELSE point)
        /\ missed' = (missed \/ point = "enter") /\ signals' = signals + 1 /\ signals < MaxSignals
        /\ UNCHANGED <<ready, resultsHere, idleAtEnd, late>>
    BY <1>10 DEF Signal, Interrupts, AfterEINTR, vars, queueVars, poolVars
  <2>2. missed' \in BOOLEAN
    BY <2>1
  <2>3. AllTypeOK'
    <3>1. running' \in BOOLEAN /\ ~running'
      BY <2>1
    <3>2. signals' \in 0..MaxSignals
      <4>1. signals \in 0..MaxSignals /\ signals < MaxSignals /\ signals' = signals + 1
        BY <2>1 DEF AllTypeOK
      <4>. QED  BY <4>1, MaxSignalsIsNat
    <3>3. point' \in Points /\ (point' \in {"left", "dead"} <=> point \in {"left", "dead"})
      BY <2>1
    <3>. QED  BY <2>1, <2>2, <3>1, <3>2, <3>3
  <2>4. CallsFrom' /\ WaitsOnlyIfMissed'
    BY <2>1
  <2>5. batches' <= 1 /\ (running' \/ point' \in {"enter", "blocked"} => batches' = 0)
    BY <2>1
  <2>. QED  BY <2>3, <2>4, <2>5
<1>11. CASE SignalInLogger
  BY <1>11 DEF SignalInLogger, vars, queueVars, poolVars
<1>12. CASE EventArrives
  BY <1>12 DEF EventArrives, vars, queueVars, poolVars
<1>13. ASSUME NEW w \in Workers, PoolStep(w), EndTask(w)
       PROVE  AllTypeOK' /\ MainInv'
  BY <1>13, OwnerLeftAlone DEF EndTask, WorkerStep
<1>14. ASSUME NEW w \in Workers, AskTask(w) \/ GotTask(w) \/ InQueue(w) \/ (SpuriousWake(w) /\ UNCHANGED poolVars),
              UNCHANGED <<point, flags>>
       PROVE  AllTypeOK' /\ MainInv'
  BY <1>14, OwnerLeftAlone DEF WorkerStep, flags
<1>15. CASE UNCHANGED allVars
  BY <1>15 DEF allVars, vars, queueVars, poolVars, flags
<1>. QED  BY <1>2, <1>3, <1>4, <1>5, <1>6, <1>7, <1>8, <1>9, <1>10, <1>11, <1>12, <1>13, <1>14, <1>15
          DEF NextAll, MainStep, InPool, OwnerStep, PoolStep, Wakes

LEMMA MainInvHolds == SpecAll => [](AllTypeOK /\ MainInv)
  BY MainTypeInit, MainTypeStep, PTL DEF SpecAll

\* main() destroys the queue of results and then the pool, after a signal and not before.
THEOREM AllTypeCorrect == SpecAll => []AllTypeOK
  BY MainInvHolds, PTL

\* After a signal main() is before epoll_wait or in it only if the signal came between the
\* loop's test and the call.
THEOREM WaitsNoMore == SpecAll => []WaitsOnlyIfMissed
<1>1. MainInv => WaitsOnlyIfMissed
  BY DEF MainInv
<1>. QED  BY <1>1, MainInvHolds, PTL

\* The loop handles at most one batch after a signal, the one it was in or the one that
\* ends a wait the signal missed.
THEOREM AtMostOneBatch == SpecAll => []OneMoreBatch
<1>1. MainInv => OneMoreBatch
  BY DEF MainInv, OneMoreBatch
<1>. QED  BY <1>1, MainInvHolds, PTL

(***************************************************************************)
(* The queue of results.                                                   *)
(***************************************************************************)

IdleInv ==
  /\ late => ~resultsHere
  /\ idleAtEnd => ~resultsHere /\ ~late /\ done = 1..pushed

LEMMA IdleStep ==
  ASSUME AllTypeOK, MainInv, TaskInv, IdleInv, [NextAll]_allVars
  PROVE  IdleInv'
<1>. USE DEF IdleInv
<1>. TypeOK /\ queue_ \in Seq(Nat) /\ pushed \in Nat
  BY DEF AllTypeOK, TypeOK, QueueTypeOK
<1>1. CASE Test
  BY <1>1 DEF Test, AfterTest, AllTypeOK, vars, queueVars, poolVars
<1>2. CASE Enter \/ Return \/ Logged \/ Handled \/ Signal \/ SignalInLogger \/ EventArrives
  BY <1>2 DEF Enter, Return, Logged, Handled, Signal, SignalInLogger, EventArrives,
              flags, vars, queueVars, poolVars
<1>3. CASE SubmitTask \/ EndOfMain \/ (InPool /\ Join)
  BY <1>3 DEF SubmitTask, Submit, EndOfMain, Destroy, Call, InPool, Join, flags, queueVars, poolVars
<1>4. ASSUME NEW t \in Threads, InQueue(t), UNCHANGED <<point, flags>>
      PROVE  IdleInv'
  <2>1. CASE Push(t)
    <3>1. t = Owner /\ resultsHere
      BY <2>1, PoolThreads DEF Push, AllTypeOK, TypeOK, MainInv, CallsFrom
    <3>. QED  BY <1>4, <3>1 DEF flags
  <2>2. CASE ~Push(t)
    <3>1. pushed' = pushed /\ done' = done
      BY <1>4, <2>2 DEF InQueue, poolVars, Operate, Lock, NotifyOne, PopWait, PopEnd, PopTake, Take,
         TryPopFails, TryPopTakes, SetShutdown, NotifyAll
    <3>. QED  BY <1>4, <3>1 DEF flags
  <2>. QED  BY <2>1, <2>2
<1>5. ASSUME NEW w \in Workers, EndTask(w)
      PROVE  IdleInv'
  <2>1. ~idleAtEnd
    <3>1. w \in Holding /\ item[w] \notin done
      BY <1>5 DEF EndTask, RunTask, Holding, TaskInv, HeldOnce
    <3>2. item[w] \in 1..pushed
      BY <3>1 DEF TaskInv, HeldOnce, QueueConsecutive
    <3>. QED  BY <3>1, <3>2
  <2>. QED  BY <1>5, <2>1 DEF EndTask
<1>6. ASSUME NEW w \in Workers, AskTask(w) \/ GotTask(w), UNCHANGED <<point, flags>>
      PROVE  IdleInv'
  BY <1>6 DEF AskTask, Call, GotTask, queueVars, flags
<1>7. ASSUME NEW w \in Workers, Wakes(w)
      PROVE  IdleInv'
  BY <1>7 DEF Wakes, SpuriousWake, poolVars, flags
<1>8. CASE UNCHANGED allVars
  BY <1>8 DEF allVars, vars, queueVars, poolVars, flags
<1>. QED  BY <1>1, <1>2, <1>3, <1>4, <1>5, <1>6, <1>7, <1>8, PoolThreads
          DEF NextAll, MainStep, InPool, OwnerStep, PoolStep

\* When no task is outstanding as the loop is left, nobody uses the queue of results
\* after it was destroyed: no task can start any more.
THEOREM IdleEndClean == SpecAll => []IdleEndIsClean
<1>1. InitAll => IdleInv
  BY DEF InitAll, IdleInv
<1>2. IdleInv => IdleEndIsClean
  BY DEF IdleInv, IdleEndIsClean
<1>3. SpecAll => [](AllTypeOK /\ MainInv /\ TaskInv)
  BY MainInvHolds, MainOwnsPool, TaskInvHolds, PTL
<1>. QED  BY <1>1, <1>2, <1>3, IdleStep, PTL DEF SpecAll
=============================================================================
