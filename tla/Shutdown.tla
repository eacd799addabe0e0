------------------------------ MODULE Shutdown ------------------------------
(***************************************************************************)
(* The end of main.cpp: the event loop as the owner of the thread pool,    *)
(* the signal handler that takes `running' down, and the destruction of    *)
(* what the tasks use, the pool last.                                      *)
(*                                                                         *)
(* A signal is handled in the main thread, wherever that stands: the       *)
(* kernel gives it to the first thread that takes it.  Where main() waits  *)
(* in epoll_wait it is woken with EINTR.  What a batch of events is about  *)
(* is in EventLoop; here it may submit tasks, and calls the logger.        *)
(***************************************************************************)
EXTENDS ThreadPool

CONSTANT MaxSignals   \* bound: SIGTERMs and SIGINTs sent

ASSUME MaxSignalsIsNat == MaxSignals \in Nat

VARIABLES
  point,        \* where main() stands in its loop
  running,
  ready,        \* whether epoll has an event to report
  resultsHere,  \* whether result_queue has not been destroyed
  signals,      \* how many were handled
  missed,       \* whether one was where main() does not learn of it
  batches,      \* the batches handled since the first signal
  idleAtEnd,    \* whether no task was outstanding when the loop was left
  late          \* whether a task pushed a result into the destroyed queue

flags == <<running, ready, resultsHere, signals, missed, batches, idleAtEnd, late>>
allVars == <<vars, point, flags>>

Points == {"test", "enter", "blocked", "log", "handle", "left", "stuck", "dead"}

InitAll ==
  /\ Init
  /\ point = "test" /\ running = TRUE /\ ready = FALSE
  /\ resultsHere = TRUE /\ signals = 0 /\ missed = FALSE
  /\ batches = 0 /\ idleAtEnd = FALSE /\ late = FALSE

-----------------------------------------------------------------------------
(***************************************************************************)
(* main()                                                                  *)
(***************************************************************************)

\* A slip: an endless loop.
TestNothing == "enter"
AfterTest == IF running THEN "enter" ELSE "leave"

\* The loop's test; behind it, the ends of clientMap's and result_queue's lives.
Test ==
  /\ point = "test"
  /\ IF AfterTest = "enter" THEN point' = "enter" /\ UNCHANGED <<resultsHere, idleAtEnd>>
     ELSE /\ point' = "left"
          /\ resultsHere' = FALSE
          /\ idleAtEnd' = (done = 1..pushed)
  /\ UNCHANGED <<vars, running, ready, signals, missed, batches, late>>

\* epoll_wait is called, and does not return before there is an event.
Enter ==
  /\ point = "enter"
  /\ point' = "blocked"
  /\ UNCHANGED <<vars, flags>>

\* It returns, and handling the batch begins with a call of the logger.
Return ==
  /\ point = "blocked" /\ ready
  /\ ready' = FALSE
  /\ batches' = IF running THEN 0 ELSE batches + 1
  /\ point' = "log"
  /\ UNCHANGED <<vars, running, resultsHere, signals, missed, idleAtEnd, late>>

Logged ==
  /\ point = "log"
  /\ point' = "handle"
  /\ UNCHANGED <<vars, flags>>

SubmitTask == point = "handle" /\ Submit /\ UNCHANGED <<point, flags>>

Handled ==
  /\ point = "handle" /\ at[Owner] = "out"
  /\ point' = "test"
  /\ UNCHANGED <<vars, flags>>

\* At the end of main() the pool's destructor comes after those of what was declared later.
EndOfMain == point = "left" /\ Destroy /\ UNCHANGED <<point, flags>>

InPool == point # "dead" /\ OwnerStep /\ UNCHANGED <<point, flags>>

MainStep == Test \/ Enter \/ Return \/ Logged \/ Handled \/ EndOfMain \/ InPool

-----------------------------------------------------------------------------
(***************************************************************************)
(* handle_shutdown                                                         *)
(***************************************************************************)

\* A slip: waiting again after EINTR, without the loop's test.
WaitAgain == "enter"
AfterEINTR == "test"

Interrupts == IF point = "blocked" THEN point' = AfterEINTR ELSE point' = point

\* Between the loop's test and epoll_wait the signal interrupts nothing.
Signal ==
  /\ signals < MaxSignals /\ owner # "joined"
  /\ point \notin {"log", "stuck", "dead"}
  /\ running' = FALSE
  /\ Interrupts
  /\ missed' = (missed \/ point = "enter")
  /\ signals' = signals + 1
  /\ UNCHANGED <<vars, ready, resultsHere, batches, idleAtEnd, late>>

\* The handler calls the logger, whose mutex main() may be holding.
SignalInLogger ==
  /\ signals < MaxSignals
  /\ point = "log"
  /\ point' = "stuck" /\ missed' = TRUE
  /\ signals' = signals + 1
  /\ UNCHANGED <<vars, running, ready, resultsHere, batches, idleAtEnd, late>>

-----------------------------------------------------------------------------
\* A client does something.
EventArrives ==
  /\ ~ready /\ point \notin {"left", "dead"}
  /\ ready' = TRUE
  /\ UNCHANGED <<vars, point, running, resultsHere, signals, missed, batches, idleAtEnd, late>>

\* A task ends by pushing its result and ringing the eventfd.  In a queue that is no more
\* the push may do no harm, or be the end of the process.
EndTask(w) ==
  /\ RunTask(w)
  /\ IF resultsHere THEN UNCHANGED <<point, late>>
     ELSE point' \in {point, "dead"} /\ late' = TRUE
  /\ ready' = TRUE
  /\ UNCHANGED <<running, resultsHere, signals, missed, batches, idleAtEnd>>

PoolStep(w) ==
  /\ point # "dead"
  /\ \/ EndTask(w)
     \/ (AskTask(w) \/ GotTask(w) \/ InQueue(w)) /\ UNCHANGED <<point, flags>>

Wakes(w) == point # "dead" /\ SpuriousWake(w) /\ UNCHANGED <<poolVars, point, flags>>

NextAll ==
  \/ MainStep \/ SubmitTask
  \/ Signal \/ SignalInLogger \/ EventArrives
  \/ \E w \in Workers : PoolStep(w) \/ Wakes(w)

SpecAll == InitAll /\ [][NextAll]_allVars

\* Every thread is scheduled, and no spurious wake-ups for ever; clients need not do anything.
FairSpecAll ==
  /\ SpecAll
  /\ WF_allVars(MainStep)
  /\ \A w \in Workers : WF_allVars(PoolStep(w))
  /\ <>[][\A w \in Workers : ~Wakes(w)]_allVars

-----------------------------------------------------------------------------
\* Each variable has its type; the pool is destroyed only when the loop was left, as the
\* queue of results is, and the loop is left only after a signal.
AllTypeOK ==
  /\ TypeOK
  /\ point \in Points
  /\ running \in BOOLEAN /\ ready \in BOOLEAN /\ resultsHere \in BOOLEAN
  /\ missed \in BOOLEAN /\ idleAtEnd \in BOOLEAN /\ late \in BOOLEAN
  /\ signals \in 0..MaxSignals /\ batches \in Nat
  /\ resultsHere <=> point \notin {"left", "dead"}
  /\ owner # "serving" \/ at[Owner] \in {"shutdown", "notify_all"} => ~resultsHere
  /\ ~resultsHere => ~running

\* After a signal main() does not wait for events, or is about to, unless the signal came
\* between the loop's test and epoll_wait.
WaitsOnlyIfMissed == ~running /\ point \in {"enter", "blocked"} => missed

\* After a signal the loop handles at most one more batch.
OneMoreBatch == batches <= 1

\* A server that is stopped while no task is outstanding leaves none behind that would use
\* the destroyed queue of results.
IdleEndIsClean == idleAtEnd => ~late

\* A signal ends the server with all tasks run, whether or not any client does anything
\* more: unless it was handled between the loop's test and epoll_wait, or in the logger, or
\* a task used the queue of results after its end.
StopsUnlessMissed == ~running ~> (owner = "joined" \/ missed \/ late)
=============================================================================
