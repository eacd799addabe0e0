----------------------------- MODULE ThreadPool -----------------------------
(***************************************************************************)
(* concurrency/thread_pool.cpp: workers that pop tasks and run them, the   *)
(* thread that owns the pool and submits, and the destructor that shuts    *)
(* the queue down and joins.  The tasks are numbered as they are pushed.   *)
(***************************************************************************)
EXTENDS SafeQueue

CONSTANTS Workers,   \* the pool's threads
          Owner      \* the thread that owns the pool: main()

ASSUME PoolThreads == Threads = Workers \cup {Owner} /\ Owner \notin Workers
ASSUME PoolHasWorkers == Workers # {}   \* COMPUTE_THREADS of main.cpp

VARIABLES
  worker,   \* [worker -> "loop", in "pop", "running" a task, or "exited"]
  owner,    \* "serving", "stopping" (in the destructor), "joined"
  done      \* the tasks that were run to their end

poolVars == <<worker, owner, done>>
vars == <<queueVars, poolVars>>

Init ==
  /\ QueueInit
  /\ worker = [w \in Workers |-> "loop"]
  /\ owner = "serving"
  /\ done = {}

\* A thread's steps inside the queue's operations.
InQueue(t) == Operate(t) /\ UNCHANGED poolVars

-----------------------------------------------------------------------------
AskTask(w) ==
  /\ worker[w] = "loop"
  /\ Call(w, "pop")
  /\ worker' = [worker EXCEPT ![w] = "pop"]
  /\ UNCHANGED <<owner, done>>

\* A slip: going on whatever pop() returned.
RunAnything(w) == "running"
AfterPop(w) == IF item[w] = Nothing THEN "exited" ELSE "running"

\* pop() has returned: a task, or nothing at the end.
GotTask(w) ==
  /\ worker[w] = "pop" /\ at[w] = "out"
  /\ worker' = [worker EXCEPT ![w] = AfterPop(w)]
  /\ UNCHANGED <<queueVars, owner, done>>

\* The task returns, or throws and is logged: the loop goes on either way.
RunTask(w) ==
  /\ worker[w] = "running"
  /\ done' = done \cup {item[w]}
  /\ worker' = [worker EXCEPT ![w] = "loop"]
  /\ UNCHANGED <<queueVars, owner>>

Submit == owner = "serving" /\ Call(Owner, "push") /\ UNCHANGED poolVars

Destroy ==
  /\ owner = "serving"
  /\ Call(Owner, "shutdown")
  /\ owner' = "stopping"
  /\ UNCHANGED <<worker, done>>

\* The last join() returns.
Join ==
  /\ owner = "stopping" /\ at[Owner] = "out"
  /\ \A w \in Workers : worker[w] = "exited"
  /\ owner' = "joined"
  /\ UNCHANGED <<queueVars, worker, done>>

WorkerStep(w) == AskTask(w) \/ GotTask(w) \/ RunTask(w) \/ InQueue(w)
OwnerStep == Join \/ InQueue(Owner)

Next ==
  \/ Submit \/ Destroy \/ OwnerStep
  \/ \E w \in Workers : WorkerStep(w) \/ (SpuriousWake(w) /\ UNCHANGED poolVars)

Spec == Init /\ [][Next]_vars

\* Every thread is scheduled, and the condition variable does not wake threads for no
\* reason for ever.
FairSpec ==
  /\ Spec
  /\ WF_vars(OwnerStep)
  /\ \A w \in Workers : WF_vars(WorkerStep(w))
  /\ <>[][\A w \in Workers : ~SpuriousWake(w)]_vars

-----------------------------------------------------------------------------
\* Each variable has its type; only workers pop, only the owner pushes and shuts down.
TypeOK ==
  /\ QueueTypeOK
  /\ worker \in [Workers -> {"loop", "pop", "running", "exited"}]
  /\ owner \in {"serving", "stopping", "joined"}
  /\ done \in SUBSET Nat
  /\ \A w \in Workers : /\ at[w] \in {"out", "pop", "waiting"}
                        /\ at[w] # "out" => worker[w] = "pop"
                        /\ worker[w] = "running" => item[w] \in Nat
  /\ at[Owner] \in {"out", "push", "notify_one", "shutdown", "notify_all"}

\* The workers that have taken a task and not finished it.
Holding == {w \in Workers : \/ worker[w] = "running"
                            \/ worker[w] = "pop" /\ at[w] = "out" /\ item[w] # Nothing}

\* Every task submitted is in the queue, in one worker's hands or done, and only once.
EachTaskOnce ==
  /\ 1..pushed = {queue_[i] : i \in DOMAIN queue_} \cup {item[w] : w \in Holding} \cup done
  /\ pushed = Len(queue_) + Cardinality(Holding) + Cardinality(done)

\* When the destructor returns, every task submitted was run and no thread is left.
JoinedMeansDone ==
  owner = "joined" => done = 1..pushed /\ \A w \in Workers : worker[w] = "exited"

\* Every task submitted is run, shutdown or not.
EveryTaskRuns == \A n \in 1..MaxPushes : (pushed >= n) ~> (n \in done)

\* The destructor returns.
PoolStops == (owner = "stopping") ~> (owner = "joined")
=============================================================================
