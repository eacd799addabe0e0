--------------------------- MODULE ClosableQueue ---------------------------
(***************************************************************************)
(* What a SafeQueue promises the threads that share it: a first-in         *)
(* first-out queue each of whose operations happens at one instant, and    *)
(* which can be closed.  pop() waits while the queue is open and empty,    *)
(* and comes back with nothing only when it is closed and empty.           *)
(***************************************************************************)
EXTENDS Naturals, Sequences

CONSTANTS Threads, Nothing

VARIABLES
  queue,    \* the values in the queue, the n-th value ever pushed being n
  closed,   \* whether it has been closed
  asking,   \* the threads inside pop()
  item,     \* [thread -> what its last pop or try_pop returned]
  pushed    \* how many values were ever pushed

vars == <<queue, closed, asking, item, pushed>>

Init ==
  /\ queue = << >> /\ closed = FALSE /\ asking = {} /\ pushed = 0
  /\ item = [t \in Threads |-> Nothing]

Put ==
  /\ pushed' = pushed + 1
  /\ queue' = Append(queue, pushed')
  /\ UNCHANGED <<closed, asking, item>>

TakeFirst(t) ==
  /\ queue # << >>
  /\ item' = [item EXCEPT ![t] = Head(queue)]
  /\ queue' = Tail(queue)

Ask(t) ==
  /\ t \notin asking
  /\ asking' = asking \cup {t}
  /\ UNCHANGED <<queue, closed, item, pushed>>

Get(t) ==
  /\ t \in asking
  /\ TakeFirst(t)
  /\ asking' = asking \ {t}
  /\ UNCHANGED <<closed, pushed>>

End(t) ==
  /\ t \in asking
  /\ closed /\ queue = << >>
  /\ item' = [item EXCEPT ![t] = Nothing]
  /\ asking' = asking \ {t}
  /\ UNCHANGED <<queue, closed, pushed>>

Poll(t) ==
  /\ t \notin asking
  /\ \/ TakeFirst(t)
     \/ queue = << >> /\ item' = [item EXCEPT ![t] = Nothing] /\ UNCHANGED queue
  /\ UNCHANGED <<closed, asking, pushed>>

Close == closed' = TRUE /\ UNCHANGED <<queue, asking, item, pushed>>

Next == Put \/ Close \/ \E t \in Threads : Ask(t) \/ Get(t) \/ End(t) \/ Poll(t)

Spec == Init /\ [][Next]_vars
=============================================================================
