----------------------------- MODULE EventLoop -----------------------------
(***************************************************************************)
(* The media server of main.cpp: one thread that runs an edge-triggered    *)
(* epoll loop over the listening socket, an eventfd and the client         *)
(* sockets; a pool of compute threads; the queue of jobs towards the pool  *)
(* and the queue of results back, with the eventfd as its doorbell; and,   *)
(* around it, the kernel's sockets and the clients.                        *)
(*                                                                         *)
(* The event loop is a program with a control point pc.  One action is one *)
(* turn of one of its loops: everything between two points where another   *)
(* thread, the kernel or a client can make a difference.  Both SafeQueues  *)
(* are used as atomic FIFO queues here.                                    *)
(***************************************************************************)
EXTENDS Network

CONSTANTS Workers,     \* the compute threads (COMPUTE_THREADS of them)
          MaxEvents    \* MAX_EVENTS, what one epoll_wait returns at most

ASSUME MaxEventsPositive == MaxEvents \in Nat \ {0}

VARIABLES
  pc,          \* where main() stands
  cur,         \* the descriptor of the client event being handled, or Nil
  curOut,      \* whether that event has EPOLLOUT
  batch,       \* [source -> events returned by epoll_wait and not yet handled]
  clientMap,   \* [descriptor -> connection]: clientMap; id 0 where there is none
  nextConnId,  \* TCPServer::next_conn_id_
  jobs,        \* the thread pool's queue
  stage,       \* [worker -> "idle", "busy" with a task, or about to "signal"]
  task,        \* [worker -> the job it runs]
  results      \* result_queue

loopVars   == <<pc, cur, curOut, batch>>
curVars    == <<cur, curOut>>
poolVars   == <<jobs, stage, task>>
serverVars == <<clientMap, nextConnId, poolVars, results>>
vars == <<loopVars, serverVars, networkVars>>

Points == {"wait", "dispatch", "accept", "drain", "pop", "recv", "send", "flush", "dead"}

\* What a POST's lambda captures of its connection, and the result it posts.
Jobs == [fd : Fds, conn : Nat, of : RequestIds, kind : Kinds]
NoJob == [fd |-> Nil, conn |-> 0, of |-> Nobody, kind |-> "post"]
ComputeResults == [fd : Fds, conn : Nat, of : RequestIds]

\* A TCPConnection.  Identifiers start at 1, so that 0 marks an absent entry.
Connections == [id : Nat, request : Parsers, response : Responses]
NoConnection == [id |-> 0, request |-> ResetParser, response |-> EmptyResponse]
NewConnection(id) == [NoConnection EXCEPT !.id = id]

Present(f) == clientMap[f].id # 0

Init ==
  /\ pc = "wait" /\ cur = Nil /\ curOut = FALSE
  /\ batch = [s \in Sources |-> {}]
  /\ clientMap = [f \in Fds |-> NoConnection]
  /\ nextConnId = 1
  /\ jobs = << >> /\ results = << >>
  /\ stage = [w \in Workers |-> "idle"]
  /\ task = [w \in Workers |-> NoJob]
  /\ NetworkInit

-----------------------------------------------------------------------------
ReadInterest == {"IN"}
\* A slip: forgetting EPOLLOUT when a response is loaded.
WriteInterestInOnly == {"IN"}
WriteInterest == {"IN", "OUT"}

\* A slip: the socket is closed and its entry stays in the map.
CloseWithoutErase(f, c) ==
  /\ interest' = [interest EXCEPT ![f] = {}]
  /\ ready' = ready \ {f}
  /\ sock' = [sock EXCEPT ![f] = Nil]
  /\ phase' = [phase EXCEPT ![c] = "over"]
  /\ inbox' = [inbox EXCEPT ![c] = << >>]
  /\ UNCHANGED clientMap

(***************************************************************************)
(* epoll_ctl(DEL) and clientMap.erase, whose destructor closes the socket: *)
(* the descriptor is free again, and unread data is gone.                  *)
(***************************************************************************)
Drop(f, c) ==
  /\ clientMap' = [clientMap EXCEPT ![f] = NoConnection]
  /\ interest' = [interest EXCEPT ![f] = {}]
  /\ ready' = ready \ {f}
  /\ sock' = [sock EXCEPT ![f] = Nil]
  /\ phase' = [phase EXCEPT ![c] = "over"]
  /\ inbox' = [inbox EXCEPT ![c] = << >>]

-----------------------------------------------------------------------------
(***************************************************************************)
(* main(): waiting and dispatching.                                        *)
(***************************************************************************)

\* epoll_wait: what is ready leaves the list, MAX_EVENTS of it at most.
Wait ==
  /\ pc = "wait"
  /\ \E taken \in SUBSET ready :
       /\ taken # {}
       /\ Cardinality(taken) <= MaxEvents
       /\ taken = ready \/ Cardinality(taken) = MaxEvents
       /\ batch' = [s \in Sources |-> IF s \in taken THEN Revents(s) ELSE {}]
       /\ ready' = ready \ taken
  /\ pc' = "dispatch"
  /\ UNCHANGED <<curVars, serverVars, sock, interest, efdCount, tcpVars, clientVars,
                 faults>>

\* The next event of the batch, in whatever order the kernel listed them.
Dispatch ==
  /\ pc = "dispatch"
  /\ \E s \in Sources :
       /\ batch[s] # {}
       /\ batch' = [batch EXCEPT ![s] = {}]
       /\ IF s = serverFd THEN pc' = "accept" /\ UNCHANGED curVars
          ELSE IF s = efd THEN pc' = "drain" /\ UNCHANGED curVars
          ELSE /\ pc' = IF "IN" \in batch[s] THEN "recv" ELSE "send"
               /\ cur' = s
               /\ curOut' = ("OUT" \in batch[s])
  /\ UNCHANGED <<serverVars, networkVars>>

\* The for loop over the batch ends.
BatchDone ==
  /\ pc = "dispatch"
  /\ \A s \in Sources : batch[s] = {}
  /\ pc' = "wait"
  /\ UNCHANGED <<curVars, batch, serverVars, networkVars>>

-----------------------------------------------------------------------------
(***************************************************************************)
(* main(): an event of the listening socket.                               *)
(***************************************************************************)
FreeFds == {f \in Fds : sock[f] = Nil}

\* A slip: one accept() per event, under an edge-triggered registration.
AfterAcceptOnce == "dispatch"
AfterAccept == "accept"

\* accept_conn, epoll_ctl(ADD) and clientMap.emplace, the descriptor being free.
Accept ==
  /\ pc = "accept"
  /\ \E c \in Backlog, f \in FreeFds :
       /\ sock' = [sock EXCEPT ![f] = c]
       /\ phase' = [phase EXCEPT ![c] = "open"]
       /\ clientMap' = [clientMap EXCEPT ![f] = NewConnection(nextConnId)]
       /\ Rearm(f, c, ReadInterest, inbox[c])
  /\ nextConnId' = nextConnId + 1
  /\ pc' = AfterAccept
  /\ UNCHANGED <<curVars, batch, poolVars, results, efdCount, peer, inbox, outbox,
                 clientVars, faults>>

\* epoll_ctl(ADD) fails: the accepted connection is closed, its identifier spent.
AcceptNotAdded ==
  /\ pc = "accept"
  /\ FreeFds # {}
  /\ \E c \in Backlog :
       /\ phase' = [phase EXCEPT ![c] = "over"]
       /\ inbox' = [inbox EXCEPT ![c] = << >>]
  /\ nextConnId' = nextConnId + 1
  /\ Fault
  /\ UNCHANGED <<loopVars, clientMap, poolVars, results, sock, epollVars, efdCount,
                 peer, outbox, clientVars>>

\* accept() says EAGAIN.
AcceptDone ==
  /\ pc = "accept"
  /\ Backlog = {}
  /\ pc' = "dispatch"
  /\ UNCHANGED <<curVars, batch, serverVars, networkVars>>

\* accept() fails for want of a descriptor: accept_conn throws, nothing catches it.
AcceptThrows ==
  /\ pc = "accept"
  /\ Backlog # {}
  /\ FreeFds = {}
  /\ pc' = "dead"
  /\ UNCHANGED <<curVars, batch, serverVars, networkVars>>

-----------------------------------------------------------------------------
(***************************************************************************)
(* main(): an event of the eventfd.                                        *)
(***************************************************************************)

\* The counter is read until EAGAIN, before the results are taken.
DrainEventFd ==
  /\ pc = "drain"
  /\ efdCount' = 0
  /\ pc' = "pop"
  /\ UNCHANGED <<curVars, batch, serverVars, sock, epollVars, tcpVars, clientVars,
                 faults>>

\* A slip: taking the descriptor for the connection, though descriptors are reused.
StaleByFd(cr) == ~Present(cr.fd)
\* No connection on the descriptor, or one that is not the job's.
Stale(cr) == ~Present(cr.fd) \/ clientMap[cr.fd].id # cr.conn

\* A slip: `if' for `while': one result per event of the eventfd.
AfterPopOnce == "dispatch"
AfterPop == "pop"

DropStaleResult ==
  /\ pc = "pop"
  /\ results # << >>
  /\ Stale(Head(results))
  /\ results' = Tail(results)
  /\ pc' = AfterPop
  /\ UNCHANGED <<curVars, batch, clientMap, nextConnId, poolVars, networkVars>>

LoadResult ==
  /\ pc = "pop"
  /\ results # << >>
  /\ LET cr == Head(results)
         c  == sock[cr.fd]
     IN  /\ ~Stale(cr)
         /\ clientMap' = [clientMap EXCEPT ![cr.fd].response = Load(@, 200, cr.of)]
         /\ Rearm(cr.fd, c, WriteInterest, inbox[c])
  /\ results' = Tail(results)
  /\ pc' = AfterPop
  /\ UNCHANGED <<curVars, batch, nextConnId, poolVars, sock, efdCount, tcpVars,
                 clientVars, faults>>

\* epoll_ctl(MOD) fails: the connection is dropped, with the result it asked for.
LoadResultNotArmed ==
  /\ pc = "pop"
  /\ results # << >>
  /\ LET cr == Head(results)
     IN  ~Stale(cr) /\ Drop(cr.fd, sock[cr.fd])
  /\ results' = Tail(results)
  /\ pc' = AfterPop
  /\ Fault
  /\ UNCHANGED <<curVars, batch, nextConnId, poolVars, efdCount, peer, outbox,
                 clientVars>>

\* try_pop finds the queue empty.
PopDone ==
  /\ pc = "pop"
  /\ results = << >>
  /\ pc' = "dispatch"
  /\ UNCHANGED <<curVars, batch, serverVars, networkVars>>

-----------------------------------------------------------------------------
(***************************************************************************)
(* main(): EPOLLIN on a client's descriptor.  The descriptor of the event  *)
(* may have been closed since epoll_wait, by the eventfd's handler, and    *)
(* may even be open again on a client accepted since.  An open descriptor  *)
(* is always in clientMap (FdsOwned), so that the branch for one that is   *)
(* not there has no action.                                                *)
(***************************************************************************)

\* Leave this event, for the next one.
NextEvent == pc' = "dispatch" /\ cur' = Nil /\ curOut' = FALSE

\* A slip: forgetting the event before its EPOLLOUT half.
LeaveEvent ==
  pc' = (IF curOut THEN "send" ELSE "dispatch") /\ cur' = Nil /\ curOut' = FALSE
\* Go on to the EPOLLOUT half of this event, if it has one.
LeaveRecv ==
  IF curOut THEN pc' = "send" /\ UNCHANGED curVars ELSE NextEvent

\* recv() on a descriptor closed since: EBADF, and nothing left to erase.
RecvBadFd ==
  /\ pc = "recv"
  /\ sock[cur] = Nil
  /\ NextEvent
  /\ UNCHANGED <<batch, serverVars, networkVars>>

\* recv() returns 0, or an error other than EAGAIN: the connection is dropped.
RecvGone ==
  /\ pc = "recv"
  /\ LET c == sock[cur]
     IN  /\ c # Nil
         /\ inbox[c] = << >> /\ peer[c] # "open"
         /\ Drop(cur, c)
  /\ NextEvent
  /\ UNCHANGED <<batch, nextConnId, poolVars, results, efdCount, peer, outbox,
                 clientVars, faults>>

\* recv() says EAGAIN: the socket is drained.
RecvDrained ==
  /\ pc = "recv"
  /\ sock[cur] # Nil
  /\ ~Readable(sock[cur], inbox[sock[cur]])
  /\ LeaveRecv
  /\ UNCHANGED <<batch, serverVars, networkVars>>

\* A slip: leaving the recv loop after a request, though the socket is not drained.
LeaveAfterRequest == LeaveRecv
\* After a request is served the loop goes on to the next recv().
AfterRequest == UNCHANGED <<curVars, pc>>

Consume(c, rest) == inbox' = [inbox EXCEPT ![c] = rest]

\* The parser wants more, or is stuck on a complete request main() does not serve.
KeepReading(f, c, r, rest) ==
  /\ r.state # "ERROR_STATE"
  /\ r.state # "COMPLETE" \/ r.method = "other"
  /\ clientMap' = [clientMap EXCEPT ![f].request = r]
  /\ Consume(c, rest)
  /\ UNCHANGED <<curVars, pc, jobs, sock, epollVars, phase, faults>>

\* The parser gives up: a 400 is loaded, and the loop left without draining the socket.
BadRequest(f, c, r, rest) ==
  /\ r.state = "ERROR_STATE"
  /\ clientMap' = [clientMap EXCEPT ![f].response = Load(@, 400, Nobody),
                                    ![f].request = ResetParser]
  /\ Rearm(f, c, WriteInterest, rest)
  /\ Consume(c, rest)
  /\ LeaveRecv
  /\ UNCHANGED <<jobs, sock, phase, faults>>

\* A preflight is complete: a 204 is loaded, and reading goes on.
Preflight(f, c, r, rest) ==
  /\ r.state = "COMPLETE" /\ r.method = "OPTIONS"
  /\ clientMap' = [clientMap EXCEPT ![f].response = Load(@, 204, Nobody),
                                    ![f].request = ResetParser]
  /\ Rearm(f, c, WriteInterest, rest)
  /\ Consume(c, rest)
  /\ AfterRequest
  /\ UNCHANGED <<jobs, sock, phase, faults>>

\* epoll_ctl(MOD) fails for a 400 or a 204: the connection is dropped.
ReplyNotArmed(f, c, r) ==
  /\ \/ r.state = "ERROR_STATE"
     \/ r.state = "COMPLETE" /\ r.method = "OPTIONS"
  /\ Drop(f, c)
  /\ NextEvent
  /\ Fault
  /\ UNCHANGED jobs

\* A slip: the job carries the server's next identifier, not its connection's.
JobWithNextId(f, r) ==
  [fd |-> f, conn |-> nextConnId, of |-> r.head.of, kind |-> r.head.kind]
\* The lambda's captures: descriptor and identifier by value, the request's bytes moved.
JobOf(f, r) == [fd |-> f, conn |-> clientMap[f].id, of |-> r.head.of, kind |-> r.head.kind]

\* A POST is complete: its job is submitted, and reading goes on.
Submit(f, c, r, rest) ==
  /\ r.state = "COMPLETE" /\ r.method = "POST"
  /\ jobs' = Append(jobs, JobOf(f, r))
  /\ clientMap' = [clientMap EXCEPT ![f].request = ResetParser]
  /\ Consume(c, rest)
  /\ AfterRequest
  /\ UNCHANGED <<sock, epollVars, phase, faults>>

\* What main() does with the parser as feed() left it.
Serve(f, c, r, rest) ==
  \/ KeepReading(f, c, r, rest)
  \/ BadRequest(f, c, r, rest)
  \/ Preflight(f, c, r, rest)
  \/ ReplyNotArmed(f, c, r)
  \/ Submit(f, c, r, rest)

\* recv() returns the first k unread tokens, and feed() parses them.
RecvData ==
  /\ pc = "recv"
  /\ LET c == sock[cur]
     IN  /\ c # Nil
         /\ \E k \in 1..Len(inbox[c]) :
              \E r \in Feed(clientMap[cur].request, SubSeq(inbox[c], 1, k)) :
                Serve(cur, c, r, SubSeq(inbox[c], k + 1, Len(inbox[c])))
  /\ UNCHANGED <<batch, nextConnId, stage, task, results, efdCount, peer, outbox,
                 clientVars>>

-----------------------------------------------------------------------------
(***************************************************************************)
(* main(): EPOLLOUT on a client's descriptor: turns of write_some's loop.  *)
(***************************************************************************)

\* The descriptor is not in clientMap any more: epoll_ctl(DEL) fails, and that is all.
SendAbsent ==
  /\ pc = "send"
  /\ ~Present(cur)
  /\ NextEvent
  /\ UNCHANGED <<batch, serverVars, networkVars>>

\* After the headers of a response without a body, a send() of nothing follows.
AfterUnit(r) == IF r.status = 204 THEN "flush" ELSE "send"

\* send() takes a unit.
SendUnit ==
  /\ pc = "send"
  /\ Present(cur)
  /\ LET c == sock[cur]
         r == clientMap[cur].response
     IN  /\ ~FullySent(r)
         /\ peer[c] \in {"open", "fin"}
         /\ Len(outbox[c]) < SndBuf
         /\ outbox' = [outbox EXCEPT ![c] = Append(@, NextUnit(r))]
         /\ clientMap' = [clientMap EXCEPT ![cur].response.sent = @ + 1]
         /\ pc' = AfterUnit(r)
  /\ UNCHANGED <<curVars, batch, nextConnId, poolVars, results, sock, epollVars, efdCount,
                 phase, peer, inbox, clientVars, faults>>

\* send() says EAGAIN: write_some returns false, EPOLLOUT stays in the interest.
SendBlocked ==
  /\ pc = "send"
  /\ Present(cur)
  /\ ~FullySent(clientMap[cur].response)
  /\ ~Writable(sock[cur])
  /\ NextEvent
  /\ UNCHANGED <<batch, serverVars, networkVars>>

\* The send() of nothing has nothing to complain of.
SendNothing ==
  /\ pc = "flush"
  /\ peer[sock[cur]] \in {"open", "fin"}
  /\ pc' = "send"
  /\ UNCHANGED <<curVars, batch, serverVars, networkVars>>

\* Everything is sent: the response is reset and EPOLLOUT taken out of the interest.
SendDone ==
  /\ pc = "send"
  /\ Present(cur)
  /\ LET c == sock[cur]
         r == clientMap[cur].response
     IN  /\ FullySent(r)
         /\ clientMap' = [clientMap EXCEPT ![cur].response = Reset(r)]
         /\ Rearm(cur, c, ReadInterest, inbox[c])
  /\ NextEvent
  /\ UNCHANGED <<batch, nextConnId, poolVars, results, sock, efdCount, tcpVars,
                 clientVars, faults>>

\* epoll_ctl(MOD) fails after the last byte: the connection is dropped.
SendDoneNotArmed ==
  /\ pc = "send"
  /\ Present(cur)
  /\ FullySent(clientMap[cur].response)
  /\ Drop(cur, sock[cur])
  /\ NextEvent
  /\ Fault
  /\ UNCHANGED <<batch, nextConnId, poolVars, results, efdCount, peer, outbox,
                 clientVars>>

\* write_some is about to call send().
SendDue ==
  /\ pc \in {"send", "flush"}
  /\ Present(cur)
  /\ pc = "send" => ~FullySent(clientMap[cur].response)

\* send() fails on a reset connection: write_some throws, the connection is dropped.
SendThrows ==
  /\ SendDue
  /\ peer[sock[cur]] = "rst"
  /\ Drop(cur, sock[cur])
  /\ NextEvent
  /\ UNCHANGED <<batch, nextConnId, poolVars, results, efdCount, peer, outbox,
                 clientVars, faults>>

(***************************************************************************)
(* send() on a connection its peer has closed and then reset: EPIPE comes  *)
(* with SIGPIPE, which nothing masks or ignores, and the process ends.     *)
(***************************************************************************)
SendKills ==
  /\ SendDue
  /\ peer[sock[cur]] = "pipe"
  /\ pc' = "dead"
  /\ UNCHANGED <<curVars, batch, serverVars, networkVars>>

-----------------------------------------------------------------------------
(***************************************************************************)
(* The compute threads.                                                    *)
(***************************************************************************)
Alive == pc # "dead"

\* queue_.pop().
TakeJob(w) ==
  /\ Alive
  /\ stage[w] = "idle"
  /\ jobs # << >>
  /\ jobs' = Tail(jobs)
  /\ task' = [task EXCEPT ![w] = Head(jobs)]
  /\ stage' = [stage EXCEPT ![w] = "busy"]
  /\ UNCHANGED <<loopVars, clientMap, nextConnId, results, networkVars>>

\* The pipeline is run and its result pushed.
PushResult(w) ==
  /\ Alive
  /\ stage[w] = "busy"
  /\ task[w].kind = "post"
  /\ results' = Append(results, [fd |-> task[w].fd, conn |-> task[w].conn,
                                 of |-> task[w].of])
  /\ stage' = [stage EXCEPT ![w] = "signal"]
  /\ UNCHANGED <<loopVars, clientMap, nextConnId, jobs, task, networkVars>>

\* The task throws: the worker logs it and goes on, and nothing is pushed.
TaskThrows(w) ==
  /\ Alive
  /\ stage[w] = "busy"
  /\ task[w].kind = "throws"
  /\ stage' = [stage EXCEPT ![w] = "idle"]
  /\ task' = [task EXCEPT ![w] = NoJob]
  /\ UNCHANGED <<loopVars, clientMap, nextConnId, jobs, results, networkVars>>

\* write(efd): every write is an edge.
SignalResult(w) ==
  /\ Alive
  /\ stage[w] = "signal"
  /\ efdCount' = efdCount + 1
  /\ ready' = ready \cup {efd}
  /\ stage' = [stage EXCEPT ![w] = "idle"]
  /\ task' = [task EXCEPT ![w] = NoJob]
  /\ UNCHANGED <<loopVars, clientMap, nextConnId, jobs, results, sock, interest,
                 tcpVars, clientVars, faults>>

-----------------------------------------------------------------------------
MainStep ==
  \/ Wait \/ Dispatch \/ BatchDone
  \/ Accept \/ AcceptNotAdded \/ AcceptDone \/ AcceptThrows
  \/ DrainEventFd \/ DropStaleResult \/ LoadResult \/ LoadResultNotArmed \/ PopDone
  \/ RecvBadFd \/ RecvGone \/ RecvDrained \/ RecvData
  \/ SendAbsent \/ SendUnit \/ SendNothing \/ SendBlocked \/ SendDone
  \/ SendDoneNotArmed \/ SendThrows \/ SendKills

WorkerStep(w) == TakeJob(w) \/ PushResult(w) \/ TaskThrows(w) \/ SignalResult(w)

\* What no client changes.
ServerIdle == UNCHANGED <<loopVars, serverVars, sock, interest, efdCount, faults>>

Next ==
  \/ MainStep
  \/ \E w \in Workers : WorkerStep(w)
  \/ \E c \in Clients : ClientStep(c) /\ ServerIdle

Spec == Init /\ [][Next]_vars

(***************************************************************************)
(* Fairness: every thread of the server is scheduled, and a client that is *)
(* there sends the requests it means to send and takes what has come.      *)
(***************************************************************************)
Fairness ==
  /\ WF_vars(MainStep)
  /\ \A w \in Workers : WF_vars(WorkerStep(w))
  /\ \A c \in Clients : /\ WF_vars((SendHead(c) \/ SendBody(c)) /\ ServerIdle)
                        /\ WF_vars(Receive(c) /\ ServerIdle)

FairSpec == Spec /\ Fairness

-----------------------------------------------------------------------------
(***************************************************************************)
(* Properties.                                                             *)
(***************************************************************************)

LoopTypeOK ==
  /\ pc \in Points
  /\ cur \in Fds \cup {Nil} /\ curOut \in BOOLEAN
  /\ pc \in {"recv", "send", "flush"} => cur \in Fds
  /\ batch \in [Sources -> SUBSET Events]

MapTypeOK ==
  /\ clientMap \in [Fds -> Connections]
  /\ nextConnId \in Nat \ {0}

PoolTypeOK ==
  /\ jobs \in Seq(Jobs)
  /\ stage \in [Workers -> {"idle", "busy", "signal"}]
  /\ task \in [Workers -> Jobs \cup {NoJob}]
  /\ \A w \in Workers : stage[w] # "idle" => task[w] \in Jobs

\* Every variable has the type its declaration says; the descriptor of a client
\* event is there while the event is handled, and a worker that works has its job.
TypeOK ==
  /\ LoopTypeOK /\ MapTypeOK /\ PoolTypeOK
  /\ results \in Seq(ComputeResults)
  /\ NetworkTypeOK

\* A descriptor is open exactly while it has an entry in clientMap and exactly while it
\* is registered with epoll, and no two descriptors are open on one connection: nothing
\* leaks, and "absent from clientMap" (main.cpp:166) cannot happen on an open one.
FdsOwned ==
  /\ \A f \in Fds : /\ sock[f] # Nil <=> Present(f)
                    /\ sock[f] # Nil <=> "IN" \in interest[f]
  /\ \A f, g \in Fds : sock[f] = sock[g] /\ sock[f] # Nil => f = g

\* The requests of client c, and none.
Asks(c) == {Nobody} \cup [client : {c}, n : Nat]

\* A compute result reaches the client whose request it answers and no other, though
\* that client's descriptor may have been closed and reused while the job ran.
RepliesReachAsker ==
  /\ \A f \in Fds : clientMap[f].response.of \in Asks(sock[f])
  /\ \A c \in Clients : \A i \in DOMAIN got[c] : got[c][i].of \in Asks(c)

\* A result taken from the queue goes to the connection that asked for it whenever that
\* connection is still there, unless it is dropped in the same step: what is dropped as
\* stale is stale (main.cpp:123-124), and no connected client loses its result.
ResultsDelivered ==
  [][results # << >> /\ results' = Tail(results) =>
       \A f \in Fds : clientMap[f].id = Head(results).conn =>
         \/ clientMap'[f].id = 0
         \/ /\ clientMap'[f].response.status = 200
            /\ clientMap'[f].response.of = Head(results).of]_vars

\* The doorbell is never lost: while a result waits, the loop is taking results, or the
\* eventfd is about to make it, or the worker that pushed it is about to ring.
Ringing ==
  \/ pc \in {"drain", "pop"}
  \/ efdCount > 0 /\ (efd \in ready \/ batch[efd] # {})
  \/ \E w \in Workers : stage[w] = "signal"
NoLostResult == Alive /\ results # << >> => Ringing

\* Edge-triggered reading strands nothing: a socket with unread data, or whose end was
\* not yet read, has an event coming or is being read, and so has the listening socket.
BeingRead(f) == pc = "recv" /\ cur = f
NoStrandedInput ==
  Alive =>
    /\ \A f \in Fds : sock[f] # Nil /\ Readable(sock[f], inbox[sock[f]]) =>
         f \in ready \/ "IN" \in batch[f] \/ BeingRead(f)
    /\ Backlog # {} => serverFd \in ready \/ batch[serverFd] # {} \/ pc = "accept"

\* Edge-triggered writing strands nothing: a response not fully sent has EPOLLOUT
\* registered, and has an event coming unless its socket's send buffer is full.
BeingWritten(f) == cur = f /\ (pc = "send" \/ (pc = "recv" /\ curOut))
NoStrandedOutput ==
  Alive => \A f \in Fds : Present(f) /\ ~FullySent(clientMap[f].response) =>
    /\ "OUT" \in interest[f]
    /\ Writable(sock[f]) => f \in ready \/ "OUT" \in batch[f] \/ BeingWritten(f)

-----------------------------------------------------------------------------
(***************************************************************************)
(* What a client that waits for each response may rely on.                 *)
(***************************************************************************)

\* What a client has received is whole responses one after the other, the last one
\* perhaps still coming: bytes_sent_ and the loaded response always fit together.
WholeResponses ==
  \A c \in Clients : \A i \in DOMAIN got[c] :
    LET u == got[c][i]
    IN  IF u.k = 0
        THEN i = 1 \/ got[c][i - 1].k + 1 = RespSize(got[c][i - 1].status)
        ELSE i > 1 /\ got[c][i - 1] = [u EXCEPT !.k = @ - 1]

\* The n-th response answers the n-th request: a 200 to a served POST carries that
\* POST's result, a 204 answers a preflight, a 400 a request that is rejected.
Matches(c, n, u) ==
  /\ n <= begun[c]
  /\ CASE u.status = 200 -> u.of = [client |-> c, n |-> n]
       [] u.status = 204 -> script[c][n] = "options"
       [] u.status = 400 -> script[c][n] \in {"badhead", "badbody"}
RepliesInOrder ==
  \A c \in Clients : \A i \in DOMAIN got[c] :
    got[c][i].k = 0 => Matches(c, Cardinality({j \in 1..i : got[c][j].k = 0}), got[c][i])

\* Every request of a client that stays is answered.
EveryRequestAnswered ==
  \A c \in Clients : \A n \in 1..2 :
    (begun[c] > n \/ (begun[c] = n /\ ~owesBody[c]))
      ~> (Answered(c) >= n \/ ~Connected(c) \/ ~Alive)

\* The server outlives its clients: no client's departure ends the process.
ServerSurvives == Alive
=============================================================================
