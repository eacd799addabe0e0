--------------------------- MODULE RoutingProofs ---------------------------
(***************************************************************************)
(* Descriptors, identifiers and results: why a result reaches the client   *)
(* that asked for it although descriptors are reused.                      *)
(*                                                                         *)
(*   OwnInv     who owns a descriptor                                      *)
(*   IdInv      identifiers are never given twice                          *)
(*   HeldInv    what a connection holds comes from its client              *)
(*   JobInv     a job or result that names a living connection's           *)
(*              identifier names its descriptor and its client too         *)
(*                                                                         *)
(* Each is inductive given the ones before it.                             *)
(***************************************************************************)
EXTENDS EventLoopProofs

\* A descriptor is open only on an accepted connection.
OwnInv == FdsOwned /\ \A f \in Fds : sock[f] # Nil => phase[sock[f]] = "open"

IdInv ==
  /\ \A f \in Fds : clientMap[f].id < nextConnId
  /\ \A f, g \in Fds : Present(f) /\ clientMap[f].id = clientMap[g].id => f = g

TokensOf(c) == [of : [client : {c}, n : Nat], kind : Kinds, part : {"head", "body"}]
UnitsOf(c) == [status : Statuses, of : Asks(c), k : Nat]

HeldOnWire ==
  \A c \in Clients : /\ inbox[c] \in Seq(TokensOf(c))
                     /\ outbox[c] \in Seq(UnitsOf(c))
                     /\ got[c] \in Seq(UnitsOf(c))
\* An entry of the map, on the connection of client c.
Holds(entry, c) ==
  /\ entry.response.of \in Asks(c)
  /\ entry.id # 0 => entry.request \in ParsersOver(TokensOf(c))
HeldInMap == \A f \in Fds : Holds(clientMap[f], sock[f])
HeldInv == HeldOnWire /\ HeldInMap

\* A job or a result, and the connections there are.
Faithful(j) ==
  /\ j.conn \in 1..(nextConnId - 1)
  /\ \A f \in Fds : clientMap[f].id = j.conn => f = j.fd /\ j.of \in Asks(sock[f])

JobInv ==
  /\ \A i \in 1..Len(jobs) : Faithful(jobs[i])
  /\ \A w \in Workers : stage[w] # "idle" => Faithful(task[w])
  /\ \A i \in 1..Len(results) : Faithful(results[i])

-----------------------------------------------------------------------------
(***************************************************************************)
(* How a step changes the map: an entry stays, goes, or is the new one,    *)
(* under the next identifier.                                              *)
(***************************************************************************)
Stays(f) == clientMap'[f].id = clientMap[f].id /\ sock'[f] = sock[f]
Goes(f) == clientMap'[f].id = 0 /\ sock'[f] = Nil
Comes(f) == clientMap[f].id = 0 /\ clientMap'[f].id = nextConnId /\ nextConnId' = nextConnId + 1

Evolves ==
  /\ nextConnId' \in {nextConnId, nextConnId + 1}
  /\ \/ \A f \in Fds : Stays(f) \/ Goes(f)
     \/ \E a \in Fds : Comes(a) /\ \A f \in Fds \ {a} : Stays(f)

LEMMA ArmedIn ==
  ASSUME TypeOK, OwnInv, NEW f \in Fds, NEW c, NEW mask, NEW data, "IN" \in mask,
         Present(f), Rearm(f, c, mask, data)
  PROVE  \A g \in Fds : "IN" \in interest'[g] <=> "IN" \in interest[g]
BY DEF Rearm, TypeOK, NetworkTypeOK, EpollTypeOK, OwnInv, FdsOwned

LEMMA OwnStays ==
  ASSUME TypeOK, OwnInv, sock' = sock, phase' = phase,
         \A f \in Fds : Stays(f),
         \A f \in Fds : "IN" \in interest'[f] <=> "IN" \in interest[f]
  PROVE  OwnInv'
BY DEF OwnInv, FdsOwned, Stays, Present

LEMMA OwnDrop ==
  ASSUME TypeOK, OwnInv, NEW f \in Fds, sock[f] # Nil, Drop(f, sock[f])
  PROVE  /\ OwnInv'
         /\ \A g \in Fds : Stays(g) \/ Goes(g)
<1> USE DEF TypeOK, NetworkTypeOK, EpollTypeOK, TcpTypeOK, MapTypeOK
<1>1. /\ clientMap' = [clientMap EXCEPT ![f] = NoConnection]
      /\ interest' = [interest EXCEPT ![f] = {}]
      /\ sock' = [sock EXCEPT ![f] = Nil]
      /\ phase' = [phase EXCEPT ![sock[f]] = "over"]
  BY DEF Drop
<1>2. NoConnection.id = 0
  BY DEF NoConnection
<1>3. \A g \in Fds : g # f => /\ clientMap'[g] = clientMap[g]
                               /\ interest'[g] = interest[g]
                               /\ sock'[g] = sock[g]
  BY <1>1
<1>4. clientMap'[f].id = 0 /\ interest'[f] = {} /\ sock'[f] = Nil
  BY <1>1, <1>2
<1>5. \A g \in Fds : Stays(g) \/ Goes(g)
  BY <1>3, <1>4 DEF Stays, Goes
<1>6. FdsOwned'
  <2>1. \A g \in Fds : /\ sock'[g] # Nil <=> clientMap'[g].id # 0
                       /\ sock'[g] # Nil <=> "IN" \in interest'[g]
    <3> SUFFICES ASSUME NEW g \in Fds
                 PROVE  /\ sock'[g] # Nil <=> clientMap'[g].id # 0
                        /\ sock'[g] # Nil <=> "IN" \in interest'[g]
      OBVIOUS
    <3>1. CASE g = f
      BY <1>4, <3>1
    <3>2. CASE g # f
      BY <1>3, <3>2 DEF OwnInv, FdsOwned, Present
    <3>. QED  BY <3>1, <3>2
  <2>2. \A g \in Fds : sock'[g] # Nil => sock'[g] = sock[g]
    BY <1>3, <1>4
  <2>3. \A g, h \in Fds : sock'[g] = sock'[h] /\ sock'[g] # Nil => g = h
    BY <2>2 DEF OwnInv, FdsOwned
  <2>. QED  BY <2>1, <2>3 DEF FdsOwned, Present
<1>7. \A g \in Fds : sock'[g] # Nil => phase'[sock'[g]] = "open"
  <2> SUFFICES ASSUME NEW g \in Fds, sock'[g] # Nil PROVE phase'[sock'[g]] = "open"
    OBVIOUS
  <2>1. g # f /\ sock'[g] = sock[g] /\ sock[g] # sock[f]
    BY <1>3, <1>4 DEF OwnInv, FdsOwned
  <2>. QED  BY <1>1, <2>1 DEF OwnInv
<1>. QED  BY <1>5, <1>6, <1>7 DEF OwnInv

LEMMA OwnAccept ==
  ASSUME TypeOK, OwnInv, Accept
  PROVE  OwnInv' /\ Evolves
<1> USE DEF TypeOK, NetworkTypeOK, EpollTypeOK, TcpTypeOK, MapTypeOK
<1> PICK c \in Backlog, f \in FreeFds :
      /\ sock' = [sock EXCEPT ![f] = c]
      /\ phase' = [phase EXCEPT ![c] = "open"]
      /\ clientMap' = [clientMap EXCEPT ![f] = NewConnection(nextConnId)]
      /\ Rearm(f, c, ReadInterest, inbox[c])
  BY DEF Accept
<1>1. /\ c \in Clients /\ phase[c] = "queued"
      /\ f \in Fds /\ sock[f] = Nil /\ clientMap[f].id = 0
      /\ nextConnId' = nextConnId + 1
  BY DEF Backlog, FreeFds, Accept, OwnInv, FdsOwned, Present
<1>2. NewConnection(nextConnId).id = nextConnId
  BY DEF NewConnection, NoConnection
<1>3. interest' = [interest EXCEPT ![f] = {"IN"}]
  BY DEF Rearm, ReadInterest
<1>4. \A g \in Fds : g # f => /\ clientMap'[g] = clientMap[g]
                               /\ interest'[g] = interest[g]
                               /\ sock'[g] = sock[g]
  BY <1>3
<1>5. clientMap'[f].id = nextConnId /\ interest'[f] = {"IN"} /\ sock'[f] = c
  BY <1>1, <1>2, <1>3
<1>6. Evolves
  BY <1>1, <1>4, <1>5 DEF Evolves, Stays, Comes
<1>8. c # Nil
  BY <1>1, DescriptorsDistinct
<1>7. \A g \in Fds : sock[g] # c
  BY <1>1, <1>8 DEF OwnInv
<1>9. \A g \in Fds : /\ sock'[g] # Nil <=> clientMap'[g].id # 0
                     /\ sock'[g] # Nil <=> "IN" \in interest'[g]
  BY <1>4, <1>5, <1>8 DEF OwnInv, FdsOwned, Present
<1>10. \A g, h \in Fds : sock'[g] = sock'[h] /\ sock'[g] # Nil => g = h
  BY <1>4, <1>5, <1>7 DEF OwnInv, FdsOwned
<1>11. \A g \in Fds : sock'[g] # Nil => phase'[sock'[g]] = "open"
  <2> SUFFICES ASSUME NEW g \in Fds, sock'[g] # Nil PROVE phase'[sock'[g]] = "open"
    OBVIOUS
  <2>1. CASE g = f
    BY <1>1, <1>5, <2>1
  <2>2. CASE g # f
    BY <1>4, <1>7, <2>2 DEF OwnInv
  <2>. QED  BY <2>1, <2>2
<1>. QED  BY <1>6, <1>9, <1>10, <1>11 DEF OwnInv, FdsOwned, Present

\* Reading and what follows it.
LEMMA OwnRecvData ==
  ASSUME TypeOK, OwnInv, RecvData
  PROVE  OwnInv' /\ Evolves
<1> DEFINE f == cur
           c == sock[cur]
<1>1. f \in Fds /\ c # Nil /\ Present(f) /\ nextConnId' = nextConnId
  BY DEF RecvData, TypeOK, LoopTypeOK, OwnInv, FdsOwned
<1>2. PICK r, rest : Serve(f, c, r, rest)
  BY DEF RecvData
<1>3. ASSUME NEW resp, NEW q,
             clientMap' = [clientMap EXCEPT ![f].response = resp, ![f].request = q],
             sock' = sock
      PROVE  \A g \in Fds : Stays(g)
  BY <1>1, <1>3 DEF Stays, TypeOK, MapTypeOK, Connections
<1>4. ASSUME NEW q, clientMap' = [clientMap EXCEPT ![f].request = q], sock' = sock
      PROVE  \A g \in Fds : Stays(g)
  BY <1>1, <1>4 DEF Stays, TypeOK, MapTypeOK, Connections
<1>5. CASE KeepReading(f, c, r, rest)
  <2>1. (\A g \in Fds : Stays(g)) /\ sock' = sock /\ phase' = phase /\ interest' = interest
    BY <1>4, <1>5 DEF KeepReading, epollVars
  <2>. QED  BY <1>1, <2>1, OwnStays DEF Evolves
<1>6. CASE BadRequest(f, c, r, rest)
  <2>1. (\A g \in Fds : Stays(g)) /\ sock' = sock /\ phase' = phase
    BY <1>3, <1>6 DEF BadRequest
  <2>2. \A g \in Fds : "IN" \in interest'[g] <=> "IN" \in interest[g]
    BY <1>1, <1>6, ArmedIn DEF BadRequest, WriteInterest
  <2>. QED  BY <1>1, <2>1, <2>2, OwnStays DEF Evolves
<1>7. CASE Preflight(f, c, r, rest)
  <2>1. (\A g \in Fds : Stays(g)) /\ sock' = sock /\ phase' = phase
    BY <1>3, <1>7 DEF Preflight
  <2>2. \A g \in Fds : "IN" \in interest'[g] <=> "IN" \in interest[g]
    BY <1>1, <1>7, ArmedIn DEF Preflight, WriteInterest
  <2>. QED  BY <1>1, <2>1, <2>2, OwnStays DEF Evolves
<1>8. CASE ReplyNotArmed(f, c, r)
  BY <1>1, <1>8, OwnDrop DEF ReplyNotArmed, Evolves
<1>9. CASE Submit(f, c, r, rest)
  <2>1. (\A g \in Fds : Stays(g)) /\ sock' = sock /\ phase' = phase /\ interest' = interest
    BY <1>4, <1>9 DEF Submit, epollVars
  <2>. QED  BY <1>1, <2>1, OwnStays DEF Evolves
<1>. QED  BY <1>2, <1>5, <1>6, <1>7, <1>8, <1>9 DEF Serve

\* Every step keeps who owns what, and changes the map as Evolves says.
LEMMA OwnStep == TypeOK /\ OwnInv /\ [Next]_vars => OwnInv' /\ Evolves
<1> SUFFICES ASSUME TypeOK, OwnInv, [Next]_vars PROVE OwnInv' /\ Evolves
  OBVIOUS
<1> USE DEF loopVars, curVars, poolVars, serverVars, epollVars, tcpVars, clientVars,
            networkVars
<1>1. ASSUME UNCHANGED <<clientMap, nextConnId, sock, phase, interest>>
      PROVE  OwnInv' /\ Evolves
  BY <1>1, OwnStays DEF Stays, Evolves
<1>2. CASE Accept
  BY <1>2, OwnAccept
<1>3. CASE AcceptNotAdded
  <2>1. PICK c \in Backlog : phase' = [phase EXCEPT ![c] = "over"]
    BY <1>3 DEF AcceptNotAdded
  <2>2. \A f \in Fds : sock[f] # c
    BY <2>1, DescriptorsDistinct DEF Backlog, OwnInv
  <2>3. \A f \in Fds : sock[f] # Nil => phase'[sock[f]] = "open"
    BY <2>1, <2>2 DEF OwnInv, TypeOK, NetworkTypeOK, TcpTypeOK, EpollTypeOK
  <2>. QED
    BY <1>3, <2>3 DEF AcceptNotAdded, OwnInv, FdsOwned, Present, Stays, Evolves
<1>4. CASE LoadResult
  <2> DEFINE cr == Head(results)
  <2>5. cr \in ComputeResults
    BY <1>4 DEF LoadResult, TypeOK
  <2>1. cr.fd \in Fds /\ Present(cr.fd)
    BY <1>4, <2>5 DEF LoadResult, Stale, ComputeResults
  <2>2. /\ clientMap' = [clientMap EXCEPT ![cr.fd].response = Load(@, 200, cr.of)]
        /\ Rearm(cr.fd, sock[cr.fd], WriteInterest, inbox[sock[cr.fd]])
        /\ UNCHANGED <<nextConnId, sock, phase>>
    BY <1>4 DEF LoadResult
  <2> HIDE DEF cr
  <2>3. \A f \in Fds : Stays(f)
    BY <2>1, <2>2 DEF Stays, TypeOK, MapTypeOK, Connections
  <2>4. \A f \in Fds : "IN" \in interest'[f] <=> "IN" \in interest[f]
    BY <2>1, <2>2, ArmedIn DEF WriteInterest
  <2>. QED  BY <2>2, <2>3, <2>4, OwnStays DEF Evolves
<1>5. CASE LoadResultNotArmed
  <2>3. Head(results) \in ComputeResults
    BY <1>5 DEF LoadResultNotArmed, TypeOK
  <2>1. /\ Head(results).fd \in Fds
        /\ Present(Head(results).fd)
        /\ Drop(Head(results).fd, sock[Head(results).fd])
    BY <1>5, <2>3 DEF LoadResultNotArmed, Stale, ComputeResults
  <2>2. sock[Head(results).fd] # Nil
    BY <2>1 DEF OwnInv, FdsOwned
  <2>. QED  BY <1>5, <2>1, <2>2, OwnDrop DEF LoadResultNotArmed, Evolves
<1>6. CASE RecvGone
  BY <1>6, OwnDrop DEF RecvGone, Evolves, TypeOK, LoopTypeOK
<1>7. CASE RecvData
  BY <1>7, OwnRecvData
<1>8. CASE SendUnit
  <2>1. \A f \in Fds : Stays(f)
    BY <1>8 DEF SendUnit, Stays, TypeOK, MapTypeOK, Connections
  <2>. QED  BY <1>8, <2>1, OwnStays DEF SendUnit, Evolves
<1>9. CASE SendDone
  <2>1. cur \in Fds /\ Present(cur) /\ nextConnId' = nextConnId
    BY <1>9 DEF SendDone, TypeOK, LoopTypeOK
  <2>2. (\A f \in Fds : Stays(f)) /\ sock' = sock /\ phase' = phase
    BY <1>9 DEF SendDone, Stays, TypeOK, MapTypeOK, Connections
  <2>3. \A f \in Fds : "IN" \in interest'[f] <=> "IN" \in interest[f]
    BY <1>9, <2>1, ArmedIn DEF SendDone, ReadInterest
  <2>. QED  BY <2>1, <2>2, <2>3, OwnStays DEF Evolves
<1>10. CASE SendDoneNotArmed \/ SendThrows
  <2>1. /\ Drop(cur, sock[cur]) /\ cur \in Fds /\ Present(cur)
        /\ nextConnId' = nextConnId
    BY <1>10 DEF SendDoneNotArmed, SendThrows, SendDue, TypeOK, LoopTypeOK
  <2>2. sock[cur] # Nil
    BY <2>1 DEF OwnInv, FdsOwned
  <2>. QED  BY <2>1, <2>2, OwnDrop DEF Evolves
<1>11. CASE \/ Wait \/ Dispatch \/ BatchDone \/ AcceptDone \/ AcceptThrows \/ DrainEventFd
            \/ DropStaleResult \/ PopDone \/ RecvBadFd \/ RecvDrained \/ SendAbsent
            \/ SendNothing \/ SendBlocked \/ SendKills
  BY <1>1, <1>11
     DEF Wait, Dispatch, BatchDone, AcceptDone, AcceptThrows, DrainEventFd, DropStaleResult,
         PopDone, RecvBadFd, RecvDrained, SendAbsent, SendNothing, SendBlocked, SendKills
<1>12. ASSUME NEW w \in Workers, WorkerStep(w) PROVE OwnInv' /\ Evolves
  BY <1>1, <1>12 DEF WorkerStep, TakeJob, PushResult, TaskThrows, SignalResult
<1>13. ASSUME NEW c \in Clients, ClientStep(c), ServerIdle PROVE OwnInv' /\ Evolves
  <2>1. phase' = phase \/ (phase[c] = "idle" /\ phase' = [phase EXCEPT ![c] = "queued"])
    BY <1>13 DEF ClientStep, Connect, SendHead, SendBody, Receive, Leave, ResetArrives
  <2>2. \A f \in Fds : sock[f] # Nil => phase'[sock[f]] = "open"
    BY <2>1 DEF OwnInv, TypeOK, NetworkTypeOK, TcpTypeOK, EpollTypeOK
  <2>. QED
    BY <1>13, <2>2 DEF ServerIdle, OwnInv, FdsOwned, Present, Stays, Evolves
<1>14. CASE UNCHANGED vars
  BY <1>1, <1>14 DEF vars
<1>. QED
  BY <1>2, <1>3, <1>4, <1>5, <1>6, <1>7, <1>8, <1>9, <1>10, <1>11, <1>12, <1>13, <1>14
     DEF Next, MainStep

LEMMA IdStep ==
  ASSUME TypeOK, IdInv, Evolves
  PROVE  IdInv'
<1>1. nextConnId \in Nat \ {0} /\ \A f \in Fds : clientMap[f].id \in Nat
  BY DEF TypeOK, MapTypeOK, Connections
<1>2. CASE \A f \in Fds : Stays(f) \/ Goes(f)
  BY <1>1, <1>2 DEF Evolves, IdInv, Stays, Goes, Present
<1>3. ASSUME NEW a \in Fds, Comes(a), \A f \in Fds \ {a} : Stays(f)
      PROVE  IdInv'
  BY <1>1, <1>3 DEF IdInv, Stays, Comes, Present
<1>. QED  BY <1>2, <1>3 DEF Evolves

-----------------------------------------------------------------------------
(***************************************************************************)
(* Jobs and results.                                                       *)
(***************************************************************************)

\* Faithful of the same job after the step.
FaithfulAfter(j) ==
  /\ j.conn \in 1..(nextConnId' - 1)
  /\ \A f \in Fds : clientMap'[f].id = j.conn => f = j.fd /\ j.of \in Asks(sock'[f])

\* A step that changes the map as Evolves says makes no job unfaithful.
LEMMA FaithfulKept ==
  ASSUME TypeOK, Evolves, NEW j, Faithful(j)
  PROVE  FaithfulAfter(j)
<1>1. nextConnId \in Nat \ {0} /\ \A f \in Fds : clientMap[f].id \in Nat
  BY DEF TypeOK, MapTypeOK, Connections
<1>2. j.conn \in 1..(nextConnId' - 1)
  BY <1>1 DEF Evolves, Faithful
<1>3. ASSUME NEW f \in Fds, clientMap'[f].id = j.conn
      PROVE  f = j.fd /\ j.of \in Asks(sock'[f])
  <2>1. Stays(f)
    BY <1>1, <1>3 DEF Evolves, Goes, Comes, Faithful
  <2>. QED  BY <1>3, <2>1 DEF Stays, Faithful
<1>. QED  BY <1>2, <1>3 DEF FaithfulAfter

\* A parser's tokens, and a response, under what was read on the connection.
LEMMA FedOfClient ==
  ASSUME TypeOK, OwnInv, HeldInv, pc = "recv", sock[cur] # Nil,
         NEW k \in 1..Len(inbox[sock[cur]]),
         NEW r \in Feed(clientMap[cur].request, SubSeq(inbox[sock[cur]], 1, k))
  PROVE  r \in ParsersOver(TokensOf(sock[cur])) /\ r.head.of \in Asks(sock[cur])
<1> DEFINE c == sock[cur]
<1>1. cur \in Fds /\ c \in Clients /\ Present(cur)
  BY DEF TypeOK, LoopTypeOK, NetworkTypeOK, EpollTypeOK, OwnInv, FdsOwned
<1>2. TokensOf(c) \in SUBSET Tokens
  BY <1>1 DEF TokensOf, Tokens, RequestIds
<1>3. SubSeq(inbox[c], 1, k) \in Seq(TokensOf(c))
  BY <1>1 DEF HeldInv, HeldOnWire
<1>4. clientMap[cur].request \in ParsersOver(TokensOf(c))
  BY <1>1 DEF HeldInv, HeldInMap, Holds, Present
<1>5. r \in ParsersOver(TokensOf(c))
  BY <1>2, <1>3, <1>4, FeedOver
<1>6. r.head \in TokensOf(c) \cup {NoHead}
  BY <1>5 DEF ParsersOver
<1>. QED  BY <1>5, <1>6 DEF TokensOf, NoHead, Asks

LEMMA JobsAfterRead ==
  ASSUME TypeOK, OwnInv, IdInv, HeldInv, JobInv, Evolves, RecvData
  PROVE  \A i \in 1..Len(jobs') : FaithfulAfter(jobs'[i])
<1>0. PICK k \in 1..Len(inbox[sock[cur]]) :
        \E r \in Feed(clientMap[cur].request, SubSeq(inbox[sock[cur]], 1, k)) :
          Serve(cur, sock[cur], r, SubSeq(inbox[sock[cur]], k + 1, Len(inbox[sock[cur]])))
  BY DEF RecvData
<1> DEFINE rest == SubSeq(inbox[sock[cur]], k + 1, Len(inbox[sock[cur]]))
<1>1. PICK r \in Feed(clientMap[cur].request, SubSeq(inbox[sock[cur]], 1, k)) :
        Serve(cur, sock[cur], r, rest)
  BY <1>0
<1>2. pc = "recv" /\ sock[cur] # Nil /\ cur \in Fds /\ Present(cur)
  BY DEF RecvData, TypeOK, LoopTypeOK, OwnInv, FdsOwned
<1>3. r.head.of \in Asks(sock[cur])
  BY <1>2, FedOfClient
<1>4. jobs' = jobs \/ (jobs' = Append(jobs, JobOf(cur, r)))
  BY <1>1 DEF Serve, KeepReading, BadRequest, Preflight, ReplyNotArmed, Submit
<1>5. Faithful(JobOf(cur, r))
  <2>1. clientMap[cur].id \in 1..(nextConnId - 1)
    BY <1>2 DEF IdInv, Present, TypeOK, MapTypeOK, Connections
  <2>. QED  BY <1>2, <1>3, <2>1 DEF JobOf, Faithful, IdInv
<1>6. jobs \in Seq(Jobs)
  BY DEF TypeOK, PoolTypeOK
<1>. QED  BY <1>4, <1>5, <1>6, FaithfulKept DEF JobInv

LEMMA JobStep ==
  ASSUME TypeOK, OwnInv, IdInv, HeldInv, JobInv, Evolves, [Next]_vars
  PROVE  JobInv'
<1> USE DEF poolVars, serverVars
<1>1. /\ jobs \in Seq(Jobs) /\ results \in Seq(ComputeResults)
      /\ stage \in [Workers -> {"idle", "busy", "signal"}]
      /\ task \in [Workers -> Jobs \cup {NoJob}]
  BY DEF TypeOK, PoolTypeOK
<1>2. ASSUME UNCHANGED <<stage, task>>,
             \A i \in 1..Len(jobs') : FaithfulAfter(jobs'[i]),
             results' = results \/ (results # << >> /\ results' = Tail(results))
      PROVE  JobInv'
  <2>3. \A i \in 1..Len(results) : FaithfulAfter(results[i])
    BY FaithfulKept DEF JobInv
  <2>4. results # << >> => /\ Len(Tail(results)) = Len(results) - 1
                          /\ \A i \in 1..Len(Tail(results)) : Tail(results)[i] = results[i + 1]
    BY <1>1
  <2>5. Len(results) \in Nat
    BY <1>1
  <2>6. results # << >> => \A i \in 1..Len(Tail(results)) : i + 1 \in 1..Len(results)
    BY <2>4, <2>5
  <2>1. \A i \in 1..Len(results') : FaithfulAfter(results'[i])
    BY <1>2, <2>3, <2>4, <2>6
  <2>2. \A w \in Workers : stage'[w] # "idle" => FaithfulAfter(task'[w])
    BY <1>2, FaithfulKept DEF JobInv
  <2>. QED  BY <1>2, <2>1, <2>2 DEF JobInv, Faithful, FaithfulAfter
<1>3. jobs' = jobs => \A i \in 1..Len(jobs') : FaithfulAfter(jobs'[i])
  BY FaithfulKept DEF JobInv
<1>4. CASE MainStep /\ ~RecvData
  <2>1. /\ UNCHANGED poolVars
        /\ results' = results \/ (results # << >> /\ results' = Tail(results))
    BY <1>4
       DEF MainStep, Wait, Dispatch, BatchDone, Accept, AcceptNotAdded, AcceptDone,
           AcceptThrows, DrainEventFd, DropStaleResult, LoadResult, LoadResultNotArmed,
           PopDone, RecvBadFd, RecvGone, RecvDrained, SendAbsent, SendUnit, SendNothing,
           SendBlocked, SendDone, SendDoneNotArmed, SendThrows, SendKills
  <2>. QED  BY <1>2, <1>3, <2>1
<1>5. CASE RecvData
  BY <1>2, <1>5, JobsAfterRead DEF RecvData
<1>6. ASSUME NEW w \in Workers, WorkerStep(w) PROVE JobInv'
  <2>1. CASE TakeJob(w)
    <3>1. \A i \in 1..Len(jobs') : FaithfulAfter(jobs'[i])
      BY <1>1, <2>1, FaithfulKept DEF TakeJob, JobInv
    <3>2. FaithfulAfter(Head(jobs))
      BY <1>1, <2>1, FaithfulKept DEF TakeJob, JobInv
    <3>3. \A v \in Workers : stage'[v] # "idle" => FaithfulAfter(task'[v])
      BY <1>1, <2>1, <3>2, FaithfulKept DEF TakeJob, JobInv
    <3>4. \A i \in 1..Len(results') : FaithfulAfter(results'[i])
      BY <2>1, FaithfulKept DEF TakeJob, JobInv
    <3>. QED  BY <3>1, <3>3, <3>4 DEF JobInv, Faithful, FaithfulAfter
  <2>2. CASE PushResult(w)
    <3> DEFINE cr == [fd |-> task[w].fd, conn |-> task[w].conn, of |-> task[w].of]
    <3>1. FaithfulAfter(task[w])
      BY <2>2, FaithfulKept DEF PushResult, JobInv
    <3>2. FaithfulAfter(cr)
      BY <3>1 DEF FaithfulAfter
    <3>3. results' = Append(results, cr)
      BY <2>2 DEF PushResult
    <3>4. \A i \in 1..Len(results) : FaithfulAfter(results[i])
      BY FaithfulKept DEF JobInv
    <3> HIDE DEF cr
    <3>5. \A i \in 1..Len(results') : FaithfulAfter(results'[i])
      BY <1>1, <3>2, <3>3, <3>4
    <3>6. \A v \in Workers : stage'[v] # "idle" => FaithfulAfter(task'[v])
      BY <1>1, <2>2, <3>1, FaithfulKept DEF PushResult, JobInv
    <3>. QED  BY <1>3, <2>2, <3>5, <3>6 DEF PushResult, JobInv, Faithful, FaithfulAfter
  <2>3. CASE TaskThrows(w) \/ SignalResult(w)
    <3>1. \A v \in Workers : stage'[v] # "idle" => FaithfulAfter(task'[v])
      BY <1>1, <2>3, FaithfulKept DEF TaskThrows, SignalResult, JobInv
    <3>2. \A i \in 1..Len(results') : FaithfulAfter(results'[i])
      BY <2>3, FaithfulKept DEF TaskThrows, SignalResult, JobInv
    <3>3. \A i \in 1..Len(jobs') : FaithfulAfter(jobs'[i])
      BY <1>3, <2>3 DEF TaskThrows, SignalResult
    <3>. QED  BY <3>1, <3>2, <3>3 DEF JobInv, Faithful, FaithfulAfter
  <2>. QED  BY <1>6, <2>1, <2>2, <2>3 DEF WorkerStep
<1>7. CASE ServerIdle \/ UNCHANGED vars
  BY <1>2, <1>3, <1>7 DEF ServerIdle, vars
<1>. QED  BY <1>4, <1>5, <1>6, <1>7 DEF Next

-----------------------------------------------------------------------------
(***************************************************************************)
(* What a connection holds.                                                *)
(***************************************************************************)
LEMMA NewHolds ==
  /\ \A c : Holds(NoConnection, c)
  /\ \A id \in Nat : \A c : Holds(NewConnection(id), c)
<1> SUFFICES ASSUME NEW c, NEW id \in Nat
             PROVE  Holds(NoConnection, c) /\ Holds(NewConnection(id), c)
  OBVIOUS
<1>1. EmptyResponse.of \in Asks(c)
  BY DEF EmptyResponse, Asks
<1>2. ResetParser \in ParsersOver(TokensOf(c))
  BY DEF ResetParser, ParsersOver, ParseState, Methods
<1>. QED  BY <1>1, <1>2 DEF NoConnection, NewConnection, Holds

\* Reading consumes, and the rest of what was there is still the client's.
LEMMA WireKept ==
  ASSUME TypeOK, HeldOnWire, UNCHANGED <<outbox, got>>,
         \/ inbox' = inbox
         \/ \E c \in Clients : \E rest :
              rest \in Seq(TokensOf(c)) /\ inbox' = [inbox EXCEPT ![c] = rest]
  PROVE  HeldOnWire'
BY DEF HeldOnWire, TypeOK, NetworkTypeOK, TcpTypeOK

LEMMA EntryReplaced ==
  ASSUME TypeOK, HeldInMap, NEW f \in Fds, NEW e, Holds(e, sock'[f]),
         clientMap' = [clientMap EXCEPT ![f] = e],
         \A g \in Fds \ {f} : sock'[g] = sock[g]
  PROVE  HeldInMap'
<1>1. \A g \in Fds : clientMap'[g] = IF g = f THEN e ELSE clientMap[g]
  BY DEF TypeOK, MapTypeOK
<1>. QED  BY <1>1 DEF HeldInMap

LEMMA HeldDrop ==
  ASSUME TypeOK, HeldInv, NEW f \in Fds, sock[f] \in Clients, Drop(f, sock[f]),
         UNCHANGED <<outbox, got>>
  PROVE  HeldInv'
<1>1. HeldOnWire'
  <2>1. << >> \in Seq(TokensOf(sock[f]))
    OBVIOUS
  <2>. QED  BY <2>1, WireKept DEF HeldInv, Drop
<1>2. HeldInMap'
  <2>1. sock' = [sock EXCEPT ![f] = Nil] /\ clientMap' = [clientMap EXCEPT ![f] = NoConnection]
    BY DEF Drop
  <2>. QED
    BY <2>1, NewHolds, EntryReplaced DEF HeldInv, TypeOK, NetworkTypeOK, EpollTypeOK
<1>. QED  BY <1>1, <1>2 DEF HeldInv

LEMMA HeldRecvData ==
  ASSUME TypeOK, OwnInv, HeldInv, RecvData
  PROVE  HeldInv'
<1> DEFINE f == cur
           c == sock[cur]
<1>1. /\ f \in Fds /\ c \in Clients /\ c # Nil /\ Present(f) /\ pc = "recv"
      /\ UNCHANGED <<outbox, got>>
  BY DEF RecvData, TypeOK, LoopTypeOK, NetworkTypeOK, EpollTypeOK, OwnInv, FdsOwned, clientVars
<1>2. PICK k \in 1..Len(inbox[c]) :
        \E r \in Feed(clientMap[cur].request, SubSeq(inbox[c], 1, k)) :
          Serve(f, c, r, SubSeq(inbox[c], k + 1, Len(inbox[c])))
  BY DEF RecvData
<1> DEFINE rest == SubSeq(inbox[c], k + 1, Len(inbox[c]))
<1>3. PICK r \in Feed(clientMap[cur].request, SubSeq(inbox[c], 1, k)) : Serve(f, c, r, rest)
  BY <1>2
<1>4. r \in ParsersOver(TokensOf(c))
  BY <1>1, <1>3, FedOfClient
<1>5. rest \in Seq(TokensOf(c))
  BY <1>1 DEF HeldInv, HeldOnWire
<1>6. clientMap[f] \in Connections /\ Holds(clientMap[f], c)
  BY <1>1 DEF TypeOK, MapTypeOK, HeldInv, HeldInMap
<1>7. ResetParser \in ParsersOver(TokensOf(c)) /\ Nobody \in Asks(c)
  BY DEF ResetParser, ParsersOver, ParseState, Methods, Asks
<1> HIDE DEF rest
<1>8. ASSUME inbox' = [inbox EXCEPT ![c] = rest], sock' = sock,
             NEW e, clientMap' = [clientMap EXCEPT ![f] = e], Holds(e, c)
      PROVE  HeldInv'
  <2>1. HeldOnWire'
    BY <1>1, <1>5, <1>8, WireKept DEF HeldInv
  <2>2. HeldInMap'
    BY <1>1, <1>8, EntryReplaced DEF HeldInv
  <2>. QED  BY <2>1, <2>2 DEF HeldInv
<1>9. \A q \in ParsersOver(TokensOf(c)) : Holds([clientMap[f] EXCEPT !.request = q], c)
  BY <1>6 DEF Holds, Connections
<1>10. \A st : \A q \in ParsersOver(TokensOf(c)) :
         Holds([clientMap[f] EXCEPT !.response = Load(@, st, Nobody), !.request = q], c)
  BY <1>6, <1>7 DEF Holds, Connections, Load
<1>11. \A st, q : [clientMap EXCEPT ![f].response = Load(@, st, Nobody), ![f].request = q]
                  = [clientMap EXCEPT ![f] = [clientMap[f] EXCEPT
                                               !.response = Load(@, st, Nobody), !.request = q]]
  BY <1>1 DEF TypeOK, MapTypeOK, Connections
<1>12. CASE KeepReading(f, c, r, rest)
  BY <1>4, <1>8, <1>9, <1>12 DEF KeepReading, Consume
<1>13. CASE Submit(f, c, r, rest)
  BY <1>7, <1>8, <1>9, <1>13 DEF Submit, Consume
<1>14. ASSUME NEW st, inbox' = [inbox EXCEPT ![c] = rest], sock' = sock,
              clientMap' = [clientMap EXCEPT ![f].response = Load(@, st, Nobody),
                                             ![f].request = ResetParser]
       PROVE  HeldInv'
  <2> DEFINE e == [clientMap[f] EXCEPT !.response = Load(@, st, Nobody),
                                       !.request = ResetParser]
  <2>1. clientMap' = [clientMap EXCEPT ![f] = e]
    BY <1>11, <1>14
  <2>2. Holds(e, c)
    BY <1>7, <1>10
  <2> HIDE DEF e
  <2>. QED  BY <1>8, <1>14, <2>1, <2>2
<1>15. CASE BadRequest(f, c, r, rest)
  BY <1>14, <1>15 DEF BadRequest, Consume
<1>16. CASE Preflight(f, c, r, rest)
  BY <1>14, <1>16 DEF Preflight, Consume
<1>17. CASE ReplyNotArmed(f, c, r)
  BY <1>1, <1>17, HeldDrop DEF ReplyNotArmed
<1>. QED  BY <1>3, <1>12, <1>13, <1>15, <1>16, <1>17 DEF Serve

\* A client puts its own tokens on the wire, and takes its own units.
LEMMA HeldClientStep ==
  ASSUME TypeOK, HeldInv, NEW c \in Clients, ClientStep(c), ServerIdle
  PROVE  HeldInv'
<1> USE DEF tcpVars, clientVars
<1>1. /\ inbox \in [Clients -> Seq(Tokens)] /\ outbox \in [Clients -> Seq(Units)]
      /\ got \in [Clients -> Seq(Units)] /\ script[c] \in Seq(Kinds)
      /\ ClientTypeOK
  BY ScriptsAreKinds DEF TypeOK, NetworkTypeOK, TcpTypeOK, ClientTypeOK
<1>2. HeldInMap'
  BY DEF ServerIdle, serverVars, HeldInv, HeldInMap
<1> SUFFICES HeldOnWire'
  BY <1>2 DEF HeldInv
<1>3. \A n \in 1..Len(script[c]), part \in {"head", "body"} : Token(c, n, part) \in TokensOf(c)
  BY <1>1, TokenType DEF TokensOf
<1>4. ASSUME NEW t \in TokensOf(c), inbox' = [inbox EXCEPT ![c] = Append(@, t)],
             UNCHANGED <<outbox, got>>
      PROVE  HeldOnWire'
  <2>1. Append(inbox[c], t) \in Seq(TokensOf(c))
    BY DEF HeldInv, HeldOnWire
  <2>. QED  BY <1>1, <1>4, <2>1 DEF HeldInv, HeldOnWire
<1>5. CASE Connect(c) \/ Leave(c)
  BY <1>5 DEF Connect, Leave, HeldInv, HeldOnWire
<1>6. CASE SendHead(c)
  <2>1. begun[c] + 1 \in 1..Len(script[c])
    BY <1>1, <1>6 DEF SendHead, ClientTypeOK
  <2>. QED  BY <1>3, <1>4, <1>6, <2>1 DEF SendHead
<1>7. CASE SendBody(c)
  <2>1. begun[c] \in 1..Len(script[c])
    BY <1>1, <1>7 DEF SendBody, ClientTypeOK
  <2>. QED  BY <1>3, <1>4, <1>7, <2>1 DEF SendBody
<1>8. CASE Receive(c)
  <2>1. got[c] \o outbox[c] \in Seq(UnitsOf(c)) /\ << >> \in Seq(UnitsOf(c))
    BY DEF HeldInv, HeldOnWire
  <2>. QED  BY <1>1, <1>8, <2>1 DEF Receive, HeldInv, HeldOnWire
<1>9. CASE ResetArrives(c)
  <2>1. << >> \in Seq(UnitsOf(c))
    OBVIOUS
  <2>. QED  BY <1>1, <1>9, <2>1 DEF ResetArrives, HeldInv, HeldOnWire
<1>. QED  BY <1>5, <1>6, <1>7, <1>8, <1>9 DEF ClientStep

LEMMA HeldStep ==
  ASSUME TypeOK, OwnInv, HeldInv, JobInv, [Next]_vars
  PROVE  HeldInv'
<1> USE DEF loopVars, curVars, poolVars, serverVars, epollVars, tcpVars, clientVars,
            networkVars
<1>1. ASSUME UNCHANGED <<clientMap, sock, inbox, outbox, got>> PROVE HeldInv'
  BY <1>1 DEF HeldInv, HeldOnWire, HeldInMap
<1>2. \A f \in Fds : Present(f) => sock[f] \in Clients
  BY DEF OwnInv, FdsOwned, TypeOK, NetworkTypeOK, EpollTypeOK
<1>3. CASE Accept
  <2>1. PICK c \in Backlog, f \in FreeFds :
          /\ sock' = [sock EXCEPT ![f] = c]
          /\ clientMap' = [clientMap EXCEPT ![f] = NewConnection(nextConnId)]
    BY <1>3 DEF Accept
  <2>2. f \in Fds /\ Holds(NewConnection(nextConnId), c)
    BY NewHolds DEF FreeFds, TypeOK, MapTypeOK
  <2>3. sock'[f] = c /\ \A g \in Fds \ {f} : sock'[g] = sock[g]
    BY <2>1, <2>2 DEF TypeOK, NetworkTypeOK, EpollTypeOK
  <2>4. HeldInMap'
    BY <2>1, <2>2, <2>3, EntryReplaced DEF HeldInv
  <2>. QED  BY <1>3, <2>4, WireKept DEF Accept, HeldInv
<1>4. CASE AcceptNotAdded
  <2>1. PICK c \in Backlog : inbox' = [inbox EXCEPT ![c] = << >>]
    BY <1>4 DEF AcceptNotAdded
  <2>2. c \in Clients /\ << >> \in Seq(TokensOf(c))
    BY DEF Backlog
  <2>3. HeldOnWire'
    BY <1>4, <2>1, <2>2, WireKept DEF AcceptNotAdded, HeldInv
  <2>. QED  BY <1>4, <2>3 DEF AcceptNotAdded, HeldInv, HeldInMap
<1>5. CASE LoadResult
  <2> DEFINE cr == Head(results)
             f  == cr.fd
             e  == [clientMap[f] EXCEPT !.response = Load(@, 200, cr.of)]
  <2>1. cr \in ComputeResults /\ Faithful(cr) /\ ~Stale(cr)
    BY <1>5 DEF LoadResult, TypeOK, JobInv
  <2>2. f \in Fds /\ cr.of \in Asks(sock[f])
    BY <2>1 DEF ComputeResults, Faithful, Stale
  <2>3. clientMap' = [clientMap EXCEPT ![f] = e] /\ UNCHANGED <<sock, inbox, outbox, got>>
    BY <1>5, <2>2 DEF LoadResult, TypeOK, MapTypeOK, Connections
  <2>4. Holds(e, sock[f])
    BY <2>2 DEF HeldInv, HeldInMap, Holds, Load, TypeOK, MapTypeOK, Connections
  <2> HIDE DEF e, f
  <2>5. HeldInMap'
    BY <2>2, <2>3, <2>4, EntryReplaced DEF HeldInv
  <2>. QED  BY <2>3, <2>5, WireKept DEF HeldInv
<1>6. CASE LoadResultNotArmed
  <2>1. Head(results) \in ComputeResults /\ ~Stale(Head(results))
    BY <1>6 DEF LoadResultNotArmed, TypeOK
  <2>2. Head(results).fd \in Fds /\ Present(Head(results).fd)
    BY <2>1 DEF ComputeResults, Stale
  <2>. QED  BY <1>2, <1>6, <2>2, HeldDrop DEF LoadResultNotArmed
<1>7. CASE RecvGone \/ SendDoneNotArmed \/ SendThrows
  <2>1. /\ cur \in Fds /\ sock[cur] \in Clients /\ Drop(cur, sock[cur])
        /\ UNCHANGED <<outbox, got>>
    BY <1>2, <1>7
       DEF RecvGone, SendDoneNotArmed, SendThrows, SendDue, TypeOK, LoopTypeOK,
           NetworkTypeOK, EpollTypeOK
  <2>. QED  BY <2>1, HeldDrop
<1>8. CASE RecvData
  BY <1>8, HeldRecvData
<1>9. CASE SendUnit
  <2> DEFINE c == sock[cur]
             u == NextUnit(clientMap[cur].response)
             e == [clientMap[cur] EXCEPT !.response.sent = @ + 1]
  <2>1. cur \in Fds /\ c \in Clients /\ Present(cur) /\ clientMap[cur] \in Connections
    BY <1>2, <1>9 DEF SendUnit, TypeOK, LoopTypeOK, MapTypeOK
  <2>2. Holds(clientMap[cur], c)
    BY <2>1 DEF HeldInv, HeldInMap
  <2>3. u \in UnitsOf(c)
    BY <2>1, <2>2 DEF Holds, NextUnit, UnitsOf, Connections, Responses
  <2>4. outbox' = [outbox EXCEPT ![c] = Append(@, u)] /\ UNCHANGED <<sock, inbox, got>>
    BY <1>9 DEF SendUnit
  <2>5. HeldOnWire'
    <3> HIDE DEF u
    <3>. QED
      BY <2>1, <2>3, <2>4 DEF HeldInv, HeldOnWire, TypeOK, NetworkTypeOK, TcpTypeOK
  <2>6. clientMap' = [clientMap EXCEPT ![cur] = e]
    BY <1>9, <2>1 DEF SendUnit, TypeOK, MapTypeOK, Connections, Responses
  <2>7. Holds(e, c)
    BY <2>1, <2>2 DEF Holds, Connections, Responses
  <2> HIDE DEF e
  <2>8. HeldInMap'
    BY <2>1, <2>4, <2>6, <2>7, EntryReplaced DEF HeldInv
  <2>. QED  BY <2>5, <2>8 DEF HeldInv
<1>10. CASE SendDone
  <2> DEFINE e == [clientMap[cur] EXCEPT !.response = EmptyResponse]
  <2>1. /\ cur \in Fds /\ clientMap[cur] \in Connections
        /\ Holds(clientMap[cur], sock[cur]) /\ UNCHANGED <<sock, inbox, outbox, got>>
    BY <1>10 DEF SendDone, TypeOK, LoopTypeOK, MapTypeOK, HeldInv, HeldInMap
  <2>2. clientMap' = [clientMap EXCEPT ![cur] = e]
    BY <1>10, <2>1 DEF SendDone, Reset, TypeOK, MapTypeOK
  <2>3. Holds(e, sock[cur])
    BY <2>1 DEF Holds, Connections, EmptyResponse, Asks
  <2> HIDE DEF e
  <2>4. HeldInMap'
    BY <2>1, <2>2, <2>3, EntryReplaced DEF HeldInv
  <2>. QED  BY <2>1, <2>4, WireKept DEF HeldInv
<1>11. CASE \/ Wait \/ Dispatch \/ BatchDone \/ AcceptDone \/ AcceptThrows \/ DrainEventFd
            \/ DropStaleResult \/ PopDone \/ RecvBadFd \/ RecvDrained \/ SendAbsent
            \/ SendNothing \/ SendBlocked \/ SendKills
  BY <1>1, <1>11
     DEF Wait, Dispatch, BatchDone, AcceptDone, AcceptThrows, DrainEventFd, DropStaleResult,
         PopDone, RecvBadFd, RecvDrained, SendAbsent, SendNothing, SendBlocked, SendKills
<1>12. ASSUME NEW w \in Workers, WorkerStep(w) PROVE HeldInv'
  BY <1>1, <1>12 DEF WorkerStep, TakeJob, PushResult, TaskThrows, SignalResult
<1>13. ASSUME NEW c \in Clients, ClientStep(c), ServerIdle PROVE HeldInv'
  BY <1>13, HeldClientStep
<1>. QED
  BY <1>1, <1>3, <1>4, <1>5, <1>6, <1>7, <1>8, <1>9, <1>10, <1>11, <1>12, <1>13
     DEF Next, MainStep, vars

-----------------------------------------------------------------------------
(***************************************************************************)
(* The results.                                                            *)
(***************************************************************************)
Routed == TypeOK /\ OwnInv /\ IdInv /\ HeldInv /\ JobInv

LEMMA RoutedInit == Init => Routed
<1> SUFFICES ASSUME Init PROVE Routed
  OBVIOUS
<1>1. NoConnection.id = 0
  BY DEF NoConnection
<1>2. OwnInv /\ IdInv
  BY <1>1 DEF Init, NetworkInit, OwnInv, FdsOwned, IdInv, Present
<1>3. HeldInv
  BY NewHolds DEF Init, NetworkInit, HeldInv, HeldOnWire, HeldInMap
<1>4. JobInv
  BY DEF Init, JobInv
<1>. QED  BY InitType, <1>2, <1>3, <1>4 DEF Routed

LEMMA RoutedStep == Routed /\ [Next]_vars => Routed'
<1> SUFFICES ASSUME Routed, [Next]_vars PROVE Routed'
  OBVIOUS
<1>1. TypeOK' /\ OwnInv' /\ Evolves
  BY TypeStep, OwnStep DEF Routed
<1>2. IdInv' /\ JobInv'
  BY <1>1, IdStep, JobStep DEF Routed
<1>3. HeldInv'
  BY HeldStep DEF Routed
<1>. QED  BY <1>1, <1>2, <1>3 DEF Routed

LEMMA AlwaysRouted == Spec => []Routed
BY RoutedInit, RoutedStep, PTL DEF Spec

\* No descriptor of a client leaks or is shared: it is open, in clientMap and registered
\* with epoll together or not at all, whatever epoll_ctl refuses and whoever leaves.
THEOREM DescriptorsOwned == Spec => []FdsOwned
<1>1. Routed => FdsOwned
  BY DEF Routed, OwnInv
<1>. QED  BY <1>1, AlwaysRouted, PTL

\* The result of a request reaches its asker and nobody else, for any number of clients,
\* descriptors and workers and any reuse of descriptors: main.cpp:123 tells results apart.
THEOREM ResultsReachAsker == Spec => []RepliesReachAsker
<1>1. Routed => RepliesReachAsker
  <2> SUFFICES ASSUME Routed PROVE RepliesReachAsker
    OBVIOUS
  <2>1. \A c \in Clients : \A i \in DOMAIN got[c] : got[c][i] \in UnitsOf(c)
    BY DEF Routed, HeldInv, HeldOnWire
  <2>2. \A f \in Fds : clientMap[f].response.of \in Asks(sock[f])
    BY DEF Routed, HeldInv, HeldInMap, Holds
  <2>. QED  BY <2>1, <2>2 DEF RepliesReachAsker, UnitsOf
<1>. QED  BY <1>1, AlwaysRouted, PTL

\* Only a result whose connection is gone is thrown away: any other is loaded into its
\* connection, or goes with it when epoll_ctl refuses (main.cpp:121-138).
THEOREM ResultsAreDelivered == Spec => ResultsDelivered
<1> DEFINE Delivered(cr, f) ==
             \/ clientMap'[f].id = 0
             \/ clientMap'[f].response.status = 200 /\ clientMap'[f].response.of = cr.of
           Taken == results # << >> /\ results' = Tail(results)
<1>1. ASSUME Routed, [Next]_vars, Taken, NEW f \in Fds,
             clientMap[f].id = Head(results).conn
      PROVE  Delivered(Head(results), f)
  <2> USE DEF loopVars, curVars, poolVars, serverVars
  <2>1. results \in Seq(ComputeResults)
    BY <1>1 DEF Routed, TypeOK
  <2>2. results' # results /\ \A x : results' # Append(results, x)
    BY <1>1, <2>1
  <2>3. /\ Head(results) \in ComputeResults /\ Faithful(Head(results))
        /\ f = Head(results).fd
    BY <1>1, <2>1 DEF Routed, JobInv, Faithful
  <2>4. ~Stale(Head(results))
    BY <1>1, <2>3 DEF Faithful, Stale, Present
  <2>5. DropStaleResult \/ LoadResult \/ LoadResultNotArmed
    <3>1. \A w \in Workers : ~WorkerStep(w)
      BY <2>2 DEF WorkerStep, TakeJob, PushResult, TaskThrows, SignalResult
    <3>2. ~ServerIdle /\ ~UNCHANGED vars
      BY <2>2 DEF ServerIdle, vars
    <3>3. MainStep
      BY <1>1, <3>1, <3>2 DEF Next
    <3>. QED
      BY <2>2, <3>3
         DEF MainStep, Wait, Dispatch, BatchDone, Accept, AcceptNotAdded, AcceptDone,
             AcceptThrows, DrainEventFd, PopDone, RecvBadFd, RecvGone, RecvDrained,
             RecvData, SendAbsent, SendUnit, SendNothing, SendBlocked, SendDone,
             SendDoneNotArmed, SendThrows, SendKills
  <2>6. CASE DropStaleResult
    BY <2>4, <2>6 DEF DropStaleResult
  <2>7. CASE LoadResult
    <3>1. clientMap' = [clientMap EXCEPT ![f].response = Load(@, 200, Head(results).of)]
      BY <2>3, <2>7 DEF LoadResult
    <3>. QED  BY <1>1, <3>1 DEF Load, Routed, TypeOK, MapTypeOK, Connections
  <2>8. CASE LoadResultNotArmed
    <3>1. clientMap' = [clientMap EXCEPT ![f] = NoConnection]
      BY <2>3, <2>8 DEF LoadResultNotArmed, Drop
    <3>. QED  BY <1>1, <3>1 DEF NoConnection, Routed, TypeOK, MapTypeOK
  <2>. QED  BY <2>5, <2>6, <2>7, <2>8
<1>2. Routed /\ [Next]_vars =>
        [results # << >> /\ results' = Tail(results) =>
           \A f \in Fds : clientMap[f].id = Head(results).conn =>
             \/ clientMap'[f].id = 0
             \/ /\ clientMap'[f].response.status = 200
                /\ clientMap'[f].response.of = Head(results).of]_vars
  BY <1>1
<1>. QED  BY <1>2, AlwaysRouted, PTL DEF ResultsDelivered, Spec
=============================================================================
