----------------------------- MODULE EdgeProofs -----------------------------
(***************************************************************************)
(* Why edge-triggered reading and writing strand nothing: every event that *)
(* is consumed is either handled to its end or asked for again.  What      *)
(* makes it inductive: the loop asks for new events only when it has       *)
(* handled all it had (AllHandled), and who owns a descriptor (OwnInv), by *)
(* which a step at one descriptor leaves the others alone.                 *)
(***************************************************************************)
EXTENDS RoutingProofs

InputNoticed(f) ==
  sock[f] # Nil /\ Readable(sock[f], inbox[sock[f]]) =>
    f \in ready \/ "IN" \in batch[f] \/ BeingRead(f)

OutputNoticed(f) ==
  Present(f) /\ ~FullySent(clientMap[f].response) =>
    /\ "OUT" \in interest[f]
    /\ Writable(sock[f]) => f \in ready \/ "OUT" \in batch[f] \/ BeingWritten(f)

Noticed(f) == InputNoticed(f) /\ OutputNoticed(f)

ServerNoticed == Backlog # {} => serverFd \in ready \/ batch[serverFd] # {} \/ pc = "accept"

AllHandled == pc = "wait" => \A s \in Sources : batch[s] = {}

EdgeInv == Alive => (\A f \in Fds : Noticed(f)) /\ ServerNoticed /\ AllHandled

-----------------------------------------------------------------------------
(***************************************************************************)
(* A descriptor that a step leaves alone.                                  *)
(***************************************************************************)

\* What of descriptor f may not change, and what may not be taken from it.
Quiet(f) ==
  /\ sock'[f] = sock[f] /\ clientMap'[f].id = clientMap[f].id
  /\ clientMap'[f].response = clientMap[f].response
  /\ interest'[f] = interest[f] /\ batch'[f] = batch[f]
  /\ f \in ready => f \in ready'
  /\ sock[f] # Nil => LET c == sock[f]
                      IN  inbox'[c] = inbox[c] /\ peer'[c] = peer[c] /\ outbox'[c] = outbox[c]

\* The loop is not at an event of f.
Elsewhere(f) == ~BeingRead(f) /\ ~BeingWritten(f)

LEMMA QuietKept ==
  ASSUME OwnInv, NEW f \in Fds, Noticed(f), Quiet(f), Elsewhere(f) \/ UNCHANGED <<pc, curVars>>
  PROVE  Noticed(f)'
<1>1. BeingRead(f) => BeingRead(f)'
  BY DEF Elsewhere, BeingRead, curVars
<1>2. BeingWritten(f) => BeingWritten(f)'
  BY DEF Elsewhere, BeingWritten, curVars
<1>3. InputNoticed(f)'
  BY <1>1 DEF Noticed, InputNoticed, Quiet, Readable
<1>4. OutputNoticed(f)'
  <2>1. Present(f)' => sock[f] # Nil
    BY DEF Quiet, Present, OwnInv, FdsOwned
  <2>. QED  BY <1>2, <2>1 DEF Noticed, OutputNoticed, Quiet, Present, Writable
<1>. QED  BY <1>3, <1>4 DEF Noticed

LEMMA ClosedNoticed ==
  ASSUME NEW f \in Fds, sock'[f] = Nil, clientMap'[f].id = 0
  PROVE  Noticed(f)'
BY DEF Noticed, InputNoticed, OutputNoticed, Present

\* Dropping one connection.
LEMMA DropNoticed ==
  ASSUME TypeOK, OwnInv, NEW f \in Fds, sock[f] # Nil, Drop(f, sock[f]),
         UNCHANGED <<peer, outbox, batch>>, \A g \in Fds : Noticed(g),
         \A g \in Fds \ {f} : Elsewhere(g)
  PROVE  \A g \in Fds : Noticed(g)'
<1> USE DEF TypeOK, NetworkTypeOK, EpollTypeOK, TcpTypeOK, MapTypeOK
<1>1. sock'[f] = Nil /\ clientMap'[f].id = 0
  BY DEF Drop, NoConnection
<1>2. ASSUME NEW g \in Fds \ {f} PROVE Quiet(g)
  <2>1. sock[g] # Nil => sock[g] # sock[f]
    BY DEF OwnInv, FdsOwned
  <2>. QED  BY <2>1 DEF Drop, Quiet
<1>. QED  BY <1>1, <1>2, ClosedNoticed, QuietKept

\* An epoll_ctl on one descriptor takes nothing from the others, and makes what holds an event.
LEMMA RearmNotices ==
  ASSUME TypeOK, NEW f \in Fds, NEW c, NEW mask, NEW data, Rearm(f, c, mask, data)
  PROVE  /\ \A g \in Fds \ {f} : interest'[g] = interest[g]
         /\ \A s : s \in ready => s \in ready'
         /\ interest'[f] = mask
         /\ "IN" \in mask /\ Readable(c, data) => f \in ready'
         /\ "OUT" \in mask /\ Writable(c) => f \in ready'
BY DEF Rearm, Poll, TypeOK, NetworkTypeOK, EpollTypeOK

\* A response loaded, with EPOLLOUT asked for: `data' is what is still unread.
LEMMA LoadedNoticed ==
  ASSUME TypeOK, OwnInv, NEW f \in Fds, Present(f), NEW data,
         Rearm(f, sock[f], WriteInterest, data), inbox'[sock[f]] = data,
         UNCHANGED <<sock, peer, outbox>>
  PROVE  Noticed(f)'
<1>1. interest'[f] = {"IN", "OUT"}
  BY RearmNotices DEF WriteInterest
<1>2. Readable(sock[f], data) \/ Writable(sock[f]) => f \in ready'
  BY RearmNotices DEF WriteInterest
<1>3. InputNoticed(f)'
  BY <1>2 DEF InputNoticed, Readable
<1>4. OutputNoticed(f)'
  BY <1>1, <1>2 DEF OutputNoticed, Writable
<1>. QED  BY <1>3, <1>4 DEF Noticed

-----------------------------------------------------------------------------
(***************************************************************************)
(* Reading.                                                                *)
(***************************************************************************)
LEMMA RecvDataNoticed ==
  ASSUME TypeOK, OwnInv, RecvData, \A g \in Fds : Noticed(g)
  PROVE  \A g \in Fds : Noticed(g)'
<1> PICK f, c : f = cur /\ c = sock[cur]
  OBVIOUS
<1>1. /\ f \in Fds /\ c \in Clients /\ c # Nil /\ Present(f) /\ pc = "recv"
      /\ UNCHANGED <<batch, peer, outbox>>
  BY DEF RecvData, TypeOK, LoopTypeOK, NetworkTypeOK, EpollTypeOK, OwnInv, FdsOwned
<1>2. PICK r, rest : Serve(f, c, r, rest)
  BY DEF RecvData
<1>3. \A g \in Fds \ {f} : Elsewhere(g)
  BY DEF Elsewhere, BeingRead, BeingWritten
<1>4. \A g \in Fds \ {f} : sock[g] # Nil => sock[g] # c
  BY <1>1 DEF OwnInv, FdsOwned
<1>5. ASSUME Consume(c, rest), sock' = sock, \A g \in Fds \ {f} : interest'[g] = interest[g],
             \A s : s \in ready => s \in ready',
             \A g \in Fds \ {f} : clientMap'[g] = clientMap[g]
      PROVE  \A g \in Fds \ {f} : Noticed(g)'
  <2>1. \A g \in Fds \ {f} : Quiet(g)
    BY <1>1, <1>4, <1>5 DEF Quiet, Consume, TypeOK, NetworkTypeOK, EpollTypeOK, TcpTypeOK
  <2>. QED  BY <1>3, <2>1, QuietKept
<1>6. ASSUME UNCHANGED <<curVars, pc, sock, interest, ready>>,
             clientMap'[f].id = clientMap[f].id,
             clientMap'[f].response = clientMap[f].response
      PROVE  Noticed(f)'
  <2>1. BeingRead(f)' /\ (BeingWritten(f) => BeingWritten(f)')
    BY <1>1, <1>6 DEF BeingRead, BeingWritten, curVars
  <2>2. OutputNoticed(f)'
    BY <1>1, <1>6, <2>1 DEF Noticed, OutputNoticed, Present, Writable
  <2>. QED  BY <2>1, <2>2 DEF Noticed, InputNoticed
<1>7. clientMap \in [Fds -> Connections] /\ inbox \in [Clients -> Seq(Tokens)]
  BY DEF TypeOK, MapTypeOK, NetworkTypeOK, TcpTypeOK
<1>8. CASE KeepReading(f, c, r, rest) \/ Submit(f, c, r, rest)
  <2>1. PICK q : clientMap' = [clientMap EXCEPT ![f].request = q]
    BY <1>8 DEF KeepReading, Submit
  <2>2. /\ clientMap'[f].id = clientMap[f].id
        /\ clientMap'[f].response = clientMap[f].response
        /\ \A g \in Fds \ {f} : clientMap'[g] = clientMap[g]
    BY <1>1, <1>7, <2>1 DEF Connections
  <2>3. Consume(c, rest) /\ UNCHANGED <<curVars, pc, sock, interest, ready>>
    BY <1>8 DEF KeepReading, Submit, AfterRequest, epollVars
  <2>. QED  BY <1>5, <1>6, <2>2, <2>3
<1>9. CASE BadRequest(f, c, r, rest) \/ Preflight(f, c, r, rest)
  <2>1. /\ Consume(c, rest) /\ sock' = sock /\ Rearm(f, c, WriteInterest, rest)
        /\ \A g \in Fds \ {f} : clientMap'[g] = clientMap[g]
    BY <1>7, <1>9 DEF BadRequest, Preflight
  <2>2. inbox'[c] = rest
    BY <1>1, <1>7, <2>1 DEF Consume
  <2>3. Noticed(f)'
    BY <1>1, <2>1, <2>2, LoadedNoticed
  <2>. QED  BY <1>1, <1>5, <2>1, <2>3, RearmNotices
<1>10. CASE ReplyNotArmed(f, c, r)
  BY <1>1, <1>3, <1>10, DropNoticed DEF ReplyNotArmed
<1>. QED  BY <1>2, <1>8, <1>9, <1>10 DEF Serve

-----------------------------------------------------------------------------
(***************************************************************************)
(* The steps of the event loop, at the clients' descriptors.               *)
(***************************************************************************)
LEMMA MainNoticed ==
  ASSUME TypeOK, OwnInv, EdgeInv, Alive, Alive', MainStep
  PROVE  \A f \in Fds : Noticed(f)'
<1> USE DEF loopVars, curVars, poolVars, serverVars, epollVars, tcpVars, clientVars,
            networkVars
<1>1. (\A f \in Fds : Noticed(f)) /\ AllHandled
  BY DEF EdgeInv
<1>2. pc \notin {"recv", "send"} => \A f \in Fds : Elsewhere(f)
  BY DEF Elsewhere, BeingRead, BeingWritten
<1>3. \A f \in Fds \ {cur} : Elsewhere(f)
  BY DEF Elsewhere, BeingRead, BeingWritten
<1>4. \A f \in Fds : Present(f) <=> sock[f] # Nil
  BY DEF OwnInv, FdsOwned
<1>5. ASSUME UNCHANGED <<sock, clientMap, interest, ready, batch, inbox, peer, outbox>>
      PROVE  \A f \in Fds : Quiet(f)
  BY <1>5 DEF Quiet
<1>6. CASE Wait
  <2>1. PICK taken \in SUBSET ready :
          /\ batch' = [s \in Sources |-> IF s \in taken THEN Revents(s) ELSE {}]
          /\ ready' = ready \ taken
    BY <1>6 DEF Wait
  <2>2. SUFFICES ASSUME NEW f \in Fds PROVE Noticed(f)'
    OBVIOUS
  <2>3. /\ UNCHANGED <<sock, clientMap, interest, inbox, peer, outbox>>
        /\ batch[f] = {} /\ Elsewhere(f) /\ f \in Sources
    BY <1>1, <1>2, <1>6 DEF Wait, AllHandled, Sources
  <2>4. f \in taken => batch'[f] = Poll(interest[f], sock[f], inbox[sock[f]])
    BY <2>1, <2>3, DescriptorsDistinct DEF Revents
  <2>5. f \notin taken => (f \in ready => f \in ready')
    BY <2>1
  <2>6. InputNoticed(f)'
    <3>1. sock[f] # Nil => "IN" \in interest[f]
      BY DEF OwnInv, FdsOwned
    <3>. QED  BY <1>1, <2>1, <2>3, <2>4, <2>5, <3>1
              DEF Noticed, InputNoticed, Elsewhere, Readable, Poll
  <2>7. OutputNoticed(f)'
    BY <1>1, <2>1, <2>3, <2>4, <2>5
       DEF Noticed, OutputNoticed, Elsewhere, Writable, Poll, Present
  <2>. QED  BY <2>6, <2>7 DEF Noticed
<1>7. CASE Dispatch
  <2>1. PICK s \in Sources :
          /\ batch' = [batch EXCEPT ![s] = {}]
          /\ s \in Fds => /\ pc' = IF "IN" \in batch[s] THEN "recv" ELSE "send"
                          /\ cur' = s
                          /\ curOut' = ("OUT" \in batch[s])
    BY <1>7, DescriptorsDistinct DEF Dispatch
  <2>2. UNCHANGED <<sock, clientMap, interest, ready, inbox, peer, outbox>> /\ pc = "dispatch"
    BY <1>7 DEF Dispatch
  <2>3. SUFFICES ASSUME NEW f \in Fds PROVE Noticed(f)'
    OBVIOUS
  <2>4. CASE f = s
    <3>1. "IN" \in batch[f] => BeingRead(f)'
      BY <2>1, <2>4 DEF BeingRead
    <3>2. "OUT" \in batch[f] => BeingWritten(f)'
      BY <2>1, <2>4 DEF BeingWritten
    <3>3. Elsewhere(f)
      BY <1>2, <2>2
    <3>. QED  BY <1>1, <2>2, <3>1, <3>2, <3>3
              DEF Noticed, InputNoticed, OutputNoticed, Elsewhere, Readable, Writable, Present
  <2>5. CASE f # s
    <3>1. batch'[f] = batch[f]
      BY <2>1, <2>5 DEF TypeOK, LoopTypeOK, Sources
    <3>. QED  BY <1>1, <1>2, <2>2, <3>1, QuietKept DEF Quiet
  <2>. QED  BY <2>4, <2>5
<1>8. CASE BatchDone \/ AcceptDone \/ DrainEventFd \/ DropStaleResult \/ PopDone
  BY <1>1, <1>2, <1>5, <1>8, QuietKept
     DEF BatchDone, AcceptDone, DrainEventFd, DropStaleResult, PopDone
<1>9. CASE Accept
  <2>1. PICK c \in Backlog, f \in FreeFds :
          /\ sock' = [sock EXCEPT ![f] = c]
          /\ clientMap' = [clientMap EXCEPT ![f] = NewConnection(nextConnId)]
          /\ Rearm(f, c, ReadInterest, inbox[c])
    BY <1>9 DEF Accept
  <2>2. f \in Fds /\ UNCHANGED <<batch, inbox, peer, outbox>> /\ pc = "accept"
    BY <1>9, <2>1 DEF Accept, FreeFds
  <2>3. \A g \in Fds \ {f} : Quiet(g)
    BY <2>1, <2>2, RearmNotices DEF Quiet, TypeOK, MapTypeOK, NetworkTypeOK, EpollTypeOK
  <2>4. sock'[f] = c /\ clientMap'[f].response = EmptyResponse
    BY <2>1, <2>2 DEF TypeOK, MapTypeOK, NetworkTypeOK, EpollTypeOK, NewConnection, NoConnection
  <2>5. InputNoticed(f)'
    BY <2>1, <2>2, <2>4, RearmNotices DEF InputNoticed, ReadInterest, Readable
  <2>6. OutputNoticed(f)'
    BY <2>4 DEF OutputNoticed, FullySent, EmptyResponse, RespSize
  <2>. QED  BY <1>1, <1>2, <2>2, <2>3, <2>5, <2>6, QuietKept DEF Noticed
<1>10. CASE AcceptNotAdded
  <2>1. PICK c \in Backlog : inbox' = [inbox EXCEPT ![c] = << >>]
    BY <1>10 DEF AcceptNotAdded
  <2>2. \A f \in Fds : sock[f] # Nil => inbox'[sock[f]] = inbox[sock[f]]
    BY <2>1 DEF Backlog, OwnInv, TypeOK, NetworkTypeOK, TcpTypeOK, EpollTypeOK
  <2>3. \A f \in Fds : Quiet(f)
    BY <1>10, <2>2 DEF AcceptNotAdded, Quiet
  <2>. QED  BY <1>1, <1>2, <1>10, <2>3, QuietKept DEF AcceptNotAdded
<1>11. CASE LoadResult
  <2> PICK cr, f : cr = Head(results) /\ f = cr.fd
    OBVIOUS
  <2>1. cr \in ComputeResults
    BY <1>11 DEF LoadResult, TypeOK
  <2>2. f \in Fds /\ Present(f)
    BY <1>11, <2>1 DEF LoadResult, Stale, ComputeResults
  <2>3. /\ clientMap' = [clientMap EXCEPT ![f].response = Load(@, 200, cr.of)]
        /\ Rearm(f, sock[f], WriteInterest, inbox[sock[f]])
        /\ UNCHANGED <<batch, sock, inbox, peer, outbox>> /\ pc = "pop"
    BY <1>11 DEF LoadResult
  <2>4. Noticed(f)'
    BY <2>2, <2>3, LoadedNoticed
  <2>5. \A g \in Fds \ {f} : Quiet(g)
    BY <2>2, <2>3, RearmNotices DEF Quiet, TypeOK, MapTypeOK
  <2>. QED  BY <1>1, <1>2, <2>3, <2>4, <2>5, QuietKept
<1>12. CASE LoadResultNotArmed
  <2>1. Head(results) \in ComputeResults /\ ~Stale(Head(results))
    BY <1>12 DEF LoadResultNotArmed, TypeOK
  <2>2. /\ Head(results).fd \in Fds /\ sock[Head(results).fd] # Nil
        /\ Drop(Head(results).fd, sock[Head(results).fd])
        /\ UNCHANGED <<peer, outbox, batch>> /\ pc = "pop"
    BY <1>4, <1>12, <2>1 DEF LoadResultNotArmed, ComputeResults, Stale
  <2>. QED  BY <1>1, <1>2, <2>2, DropNoticed
<1>13. CASE RecvBadFd \/ SendAbsent
  <2>1. /\ sock[cur] = Nil /\ clientMap[cur].id = 0 /\ cur \in Fds
        /\ UNCHANGED <<sock, clientMap, interest, ready, batch, inbox, peer, outbox>>
    BY <1>4, <1>13 DEF RecvBadFd, SendAbsent, TypeOK, LoopTypeOK, Present
  <2>. QED  BY <1>1, <1>3, <1>5, <2>1, ClosedNoticed, QuietKept
<1>14. CASE RecvGone \/ SendDoneNotArmed \/ SendThrows
  <2>1. /\ cur \in Fds /\ sock[cur] # Nil /\ Drop(cur, sock[cur])
        /\ UNCHANGED <<peer, outbox, batch>>
    BY <1>4, <1>14
       DEF RecvGone, SendDoneNotArmed, SendThrows, SendDue, TypeOK, LoopTypeOK
  <2>. QED  BY <1>1, <1>3, <2>1, DropNoticed
<1>15. CASE RecvDrained
  <2> PICK f : f = cur
    OBVIOUS
  <2>1. /\ f \in Fds /\ ~Readable(sock[f], inbox[sock[f]])
        /\ BeingWritten(f) => BeingWritten(f)'
        /\ UNCHANGED <<sock, clientMap, interest, ready, batch, inbox, peer, outbox>>
    BY <1>15 DEF RecvDrained, LeaveRecv, BeingWritten, TypeOK, LoopTypeOK
  <2>2. Noticed(f)'
    BY <1>1, <2>1 DEF Noticed, InputNoticed, OutputNoticed, Readable, Writable, Present
  <2>. QED  BY <1>1, <1>3, <1>5, <2>1, <2>2, QuietKept
<1>16. CASE RecvData
  BY <1>1, <1>16, RecvDataNoticed
<1>17. CASE SendUnit
  <2> PICK f : f = cur
    OBVIOUS
  <2> PICK c, r : c = sock[f] /\ r = clientMap[f].response
    OBVIOUS
  <2>1. /\ f \in Fds /\ c # Nil /\ c \in Clients /\ pc = "send" /\ r \in Responses
        /\ outbox' = [outbox EXCEPT ![c] = Append(@, NextUnit(r))]
        /\ clientMap' = [clientMap EXCEPT ![f].response.sent = @ + 1]
        /\ pc' = AfterUnit(r)
        /\ UNCHANGED <<curVars, batch, sock, interest, ready, inbox, peer>>
    BY <1>4, <1>17
       DEF SendUnit, TypeOK, LoopTypeOK, NetworkTypeOK, EpollTypeOK, MapTypeOK, Connections
  <2>2. \A g \in Fds \ {f} : Quiet(g)
    <3>1. \A g \in Fds \ {f} : sock[g] # Nil => sock[g] # c
      BY <2>1 DEF OwnInv, FdsOwned
    <3>. QED  BY <2>1, <3>1
              DEF Quiet, TypeOK, MapTypeOK, NetworkTypeOK, TcpTypeOK, EpollTypeOK
  <2>3. ~FullySent(clientMap'[f].response) => pc' = "send"
    <3>1. clientMap'[f].response = [r EXCEPT !.sent = @ + 1]
      BY <2>1 DEF TypeOK, MapTypeOK, Connections
    <3>2. r.status = 204 => FullySent(clientMap'[f].response)
      BY <2>1, <3>1 DEF FullySent, RespSize, Responses
    <3>. QED  BY <2>1, <3>2 DEF AfterUnit
  <2>4. "OUT" \in interest[f]
    BY <1>1, <1>17, <2>1 DEF SendUnit, Noticed, OutputNoticed
  <2>5. OutputNoticed(f)'
    BY <2>1, <2>3, <2>4 DEF OutputNoticed, BeingWritten
  <2>6. InputNoticed(f)'
    BY <1>1, <2>1 DEF Noticed, InputNoticed, BeingRead, Readable
  <2>. QED  BY <1>1, <1>3, <2>2, <2>5, <2>6, QuietKept DEF Noticed
<1>18. CASE SendNothing
  <2>1. pc \notin {"recv", "send"}
    BY <1>18 DEF SendNothing
  <2>. QED  BY <1>1, <1>2, <1>5, <1>18, <2>1, QuietKept DEF SendNothing
<1>19. CASE SendBlocked
  <2> PICK f : f = cur
    OBVIOUS
  <2>1. /\ f \in Fds /\ ~Writable(sock[f]) /\ pc = "send"
        /\ UNCHANGED <<sock, clientMap, interest, ready, batch, inbox, peer, outbox>>
    BY <1>19 DEF SendBlocked, TypeOK, LoopTypeOK
  <2>2. Noticed(f)'
    BY <1>1, <2>1 DEF Noticed, InputNoticed, OutputNoticed, BeingRead, Readable, Writable, Present
  <2>. QED  BY <1>1, <1>3, <1>5, <2>1, <2>2, QuietKept
<1>20. CASE SendDone
  <2> PICK f : f = cur
    OBVIOUS
  <2>1. /\ f \in Fds /\ pc = "send"
        /\ clientMap' = [clientMap EXCEPT ![f].response = EmptyResponse]
        /\ Rearm(f, sock[f], ReadInterest, inbox[sock[f]])
        /\ UNCHANGED <<batch, sock, inbox, peer, outbox>>
    BY <1>20 DEF SendDone, Reset, TypeOK, LoopTypeOK
  <2>2. clientMap'[f].response = EmptyResponse
        /\ \A g \in Fds \ {f} : clientMap'[g] = clientMap[g]
    BY <2>1 DEF TypeOK, MapTypeOK, Connections
  <2>3. \A g \in Fds \ {f} : Quiet(g)
    BY <2>1, <2>2, RearmNotices DEF Quiet
  <2>4. InputNoticed(f)'
    BY <2>1, RearmNotices DEF InputNoticed, ReadInterest, Readable
  <2>5. OutputNoticed(f)'
    BY <2>2 DEF OutputNoticed, FullySent, EmptyResponse, RespSize
  <2>. QED  BY <1>1, <1>3, <2>3, <2>4, <2>5, QuietKept DEF Noticed
<1>21. CASE AcceptThrows \/ SendKills
  BY <1>21 DEF AcceptThrows, SendKills, Alive
<1>. QED
  BY <1>6, <1>7, <1>8, <1>9, <1>10, <1>11, <1>12, <1>13, <1>14, <1>15, <1>16, <1>17, <1>18,
     <1>19, <1>20, <1>21 DEF MainStep

-----------------------------------------------------------------------------
(***************************************************************************)
(* The listening socket, and the batch.                                    *)
(***************************************************************************)
LEMMA AllHandledStep ==
  ASSUME AllHandled, [Next]_vars
  PROVE  AllHandled'
<1>1. CASE UNCHANGED <<pc, batch>> \/ pc' # "wait"
  BY <1>1 DEF AllHandled
<1>2. CASE BatchDone
  BY <1>2 DEF BatchDone, AllHandled
<1>. QED  BY <1>1, <1>2, BackToWait

\* Only Wait takes the listening socket off the ready list, and only Connect adds to the
\* backlog.
LEMMA ServerMain ==
  ASSUME TypeOK, OwnInv, EdgeInv, Alive, Alive', MainStep
  PROVE  ServerNoticed'
<1> USE DEF loopVars, curVars, poolVars, serverVars, epollVars, tcpVars, clientVars,
            networkVars
<1>1. ServerNoticed /\ AllHandled
  BY DEF EdgeInv
<1>2. serverFd \in Sources /\ serverFd \notin Fds /\ serverFd # efd
  BY DescriptorsDistinct DEF Sources
<1>3. \A f \in Fds : sock[f] # Nil => sock[f] \in Clients /\ phase[sock[f]] = "open"
  BY DEF OwnInv, TypeOK, NetworkTypeOK, EpollTypeOK
<1>4. ASSUME Backlog' # {} => Backlog # {}, batch' = batch, pc = "accept" => pc' = "accept",
             serverFd \in ready => serverFd \in ready'
      PROVE  ServerNoticed'
  BY <1>1, <1>4 DEF ServerNoticed
<1>5. ASSUME NEW f \in Fds, sock[f] # Nil, Drop(f, sock[f])
      PROVE  Backlog' = Backlog /\ (serverFd \in ready => serverFd \in ready')
  BY <1>2, <1>3, <1>5 DEF Drop, Backlog, TypeOK, NetworkTypeOK, TcpTypeOK
<1>6. ASSUME NEW f, NEW c, NEW mask, NEW data, Rearm(f, c, mask, data)
      PROVE  serverFd \in ready => serverFd \in ready'
  BY <1>6 DEF Rearm
<1>7. \A f \in Fds : Present(f) <=> sock[f] # Nil
  BY DEF OwnInv, FdsOwned
<1>8. CASE Wait
  <2>1. PICK taken \in SUBSET ready :
          /\ batch' = [s \in Sources |-> IF s \in taken THEN Revents(s) ELSE {}]
          /\ ready' = ready \ taken
    BY <1>8 DEF Wait
  <2>2. Backlog' = Backlog /\ batch[serverFd] = {} /\ pc = "wait"
    BY <1>1, <1>2, <1>8 DEF Wait, AllHandled, Backlog
  <2>3. Backlog # {} => Revents(serverFd) = {"IN"}
    BY <1>2 DEF Revents
  <2>. QED  BY <1>1, <1>2, <2>1, <2>2, <2>3 DEF ServerNoticed
<1>9. CASE Dispatch
  <2>1. PICK s \in Sources : /\ batch' = [batch EXCEPT ![s] = {}]
                             /\ s = serverFd => pc' = "accept"
    BY <1>9 DEF Dispatch
  <2>2. s # serverFd => batch'[serverFd] = batch[serverFd]
    BY <1>2, <2>1 DEF TypeOK, LoopTypeOK
  <2>3. Backlog' = Backlog /\ ready' = ready /\ pc = "dispatch"
    BY <1>9 DEF Dispatch, Backlog
  <2>. QED  BY <1>1, <2>1, <2>2, <2>3 DEF ServerNoticed
<1>10. CASE Accept
  BY <1>10 DEF Accept, AfterAccept, ServerNoticed
<1>11. CASE AcceptNotAdded
  <2>1. Backlog' # {} => Backlog # {}
    BY <1>11 DEF AcceptNotAdded, Backlog
  <2>. QED  BY <1>4, <1>11, <2>1 DEF AcceptNotAdded
<1>12. CASE AcceptDone
  BY <1>12 DEF AcceptDone, ServerNoticed, Backlog
<1>13. CASE LoadResultNotArmed
  <2>1. Head(results) \in ComputeResults /\ ~Stale(Head(results))
    BY <1>13 DEF LoadResultNotArmed, TypeOK
  <2>2. /\ Head(results).fd \in Fds /\ sock[Head(results).fd] # Nil
        /\ Drop(Head(results).fd, sock[Head(results).fd]) /\ batch' = batch /\ pc = "pop"
    BY <1>7, <1>13, <2>1 DEF LoadResultNotArmed, ComputeResults, Stale
  <2>. QED  BY <1>4, <1>5, <2>2
<1>14. CASE RecvGone \/ SendDoneNotArmed \/ SendThrows
  <2>1. /\ cur \in Fds /\ sock[cur] # Nil /\ Drop(cur, sock[cur])
        /\ batch' = batch /\ pc # "accept"
    BY <1>7, <1>14
       DEF RecvGone, SendDoneNotArmed, SendThrows, SendDue, TypeOK, LoopTypeOK
  <2>. QED  BY <1>4, <1>5, <2>1
<1>15. CASE RecvData
  <2>1. cur \in Fds /\ sock[cur] # Nil /\ batch' = batch /\ pc = "recv"
    BY <1>15 DEF RecvData, TypeOK, LoopTypeOK
  <2>2. PICK r, rest : Serve(cur, sock[cur], r, rest)
    BY <1>15 DEF RecvData
  <2>3. CASE ReplyNotArmed(cur, sock[cur], r)
    BY <1>4, <1>5, <2>1, <2>3 DEF ReplyNotArmed
  <2>4. CASE ~ReplyNotArmed(cur, sock[cur], r)
    <3>1. phase' = phase /\ (serverFd \in ready => serverFd \in ready')
      BY <1>6, <2>2, <2>4 DEF Serve, KeepReading, BadRequest, Preflight, Submit
    <3>. QED  BY <1>4, <2>1, <3>1 DEF Backlog
  <2>. QED  BY <2>3, <2>4
<1>16. CASE LoadResult \/ SendDone
  <2>1. /\ serverFd \in ready => serverFd \in ready'
        /\ phase' = phase /\ batch' = batch /\ pc # "accept"
    BY <1>6, <1>16 DEF LoadResult, SendDone
  <2>. QED  BY <1>4, <2>1 DEF Backlog
<1>17. CASE \/ BatchDone \/ DrainEventFd \/ DropStaleResult \/ PopDone \/ RecvBadFd
            \/ RecvDrained \/ SendAbsent \/ SendUnit \/ SendNothing \/ SendBlocked
  <2>1. ready' = ready /\ phase' = phase /\ batch' = batch /\ pc # "accept"
    BY <1>17 DEF BatchDone, DrainEventFd, DropStaleResult, PopDone, RecvBadFd, RecvDrained,
                 SendAbsent, SendUnit, SendNothing, SendBlocked
  <2>. QED  BY <1>4, <2>1 DEF Backlog
<1>18. CASE AcceptThrows \/ SendKills
  BY <1>18 DEF AcceptThrows, SendKills, Alive
<1>. QED
  BY <1>8, <1>9, <1>10, <1>11, <1>12, <1>13, <1>14, <1>15, <1>16, <1>17, <1>18 DEF MainStep

-----------------------------------------------------------------------------
(***************************************************************************)
(* The workers and the clients.                                            *)
(***************************************************************************)
LEMMA OthersNoticed ==
  ASSUME EdgeInv, OwnInv, Alive, ready \subseteq ready',
         UNCHANGED <<pc, curVars, batch, clientMap, sock, interest, tcpVars>>
  PROVE  (\A f \in Fds : Noticed(f)') /\ ServerNoticed'
<1> USE DEF tcpVars, curVars
<1>1. \A f \in Fds : Quiet(f)
  BY DEF Quiet
<1>2. ServerNoticed'
  BY DEF EdgeInv, ServerNoticed, Backlog
<1>. QED  BY <1>1, <1>2, QuietKept DEF EdgeInv

\* Client c's descriptor is woken for an event that is asked for.
LEMMA Woken ==
  ASSUME OwnInv, NEW f \in Fds, sock[f] # Nil, Wake(sock[f], "IN")
  PROVE  f \in ready'
BY DEF Wake, OwnInv, FdsOwned

LEMMA ClientNoticed ==
  ASSUME TypeOK, OwnInv, EdgeInv, Alive, NEW c \in Clients, ClientStep(c), ServerIdle
  PROVE  (\A f \in Fds : Noticed(f)') /\ ServerNoticed'
<1> USE DEF loopVars, curVars, serverVars, clientVars
<1>1. /\ UNCHANGED <<pc, cur, curOut, batch, clientMap, sock, interest>>
      /\ \A f \in Fds : Noticed(f)
  BY DEF ServerIdle, EdgeInv
<1>2. ready \subseteq ready'
  BY DEF ClientStep, Connect, SendHead, SendBody, Receive, Leave, ResetArrives, Wake
<1>3. ServerNoticed'
  <2>1. CASE Connect(c)
    BY <2>1 DEF Connect, ServerNoticed
  <2>2. CASE ~Connect(c)
    <3>1. phase' = phase
      BY <2>2 DEF ClientStep, SendHead, SendBody, Receive, Leave, ResetArrives
    <3>. QED  BY <1>1, <1>2, <3>1 DEF EdgeInv, ServerNoticed, Backlog
  <2>. QED  BY <2>1, <2>2
<1>4. ASSUME NEW f \in Fds, sock[f] # c PROVE Noticed(f)'
  <2>1. \A d \in Clients : d # c => inbox'[d] = inbox[d] /\ peer'[d] = peer[d] /\ outbox'[d] = outbox[d]
    BY DEF ClientStep, Connect, SendHead, SendBody, Receive, Leave, ResetArrives, TypeOK,
           NetworkTypeOK, TcpTypeOK
  <2>2. Quiet(f)
    BY <1>1, <1>2, <1>4, <2>1 DEF Quiet, TypeOK, NetworkTypeOK, EpollTypeOK
  <2>. QED  BY <1>1, <2>2, QuietKept
<1>5. ASSUME NEW f \in Fds, sock[f] = c PROVE Noticed(f)'
  <2> c # Nil
    BY DescriptorsDistinct
  <2>1. CASE Connect(c)
    <3>1. Quiet(f)
      BY <1>1, <1>2, <2>1 DEF Quiet, Connect
    <3>. QED  BY <1>1, <3>1, QuietKept
  <2>2. CASE SendHead(c) \/ SendBody(c)
    <3>1. f \in ready' /\ UNCHANGED <<peer, outbox>>
      BY <1>5, <2>2, Woken DEF SendHead, SendBody
    <3>. QED  BY <1>1, <3>1 DEF Noticed, InputNoticed, OutputNoticed, Present
  <2>3. CASE Leave(c) \/ ResetArrives(c)
    <3>1. f \in ready'
      BY <1>5, <2>3, Woken DEF Leave, ResetArrives
    <3>. QED  BY <1>1, <3>1 DEF Noticed, InputNoticed, OutputNoticed, Present
  <2>4. CASE Receive(c)
    <3>1. UNCHANGED <<inbox, peer>>
      BY <2>4 DEF Receive
    <3>2. InputNoticed(f)'
      BY <1>1, <1>2, <3>1 DEF Noticed, InputNoticed, Readable, BeingRead
    <3>3. Len(outbox[c]) < SndBuf \/ "OUT" \notin interest[f] \/ f \in ready'
      BY <1>5, <2>4, SndBufPositive DEF Receive, Wake, TypeOK, NetworkTypeOK, TcpTypeOK
    <3>4. OutputNoticed(f)'
      BY <1>1, <1>2, <1>5, <3>1, <3>3
         DEF Noticed, OutputNoticed, Present, Writable, BeingWritten
    <3>. QED  BY <3>2, <3>4 DEF Noticed
  <2>. QED  BY <2>1, <2>2, <2>3, <2>4 DEF ClientStep
<1>. QED  BY <1>3, <1>4, <1>5

LEMMA EdgeStep ==
  ASSUME TypeOK, OwnInv, EdgeInv, [Next]_vars
  PROVE  EdgeInv'
<1> SUFFICES ASSUME Alive' PROVE EdgeInv'
  BY DEF EdgeInv
<1> USE DEF loopVars, curVars, poolVars, serverVars, epollVars, tcpVars, clientVars,
            networkVars
<1>1. Alive
  <2>1. MainStep => Alive
    BY DEF MainStep, Alive, Wait, Dispatch, BatchDone, Accept, AcceptNotAdded, AcceptDone,
           AcceptThrows, DrainEventFd, DropStaleResult, LoadResult, LoadResultNotArmed,
           PopDone, RecvBadFd, RecvGone, RecvDrained, RecvData, SendAbsent, SendUnit,
           SendNothing, SendBlocked, SendDone, SendDoneNotArmed, SendThrows, SendKills, SendDue
  <2>2. \A w \in Workers : WorkerStep(w) => Alive
    BY DEF WorkerStep, TakeJob, PushResult, TaskThrows, SignalResult
  <2>3. ServerIdle \/ UNCHANGED vars => Alive
    BY DEF ServerIdle, vars, Alive
  <2>. QED  BY <2>1, <2>2, <2>3 DEF Next
<1>2. AllHandled'
  BY <1>1, AllHandledStep DEF EdgeInv
<1>3. ASSUME MainStep PROVE EdgeInv'
  BY <1>1, <1>2, <1>3, MainNoticed, ServerMain DEF EdgeInv
<1>4. ASSUME NEW w \in Workers, WorkerStep(w) PROVE EdgeInv'
  <2>1. /\ ready \subseteq ready'
        /\ UNCHANGED <<pc, curVars, batch, clientMap, sock, interest, tcpVars>>
    BY <1>4 DEF WorkerStep, TakeJob, PushResult, TaskThrows, SignalResult
  <2>. QED  BY <1>1, <1>2, <2>1, OthersNoticed DEF EdgeInv
<1>5. ASSUME NEW c \in Clients, ClientStep(c), ServerIdle PROVE EdgeInv'
  BY <1>1, <1>2, <1>5, ClientNoticed DEF EdgeInv
<1>6. CASE UNCHANGED vars
  BY <1>1, <1>2, <1>6, OthersNoticed DEF vars, EdgeInv
<1>. QED  BY <1>3, <1>4, <1>5, <1>6 DEF Next

LEMMA EdgeInit == Init => EdgeInv
<1> SUFFICES ASSUME Init PROVE EdgeInv
  OBVIOUS
<1>1. \A f \in Fds : sock[f] = Nil /\ clientMap[f].id = 0
  BY DEF Init, NetworkInit, NoConnection
<1>2. \A f \in Fds : Noticed(f)
  BY <1>1 DEF Noticed, InputNoticed, OutputNoticed, Present
<1>3. Backlog = {} /\ AllHandled
  BY DEF Init, NetworkInit, Backlog, AllHandled
<1>. QED  BY <1>2, <1>3 DEF EdgeInv, ServerNoticed

LEMMA AlwaysEdge == Spec => []EdgeInv
<1>1. Routed => TypeOK /\ OwnInv
  BY DEF Routed
<1>. QED  BY <1>1, EdgeInit, EdgeStep, AlwaysRouted, PTL DEF Spec

-----------------------------------------------------------------------------
\* Reading strands nothing, for any number of clients and any size of a batch: whenever
\* main()'s recv or accept loop is left with something unread, an event is coming for it
\* (main.cpp:97-110, 194, 202).
THEOREM InputIsNoticed == Spec => []NoStrandedInput
<1>1. EdgeInv => NoStrandedInput
  BY DEF EdgeInv, Noticed, InputNoticed, ServerNoticed, NoStrandedInput
<1>. QED  BY <1>1, AlwaysEdge, PTL

\* Writing strands nothing: a response that is loaded, or cut off by EAGAIN, has EPOLLOUT
\* asked for, and its event is coming whenever the socket takes more (main.cpp:129-131,
\* 194, 224, 281-298).
THEOREM OutputIsNoticed == Spec => []NoStrandedOutput
<1>1. EdgeInv => NoStrandedOutput
  BY DEF EdgeInv, Noticed, OutputNoticed, NoStrandedOutput
<1>. QED  BY <1>1, AlwaysEdge, PTL
=============================================================================
