-------------------------- MODULE EventLoopProofs --------------------------
(***************************************************************************)
(* Proofs about EventLoop, for any sets of clients, descriptors and        *)
(* workers and any scripts.                                                *)
(***************************************************************************)
EXTENDS EventLoop, TLAPS

(***************************************************************************)
(* The parser: what it holds are the tokens it was fed.                    *)
(***************************************************************************)

\* Parsers whose tokens are all in T.
ParsersOver(T) ==
  [state : ParseState, buffer : Seq(T), method : Methods,
   head : T \cup {NoHead}, offset : Nat]

LEMMA ReadBodyOver ==
  ASSUME NEW T \in SUBSET Tokens, NEW r \in ParsersOver(T)
  PROVE  ReadBody(r) \in ParsersOver(T)
BY DEF ReadBody, ParsersOver, ParseState

LEMMA ReadHeadOver ==
  ASSUME NEW T \in SUBSET Tokens, NEW r \in ParsersOver(T), NEW i \in 1..Len(r.buffer)
  PROVE  ReadHead(r, i) \in ParsersOver(T)
<1> DEFINE t == r.buffer[i]
           m == IF i = 1 THEN MethodOf(t.kind) ELSE "other"
           s == [r EXCEPT !.method = m, !.head = t, !.offset = i]
<1>1. t \in T /\ t.kind \in Kinds
  BY DEF ParsersOver, Tokens
<1>2. m \in Methods
  BY <1>1 DEF MethodOf, Methods, Kinds
<1>. r.buffer \in Seq(T) /\ i \in Nat
  BY DEF ParsersOver
<1>3. s \in ParsersOver(T)
  <2> HIDE DEF t, m
  <2>. QED  BY <1>1, <1>2 DEF ParsersOver
<1>4. \A v \in ParseState : [s EXCEPT !.state = v] \in ParsersOver(T)
  BY <1>3 DEF ParsersOver
<1>5. ReadBody([s EXCEPT !.state = "READING_BODY"]) \in ParsersOver(T)
  BY <1>4, ReadBodyOver DEF ParseState
<1>6. ReadHead(r, i) \in {[s EXCEPT !.state = "ERROR_STATE"], [s EXCEPT !.state = "COMPLETE"],
                          ReadBody([s EXCEPT !.state = "READING_BODY"])}
  BY DEF ReadHead
<1>. QED  BY <1>4, <1>5, <1>6 DEF ParseState

LEMMA ReadLeftoversOver ==
  ASSUME NEW T \in SUBSET Tokens, NEW r \in ParsersOver(T)
  PROVE  ReadLeftovers(r) \subseteq ParsersOver(T)
<1>1. [r EXCEPT !.state = "ERROR_STATE"] \in ParsersOver(T)
  BY DEF ParsersOver, ParseState
<1>2. \A i \in 1..Len(r.buffer) : ReadHead(r, i) \in ParsersOver(T)
  BY ReadHeadOver
<1>. QED  BY <1>1, <1>2 DEF ReadLeftovers

\* HttpRequest::feed invents nothing: a parser holds what was read on its connection.
THEOREM FeedOver ==
  ASSUME NEW T \in SUBSET Tokens, NEW p \in ParsersOver(T), NEW toks \in Seq(T)
  PROVE  Feed(p, toks) \subseteq ParsersOver(T)
<1> DEFINE r == [p EXCEPT !.buffer = @ \o toks]
<1>1. r \in ParsersOver(T)
  <2>1. p.buffer \o toks \in Seq(T)
    BY DEF ParsersOver
  <2>. QED  BY <2>1 DEF ParsersOver
<1>2. r.buffer # << >> => 1 \in 1..Len(r.buffer)
  BY <1>1 DEF ParsersOver
<1>3. ReadBody(r) \in ParsersOver(T)
  BY <1>1, ReadBodyOver
<1>4. r.buffer # << >> => ReadHead(r, 1) \in ParsersOver(T)
  BY <1>1, <1>2, ReadHeadOver
<1>5. ReadLeftovers(r) \subseteq ParsersOver(T)
  BY <1>1, ReadLeftoversOver
<1>6. p.state \in ParseState
  BY DEF ParsersOver
<1>. QED  BY <1>1, <1>3, <1>4, <1>5, <1>6 DEF Feed, ParseState

-----------------------------------------------------------------------------
(***************************************************************************)
(* Types.                                                                  *)
(***************************************************************************)
LEMMA Parts ==
  /\ Nobody \in RequestIds
  /\ NoHead \in Tokens
  /\ ResetParser \in Parsers
  /\ EmptyResponse \in Responses
  /\ NoConnection \in Connections
  /\ \A id \in Nat : NewConnection(id) \in Connections
<1>1. Nobody \in RequestIds
  BY DEF Nobody, RequestIds
<1>2. NoHead \in Tokens
  BY <1>1 DEF NoHead, Tokens, Kinds
<1>3. ResetParser \in Parsers
  BY <1>2 DEF ResetParser, Parsers, ParseState, Methods
<1>4. EmptyResponse \in Responses
  BY <1>1 DEF EmptyResponse, Responses, Statuses
<1>5. NoConnection \in Connections
  BY <1>3, <1>4 DEF NoConnection, Connections
<1>6. \A id \in Nat : NewConnection(id) \in Connections
  BY <1>5 DEF NewConnection, Connections
<1>. QED  BY <1>1, <1>2, <1>3, <1>4, <1>5, <1>6

LEMMA FeedType ==
  ASSUME NEW p \in Parsers, NEW toks \in Seq(Tokens)
  PROVE  Feed(p, toks) \subseteq Parsers
<1>1. ParsersOver(Tokens) = Parsers
  BY Parts DEF ParsersOver, Parsers
<1>. QED  BY <1>1, FeedOver

LEMMA LoadType ==
  ASSUME NEW r \in Responses, NEW st \in Statuses, NEW o \in RequestIds
  PROVE  Load(r, st, o) \in Responses
BY DEF Load, Responses

LEMMA ReventsType ==
  ASSUME EpollTypeOK, NEW s \in Sources
  PROVE  Revents(s) \in SUBSET Events
BY DEF Revents, Poll, EpollTypeOK, Sources, Events

LEMMA RearmType ==
  ASSUME EpollTypeOK, NEW f \in Fds, NEW c, NEW mask \in SUBSET Events, NEW data,
         Rearm(f, c, mask, data)
  PROVE  interest' \in [Fds -> SUBSET Events] /\ ready' \in SUBSET Sources
BY DEF Rearm, EpollTypeOK, Sources

LEMMA DropType ==
  ASSUME MapTypeOK, EpollTypeOK, TcpTypeOK, NEW f \in Fds, NEW c, Drop(f, c)
  PROVE  /\ clientMap' \in [Fds -> Connections]
         /\ efdCount' = efdCount => EpollTypeOK'
         /\ UNCHANGED <<peer, outbox>> => TcpTypeOK'
<1>1. clientMap' \in [Fds -> Connections]
  BY Parts DEF Drop, MapTypeOK
<1>2. efdCount' = efdCount => EpollTypeOK'
  BY DEF Drop, EpollTypeOK
<1>3. UNCHANGED <<peer, outbox>> => TcpTypeOK'
  <2>1. << >> \in Seq(Tokens)
    OBVIOUS
  <2>. QED  BY <2>1 DEF Drop, TcpTypeOK
<1>. QED  BY <1>1, <1>2, <1>3

LEMMA InitType == Init => TypeOK
<1> SUFFICES ASSUME Init PROVE TypeOK
  OBVIOUS
<1>1. EpollTypeOK /\ TcpTypeOK /\ ClientTypeOK
  BY DEF Init, NetworkInit, EpollTypeOK, TcpTypeOK, ClientTypeOK
<1>2. NetworkTypeOK
  BY <1>1, MaxFaultsIsNat DEF Init, NetworkInit, NetworkTypeOK
<1>3. LoopTypeOK
  BY DEF Init, LoopTypeOK, Points
<1>4. MapTypeOK
  BY Parts DEF Init, MapTypeOK
<1>5. PoolTypeOK
  BY DEF Init, PoolTypeOK
<1>. QED  BY <1>2, <1>3, <1>4, <1>5 DEF Init, TypeOK

\* A group of variables that a step leaves alone keeps its types.
LEMMA Frames ==
  /\ LoopTypeOK /\ UNCHANGED loopVars => LoopTypeOK'
  /\ MapTypeOK /\ UNCHANGED <<clientMap, nextConnId>> => MapTypeOK'
  /\ PoolTypeOK /\ UNCHANGED poolVars => PoolTypeOK'
  /\ EpollTypeOK /\ UNCHANGED <<sock, interest, ready, efdCount>> => EpollTypeOK'
  /\ TcpTypeOK /\ UNCHANGED tcpVars => TcpTypeOK'
  /\ ClientTypeOK /\ UNCHANGED clientVars => ClientTypeOK'
<1>1. LoopTypeOK /\ UNCHANGED loopVars => LoopTypeOK'
  BY DEF LoopTypeOK, loopVars
<1>2. MapTypeOK /\ UNCHANGED <<clientMap, nextConnId>> => MapTypeOK'
  BY DEF MapTypeOK
<1>3. PoolTypeOK /\ UNCHANGED poolVars => PoolTypeOK'
  BY DEF PoolTypeOK, poolVars
<1>4. EpollTypeOK /\ UNCHANGED <<sock, interest, ready, efdCount>> => EpollTypeOK'
  BY DEF EpollTypeOK
<1>5. TcpTypeOK /\ UNCHANGED tcpVars => TcpTypeOK'
  BY DEF TcpTypeOK, tcpVars
<1>6. ClientTypeOK /\ UNCHANGED clientVars => ClientTypeOK'
  BY DEF ClientTypeOK, clientVars
<1>. QED  BY <1>1, <1>2, <1>3, <1>4, <1>5, <1>6

\* recv() and feed(), in their five outcomes.
LEMMA RecvDataType == TypeOK /\ RecvData => TypeOK'
<1> SUFFICES ASSUME TypeOK, RecvData PROVE TypeOK'
  OBVIOUS
<1> USE DEF TypeOK, NetworkTypeOK, loopVars, curVars, poolVars, serverVars,
            epollVars, tcpVars, clientVars, networkVars
<1> DEFINE f == cur
           c == sock[cur]
<1>1. /\ pc = "recv" /\ f \in Fds /\ c \in Clients
      /\ UNCHANGED <<batch, nextConnId, stage, task, results, efdCount, peer, outbox,
                     clientVars>>
  BY DEF RecvData, LoopTypeOK, EpollTypeOK
<1>2. PICK k \in 1..Len(inbox[c]) :
        \E r \in Feed(clientMap[f].request, SubSeq(inbox[c], 1, k)) :
          Serve(f, c, r, SubSeq(inbox[c], k + 1, Len(inbox[c])))
  BY DEF RecvData
<1> DEFINE rest == SubSeq(inbox[c], k + 1, Len(inbox[c]))
           toks == SubSeq(inbox[c], 1, k)
<1>3. inbox[c] \in Seq(Tokens)
  BY <1>1 DEF TcpTypeOK
<1>4. rest \in Seq(Tokens) /\ toks \in Seq(Tokens)
  BY <1>3
<1>5. PICK r \in Feed(clientMap[f].request, toks) : Serve(f, c, r, rest)
  BY <1>2
<1>6. clientMap[f] \in Connections
  BY <1>1 DEF MapTypeOK
<1>7. r \in Parsers
  BY <1>4, <1>5, <1>6, FeedType DEF Connections
<1> HIDE DEF f, c, rest, toks
<1>8. inbox' = [inbox EXCEPT ![c] = rest] /\ phase' = phase => TcpTypeOK'
  BY <1>1, <1>4 DEF TcpTypeOK
<1>9. ASSUME NEW resp \in Responses, NEW q \in Parsers,
             clientMap' = [clientMap EXCEPT ![f].response = resp, ![f].request = q]
      PROVE  MapTypeOK'
  BY <1>1, <1>6, <1>9 DEF MapTypeOK, Connections
<1>10. ASSUME NEW st \in Statuses
       PROVE  Load(clientMap[f].response, st, Nobody) \in Responses
  BY <1>6, Parts, LoadType DEF Connections
<1>11. Rearm(f, c, WriteInterest, rest) /\ sock' = sock => EpollTypeOK'
  BY <1>1, RearmType DEF WriteInterest, Events, EpollTypeOK
<1>12. jobs' = jobs => PoolTypeOK'
  BY <1>1 DEF PoolTypeOK
<1>13. LeaveRecv => LoopTypeOK'
  BY <1>1 DEF LeaveRecv, NextEvent, LoopTypeOK, Points, f
<1>14. UNCHANGED <<curVars, pc>> => LoopTypeOK'
  BY <1>1, Frames
<1>15. ClientTypeOK' /\ (faults' = faults => faults' \in 0..MaxFaults)
  BY <1>1, Frames
<1>16. CASE KeepReading(f, c, r, rest)
  <2>1. MapTypeOK'
    BY <1>1, <1>6, <1>7, <1>16 DEF KeepReading, MapTypeOK, Connections
  <2>. QED  BY <1>1, <1>8, <1>12, <1>14, <1>15, <1>16, <2>1, Frames DEF KeepReading, Consume
<1>17. CASE BadRequest(f, c, r, rest)
  <2>1. MapTypeOK'
    BY <1>9, <1>10, <1>17, Parts DEF BadRequest, Statuses
  <2>. QED  BY <1>1, <1>8, <1>11, <1>12, <1>13, <1>15, <1>17, <2>1 DEF BadRequest, Consume
<1>18. CASE Preflight(f, c, r, rest)
  <2>1. MapTypeOK'
    BY <1>9, <1>10, <1>18, Parts DEF Preflight, Statuses
  <2>. QED  BY <1>1, <1>8, <1>11, <1>12, <1>14, <1>15, <1>18, <2>1
            DEF Preflight, Consume, AfterRequest
<1>19. CASE ReplyNotArmed(f, c, r)
  <2>1. MapTypeOK' /\ EpollTypeOK' /\ TcpTypeOK'
    BY <1>1, <1>19, DropType DEF ReplyNotArmed, MapTypeOK
  <2>2. LoopTypeOK'
    BY <1>1, <1>19 DEF ReplyNotArmed, NextEvent, LoopTypeOK, Points
  <2>3. faults' \in 0..MaxFaults
    BY <1>19, MaxFaultsIsNat DEF ReplyNotArmed, Fault
  <2>. QED  BY <1>1, <1>12, <1>15, <1>19, <2>1, <2>2, <2>3 DEF ReplyNotArmed
<1>20. CASE Submit(f, c, r, rest)
  <2>1. MapTypeOK'
    BY <1>1, <1>6, <1>20, Parts DEF Submit, MapTypeOK, Connections
  <2>2. JobOf(f, r) \in Jobs
    <3>1. r.head \in Tokens
      BY <1>7 DEF Parsers
    <3>. QED  BY <1>1, <1>6, <3>1 DEF JobOf, Jobs, Connections, Tokens
  <2>3. PoolTypeOK'
    BY <1>1, <1>20, <2>2 DEF Submit, PoolTypeOK
  <2>. QED  BY <1>1, <1>8, <1>14, <1>15, <1>20, <2>1, <2>3, Frames
            DEF Submit, Consume, AfterRequest
<1>. QED  BY <1>5, <1>16, <1>17, <1>18, <1>19, <1>20 DEF Serve

\* Every step keeps the types: the event loop first.
LEMMA MainStepType == TypeOK /\ MainStep => TypeOK'
<1> SUFFICES ASSUME TypeOK, MainStep PROVE TypeOK'
  OBVIOUS
<1> USE DEF TypeOK, NetworkTypeOK, loopVars, curVars, poolVars, serverVars,
            epollVars, tcpVars, clientVars, networkVars
<1>1. CASE Wait
  <2>1. ASSUME NEW taken \in SUBSET ready
        PROVE  [s \in Sources |-> IF s \in taken THEN Revents(s) ELSE {}]
                 \in [Sources -> SUBSET Events]
    BY ReventsType
  <2>2. LoopTypeOK'
    BY <1>1, <2>1 DEF Wait, LoopTypeOK, Points
  <2>3. EpollTypeOK'
    BY <1>1 DEF Wait, EpollTypeOK
  <2>. QED  BY <1>1, <2>2, <2>3, Frames DEF Wait
<1>2. CASE Dispatch
  <2> PICK s \in Sources :
        /\ batch[s] # {}
        /\ batch' = [batch EXCEPT ![s] = {}]
        /\ IF s = serverFd THEN pc' = "accept" /\ UNCHANGED curVars
           ELSE IF s = efd THEN pc' = "drain" /\ UNCHANGED curVars
           ELSE /\ pc' = IF "IN" \in batch[s] THEN "recv" ELSE "send"
                /\ cur' = s
                /\ curOut' = ("OUT" \in batch[s])
    BY <1>2 DEF Dispatch
  <2>2. batch' \in [Sources -> SUBSET Events]
    BY DEF LoopTypeOK
  <2>3. s \in {serverFd, efd} \/ s \in Fds
    BY DEF Sources
  <2>4. pc' \in Points /\ cur' \in Fds \cup {Nil}
        /\ (pc' \in {"recv", "send", "flush"} => cur' \in Fds)
    BY <2>3 DEF LoopTypeOK, Points
  <2>5. curOut' \in BOOLEAN
    <3>1. CASE UNCHANGED curVars
      BY <3>1 DEF LoopTypeOK
    <3>2. CASE curOut' = ("OUT" \in batch[s])
      <4>1. ("OUT" \in batch[s]) \in BOOLEAN
        OBVIOUS
      <4>. QED  BY <3>2, <4>1, Zenon
    <3>. QED  BY <3>1, <3>2
  <2>1. LoopTypeOK'
    BY <2>2, <2>4, <2>5 DEF LoopTypeOK
  <2>. QED  BY <1>2, <2>1, Frames DEF Dispatch
<1>3. CASE BatchDone
  <2>1. LoopTypeOK'
    BY <1>3 DEF BatchDone, LoopTypeOK, Points
  <2>. QED  BY <1>3, <2>1, Frames DEF BatchDone
<1>4. CASE Accept
  <2> PICK c \in Backlog, f \in FreeFds :
        /\ sock' = [sock EXCEPT ![f] = c]
        /\ phase' = [phase EXCEPT ![c] = "open"]
        /\ clientMap' = [clientMap EXCEPT ![f] = NewConnection(nextConnId)]
        /\ Rearm(f, c, ReadInterest, inbox[c])
    BY <1>4 DEF Accept
  <2> c \in Clients /\ f \in Fds
    BY DEF Backlog, FreeFds
  <2>1. LoopTypeOK'
    BY <1>4 DEF Accept, AfterAccept, LoopTypeOK, Points
  <2>2. MapTypeOK'
    BY <1>4, Parts DEF Accept, MapTypeOK
  <2>3. interest' \in [Fds -> SUBSET Events] /\ ready' \in SUBSET Sources
    BY RearmType DEF ReadInterest, Events
  <2>4. EpollTypeOK'
    BY <1>4, <2>3 DEF Accept, EpollTypeOK
  <2>5. TcpTypeOK'
    BY <1>4 DEF Accept, TcpTypeOK
  <2>. QED  BY <1>4, <2>1, <2>2, <2>4, <2>5, Frames DEF Accept
<1>5. CASE AcceptNotAdded
  <2>1. MapTypeOK'
    BY <1>5 DEF AcceptNotAdded, MapTypeOK
  <2>2. << >> \in Seq(Tokens)
    OBVIOUS
  <2>3. TcpTypeOK'
    BY <1>5, <2>2 DEF AcceptNotAdded, TcpTypeOK
  <2>4. EpollTypeOK' /\ faults' \in 0..MaxFaults
    BY <1>5, MaxFaultsIsNat DEF AcceptNotAdded, Fault, EpollTypeOK
  <2>. QED  BY <1>5, <2>1, <2>3, <2>4, Frames DEF AcceptNotAdded
<1>6. CASE AcceptDone
  <2>1. LoopTypeOK'
    BY <1>6 DEF AcceptDone, LoopTypeOK, Points
  <2>. QED  BY <1>6, <2>1, Frames DEF AcceptDone
<1>7. CASE AcceptThrows
  <2>1. LoopTypeOK'
    BY <1>7 DEF AcceptThrows, LoopTypeOK, Points
  <2>. QED  BY <1>7, <2>1, Frames DEF AcceptThrows
<1>8. CASE DrainEventFd
  <2>1. LoopTypeOK'
    BY <1>8 DEF DrainEventFd, LoopTypeOK, Points
  <2>2. EpollTypeOK'
    BY <1>8 DEF DrainEventFd, EpollTypeOK
  <2>. QED  BY <1>8, <2>1, <2>2, Frames DEF DrainEventFd
<1>9. CASE DropStaleResult
  <2>1. LoopTypeOK'
    BY <1>9 DEF DropStaleResult, AfterPop, LoopTypeOK, Points
  <2>2. results' \in Seq(ComputeResults)
    BY <1>9 DEF DropStaleResult
  <2>. QED  BY <1>9, <2>1, <2>2, Frames DEF DropStaleResult
<1>10. CASE LoadResult
  <2> DEFINE cr == Head(results)
             c == sock[cr.fd]
  <2>1. cr \in ComputeResults /\ Tail(results) \in Seq(ComputeResults)
    BY <1>10 DEF LoadResult
  <2>2. cr.fd \in Fds /\ cr.of \in RequestIds
    BY <2>1 DEF ComputeResults
  <2>3. /\ clientMap' = [clientMap EXCEPT ![cr.fd].response = Load(@, 200, cr.of)]
        /\ Rearm(cr.fd, c, WriteInterest, inbox[c])
        /\ results' = Tail(results) /\ pc' = "pop"
        /\ UNCHANGED <<curVars, batch, nextConnId, poolVars, sock, efdCount, tcpVars,
                       clientVars, faults>>
    BY <1>10 DEF LoadResult, AfterPop
  <2> HIDE DEF cr, c
  <2>4. LoopTypeOK'
    BY <2>3 DEF LoopTypeOK, Points
  <2>5. Load(clientMap[cr.fd].response, 200, cr.of) \in Responses
    BY <2>2, LoadType DEF MapTypeOK, Connections, Statuses
  <2>6. MapTypeOK'
    BY <2>2, <2>3, <2>5 DEF MapTypeOK, Connections
  <2>7. interest' \in [Fds -> SUBSET Events] /\ ready' \in SUBSET Sources
    BY <2>2, <2>3, RearmType DEF WriteInterest, Events
  <2>8. EpollTypeOK'
    BY <2>3, <2>7 DEF EpollTypeOK
  <2>. QED  BY <2>1, <2>3, <2>4, <2>6, <2>8, Frames
<1>11. CASE LoadResultNotArmed
  <2> DEFINE cr == Head(results)
  <2>1. cr \in ComputeResults /\ Tail(results) \in Seq(ComputeResults)
    BY <1>11 DEF LoadResultNotArmed
  <2>2. Drop(cr.fd, sock[cr.fd]) /\ cr.fd \in Fds
    BY <1>11, <2>1 DEF LoadResultNotArmed, ComputeResults
  <2>3. LoopTypeOK'
    BY <1>11 DEF LoadResultNotArmed, AfterPop, LoopTypeOK, Points
  <2>4. MapTypeOK' /\ EpollTypeOK' /\ TcpTypeOK'
    BY <1>11, <2>2, DropType DEF LoadResultNotArmed, MapTypeOK
  <2>5. results' \in Seq(ComputeResults) /\ faults' \in 0..MaxFaults
    BY <1>11, <2>1, MaxFaultsIsNat DEF LoadResultNotArmed, Fault
  <2>. QED  BY <1>11, <2>3, <2>4, <2>5, Frames DEF LoadResultNotArmed
<1>12. CASE PopDone
  <2>1. LoopTypeOK'
    BY <1>12 DEF PopDone, LoopTypeOK, Points
  <2>. QED  BY <1>12, <2>1, Frames DEF PopDone
<1>13. CASE RecvBadFd
  <2>1. LoopTypeOK'
    BY <1>13 DEF RecvBadFd, NextEvent, LoopTypeOK, Points
  <2>. QED  BY <1>13, <2>1, Frames DEF RecvBadFd
<1>14. CASE RecvGone
  <2>1. Drop(cur, sock[cur]) /\ cur \in Fds
    BY <1>14 DEF RecvGone, LoopTypeOK
  <2>2. LoopTypeOK'
    BY <1>14 DEF RecvGone, NextEvent, LoopTypeOK, Points
  <2>3. MapTypeOK' /\ EpollTypeOK' /\ TcpTypeOK'
    BY <1>14, <2>1, DropType DEF RecvGone, MapTypeOK
  <2>. QED  BY <1>14, <2>2, <2>3, Frames DEF RecvGone
<1>15. CASE RecvDrained
  <2>1. LoopTypeOK'
    BY <1>15 DEF RecvDrained, LeaveRecv, NextEvent, LoopTypeOK, Points
  <2>. QED  BY <1>15, <2>1, Frames DEF RecvDrained
<1>16. CASE RecvData
  BY <1>16, RecvDataType
<1>17. CASE SendAbsent
  <2>1. LoopTypeOK'
    BY <1>17 DEF SendAbsent, NextEvent, LoopTypeOK, Points
  <2>. QED  BY <1>17, <2>1, Frames DEF SendAbsent
<1>18. CASE SendUnit
  <2> DEFINE c == sock[cur]
             r == clientMap[cur].response
  <2>1. /\ cur \in Fds
        /\ outbox' = [outbox EXCEPT ![c] = Append(@, NextUnit(r))]
        /\ clientMap' = [clientMap EXCEPT ![cur].response.sent = @ + 1]
        /\ pc' = AfterUnit(r)
    BY <1>18 DEF SendUnit, LoopTypeOK
  <2>2. r \in Responses
    BY <2>1 DEF MapTypeOK, Connections
  <2>3. NextUnit(r) \in Units
    BY <2>2 DEF NextUnit, Units, Responses
  <2>4. LoopTypeOK'
    BY <1>18, <2>1 DEF SendUnit, AfterUnit, LoopTypeOK, Points
  <2>5. [r EXCEPT !.sent = @ + 1] \in Responses
    BY <2>2 DEF Responses
  <2>6. MapTypeOK'
    <3>1. clientMap' = [clientMap EXCEPT ![cur] = [@ EXCEPT !.response = [r EXCEPT !.sent = @ + 1]]]
      BY <2>1
    <3>. QED  BY <1>18, <2>1, <2>5, <3>1 DEF SendUnit, MapTypeOK, Connections
  <2> HIDE DEF c, r
  <2>7. outbox' \in [Clients -> Seq(Units)]
    <3>1. CASE c \in Clients
      BY <2>1, <2>3, <3>1 DEF TcpTypeOK
    <3>2. CASE c \notin Clients
      BY <2>1, <3>2 DEF TcpTypeOK
    <3>. QED  BY <3>1, <3>2
  <2>8. TcpTypeOK'
    BY <1>18, <2>7 DEF SendUnit, TcpTypeOK
  <2>. QED  BY <1>18, <2>4, <2>6, <2>8, Frames DEF SendUnit
<1>19. CASE SendNothing
  <2>1. LoopTypeOK'
    BY <1>19 DEF SendNothing, LoopTypeOK, Points
  <2>. QED  BY <1>19, <2>1, Frames DEF SendNothing
<1>20. CASE SendBlocked
  <2>1. LoopTypeOK'
    BY <1>20 DEF SendBlocked, NextEvent, LoopTypeOK, Points
  <2>. QED  BY <1>20, <2>1, Frames DEF SendBlocked
<1>21. CASE SendDone
  <2>1. /\ cur \in Fds
        /\ clientMap' = [clientMap EXCEPT ![cur].response = EmptyResponse]
        /\ Rearm(cur, sock[cur], ReadInterest, inbox[sock[cur]])
    BY <1>21 DEF SendDone, Reset, LoopTypeOK
  <2>2. LoopTypeOK'
    BY <1>21 DEF SendDone, NextEvent, LoopTypeOK, Points
  <2>3. MapTypeOK'
    BY <1>21, <2>1, Parts DEF SendDone, MapTypeOK, Connections
  <2>4. interest' \in [Fds -> SUBSET Events] /\ ready' \in SUBSET Sources
    BY <2>1, RearmType DEF ReadInterest, Events
  <2>5. EpollTypeOK'
    BY <1>21, <2>4 DEF SendDone, EpollTypeOK
  <2>. QED  BY <1>21, <2>2, <2>3, <2>5, Frames DEF SendDone
<1>22. CASE SendDoneNotArmed
  <2>1. Drop(cur, sock[cur]) /\ cur \in Fds
    BY <1>22 DEF SendDoneNotArmed, LoopTypeOK
  <2>2. LoopTypeOK'
    BY <1>22 DEF SendDoneNotArmed, NextEvent, LoopTypeOK, Points
  <2>3. MapTypeOK' /\ EpollTypeOK' /\ TcpTypeOK'
    BY <1>22, <2>1, DropType DEF SendDoneNotArmed, MapTypeOK
  <2>4. faults' \in 0..MaxFaults
    BY <1>22, MaxFaultsIsNat DEF SendDoneNotArmed, Fault
  <2>. QED  BY <1>22, <2>2, <2>3, <2>4, Frames DEF SendDoneNotArmed
<1>23. CASE SendThrows
  <2>1. Drop(cur, sock[cur]) /\ cur \in Fds
    BY <1>23 DEF SendThrows, SendDue, LoopTypeOK
  <2>2. LoopTypeOK'
    BY <1>23 DEF SendThrows, NextEvent, LoopTypeOK, Points
  <2>3. MapTypeOK' /\ EpollTypeOK' /\ TcpTypeOK'
    BY <1>23, <2>1, DropType DEF SendThrows, MapTypeOK
  <2>. QED  BY <1>23, <2>2, <2>3, Frames DEF SendThrows
<1>24. CASE SendKills
  <2>1. LoopTypeOK'
    BY <1>24 DEF SendKills, LoopTypeOK, Points
  <2>. QED  BY <1>24, <2>1, Frames DEF SendKills
<1>. QED
  BY <1>1, <1>2, <1>3, <1>4, <1>5, <1>6, <1>7, <1>8, <1>9, <1>10, <1>11, <1>12, <1>13,
     <1>14, <1>15, <1>16, <1>17, <1>18, <1>19, <1>20, <1>21, <1>22, <1>23, <1>24
     DEF MainStep

LEMMA WorkerStepType ==
  ASSUME TypeOK, NEW w \in Workers, WorkerStep(w)
  PROVE  TypeOK'
<1> USE DEF TypeOK, NetworkTypeOK, loopVars, curVars, poolVars, serverVars,
            epollVars, tcpVars, clientVars, networkVars
<1>1. CASE TakeJob(w)
  <2>1. Head(jobs) \in Jobs /\ Tail(jobs) \in Seq(Jobs)
    BY <1>1 DEF TakeJob, PoolTypeOK
  <2>2. PoolTypeOK'
    BY <1>1, <2>1 DEF TakeJob, PoolTypeOK
  <2>. QED  BY <1>1, <2>2, Frames DEF TakeJob
<1>2. CASE PushResult(w)
  <2>1. task[w] \in Jobs
    BY <1>2 DEF PushResult, PoolTypeOK
  <2>2. results' \in Seq(ComputeResults)
    BY <1>2, <2>1 DEF PushResult, Jobs, ComputeResults
  <2>3. PoolTypeOK'
    BY <1>2, <2>1 DEF PushResult, PoolTypeOK
  <2>. QED  BY <1>2, <2>2, <2>3, Frames DEF PushResult
<1>3. CASE TaskThrows(w)
  <2>1. PoolTypeOK'
    BY <1>3 DEF TaskThrows, PoolTypeOK
  <2>. QED  BY <1>3, <2>1, Frames DEF TaskThrows
<1>4. CASE SignalResult(w)
  <2>1. PoolTypeOK'
    BY <1>4 DEF SignalResult, PoolTypeOK
  <2>2. EpollTypeOK'
    BY <1>4 DEF SignalResult, EpollTypeOK, Sources
  <2>. QED  BY <1>4, <2>1, <2>2, Frames DEF SignalResult
<1>. QED  BY <1>1, <1>2, <1>3, <1>4 DEF WorkerStep

LEMMA WakeType ==
  ASSUME EpollTypeOK, NEW c, NEW e, Wake(c, e)
  PROVE  ready' \in SUBSET Sources
BY DEF EpollTypeOK, Wake, Sources

LEMMA TokenType ==
  ASSUME ClientTypeOK, NEW c \in Clients, NEW n \in 1..Len(script[c]),
         NEW part \in {"head", "body"}
  PROVE  /\ Token(c, n, part) \in [of : [client : {c}, n : Nat], kind : Kinds,
                                   part : {"head", "body"}]
         /\ HasBody(script[c][n]) \in BOOLEAN
<1>1. script[c] \in Seq(Kinds)
  BY ScriptsAreKinds DEF ClientTypeOK
<1>2. script[c][n] \in Kinds
  BY <1>1
<1>. QED  BY <1>1, <1>2 DEF Token, HasBody

LEMMA ClientStepType ==
  ASSUME TypeOK, NEW c \in Clients, ClientStep(c), ServerIdle
  PROVE  TypeOK'
<1> USE DEF TypeOK, NetworkTypeOK, loopVars, curVars, poolVars, serverVars,
            epollVars, tcpVars, clientVars, networkVars
<1>1. /\ LoopTypeOK' /\ MapTypeOK' /\ PoolTypeOK' /\ results' \in Seq(ComputeResults)
      /\ faults' \in 0..MaxFaults
      /\ ready' \in SUBSET Sources => EpollTypeOK'
  BY Frames DEF ServerIdle, EpollTypeOK
<1>2. \A part \in {"head", "body"}, n \in 1..Len(script[c]) : Token(c, n, part) \in Tokens
  BY TokenType DEF Tokens, RequestIds
<1>3. CASE Connect(c)
  <2>1. TcpTypeOK' /\ ready' \in SUBSET Sources
    BY <1>3 DEF Connect, TcpTypeOK, EpollTypeOK, Sources
  <2>. QED  BY <1>1, <1>3, <2>1, Frames DEF Connect
<1>4. CASE SendHead(c)
  <2>1. begun[c] + 1 \in 1..Len(script[c]) /\ script[c] \in Seq(Kinds)
    BY <1>4, ScriptsAreKinds DEF SendHead, ClientTypeOK
  <2>2. Token(c, begun[c] + 1, "head") \in Tokens
    BY <1>2, <2>1
  <2>3. TcpTypeOK'
    BY <1>4, <2>2 DEF SendHead, TcpTypeOK
  <2>4. ClientTypeOK'
    BY <1>4, <2>1, TokenType DEF SendHead, ClientTypeOK
  <2>. QED  BY <1>1, <1>4, <2>3, <2>4, WakeType DEF SendHead
<1>5. CASE SendBody(c)
  <2>1. begun[c] \in 1..Len(script[c])
    BY <1>5, ScriptsAreKinds DEF SendBody, ClientTypeOK
  <2>2. Token(c, begun[c], "body") \in Tokens
    BY <1>2, <2>1
  <2>3. TcpTypeOK'
    BY <1>5, <2>2 DEF SendBody, TcpTypeOK
  <2>4. ClientTypeOK'
    BY <1>5 DEF SendBody, ClientTypeOK
  <2>. QED  BY <1>1, <1>5, <2>3, <2>4, WakeType DEF SendBody
<1>6. CASE Receive(c)
  <2>1. ready' \in SUBSET Sources
    BY <1>6, WakeType DEF Receive, EpollTypeOK
  <2>2. TcpTypeOK'
    BY <1>6 DEF Receive, TcpTypeOK
  <2>3. got[c] \o outbox[c] \in Seq(Units)
    BY DEF TcpTypeOK, ClientTypeOK
  <2>4. ClientTypeOK'
    BY <1>6, <2>3 DEF Receive, ClientTypeOK
  <2>. QED  BY <1>1, <2>1, <2>2, <2>4
<1>7. CASE Leave(c)
  <2>1. TcpTypeOK'
    BY <1>7, LeavingIsKnown DEF Leave, TcpTypeOK
  <2>. QED  BY <1>1, <1>7, <2>1, Frames, WakeType DEF Leave
<1>8. CASE ResetArrives(c)
  <2>1. TcpTypeOK'
    BY <1>8 DEF ResetArrives, TcpTypeOK
  <2>. QED  BY <1>1, <1>8, <2>1, Frames, WakeType DEF ResetArrives
<1>. QED  BY <1>3, <1>4, <1>5, <1>6, <1>7, <1>8 DEF ClientStep

LEMMA TypeStep == TypeOK /\ [Next]_vars => TypeOK'
<1>1. ASSUME TypeOK, UNCHANGED vars PROVE TypeOK'
  BY <1>1, Frames DEF TypeOK, NetworkTypeOK, vars, loopVars, curVars, poolVars, serverVars,
                      epollVars, tcpVars, clientVars, networkVars
<1>. QED  BY <1>1, MainStepType, WorkerStepType, ClientStepType DEF Next

\* Type correctness, for any instance: no step of the server, the kernel or a client
\* leaves a value out of its type.
THEOREM TypeCorrect == Spec => []TypeOK
<1>. QED  BY InitType, TypeStep, PTL DEF Spec

-----------------------------------------------------------------------------
(***************************************************************************)
(* The doorbell.  Only a push makes the queue of results non-empty, the    *)
(* pusher rings after it, the ring lasts until the counter is read, and    *)
(* the loop that has read the counter stops taking results only when there *)
(* are none.  What makes it inductive: the loop asks for new events only   *)
(* when it has handled the eventfd's.                                      *)
(***************************************************************************)
Handled == pc = "wait" => batch[efd] = {}
Doorbell == NoLostResult /\ Handled

\* The doorbell rings at the eventfd, where only the event loop can silence it.
Rung == efdCount > 0 /\ (efd \in ready \/ batch[efd] # {})

LEMMA DropKeepsEfd ==
  ASSUME NEW f \in Fds, NEW c, Drop(f, c)
  PROVE  efd \in ready => efd \in ready'
BY DescriptorsDistinct DEF Drop

\* The loop waits for new events only when its batch is empty.
LEMMA BackToWait ==
  ASSUME [Next]_vars
  PROVE  BatchDone \/ UNCHANGED <<pc, batch>> \/ pc' # "wait"
<1> USE DEF loopVars, curVars
<1>1. ASSUME MainStep PROVE BatchDone \/ UNCHANGED <<pc, batch>> \/ pc' # "wait"
  <2>1. RecvData => pc = "recv" /\ (pc' # "wait" \/ pc' = pc)
    BY DEF RecvData, Serve, KeepReading, BadRequest, Preflight, ReplyNotArmed, Submit, LeaveRecv,
           NextEvent, AfterRequest
  <2>2. AcceptNotAdded => UNCHANGED <<pc, batch>>
    BY DEF AcceptNotAdded
  <2>. QED
    BY <1>1, <2>1, <2>2
       DEF MainStep, Wait, Dispatch, Accept, AcceptDone, AcceptThrows, DrainEventFd,
           DropStaleResult, LoadResult, LoadResultNotArmed, PopDone, RecvBadFd, RecvGone,
           RecvDrained, SendAbsent, SendUnit, SendNothing, SendBlocked, SendDone,
           SendDoneNotArmed, SendThrows, SendKills, NextEvent, LeaveRecv, AfterUnit,
           AfterAccept, AfterPop
<1>2. ASSUME NEW w \in Workers, WorkerStep(w) PROVE UNCHANGED <<pc, batch>>
  BY <1>2 DEF WorkerStep, TakeJob, PushResult, TaskThrows, SignalResult
<1>3. ServerIdle \/ UNCHANGED vars => UNCHANGED <<pc, batch>>
  BY DEF ServerIdle, vars
<1>. QED  BY <1>1, <1>2, <1>3 DEF Next

LEMMA HandledStep == TypeOK /\ Handled /\ [Next]_vars => Handled'
<1> SUFFICES ASSUME TypeOK, Handled, [Next]_vars PROVE Handled'
  OBVIOUS
<1>1. CASE UNCHANGED <<pc, batch>> \/ pc' # "wait"
  BY <1>1 DEF Handled
<1>2. CASE BatchDone
  BY <1>2 DEF BatchDone, Handled, Sources
<1>. QED  BY <1>1, <1>2, BackToWait

\* The steps of the event loop.
LEMMA DoorbellMain ==
  ASSUME TypeOK, Doorbell, MainStep
  PROVE  NoLostResult'
<1> SUFFICES ASSUME Alive', results' # << >> PROVE Ringing'
  BY DEF NoLostResult
<1> USE DEF loopVars, curVars, poolVars, serverVars, epollVars, tcpVars, clientVars,
            networkVars
<1>1. Alive
  BY DEF MainStep, Alive, Wait, Dispatch, BatchDone, Accept, AcceptNotAdded, AcceptDone,
         AcceptThrows, DrainEventFd, DropStaleResult, LoadResult, LoadResultNotArmed,
         PopDone, RecvBadFd, RecvGone, RecvDrained, RecvData, SendAbsent, SendUnit,
         SendNothing, SendBlocked, SendDone, SendDoneNotArmed, SendThrows, SendKills, SendDue
<1>2. ASSUME results' = results PROVE Ringing
  BY <1>1, <1>2 DEF NoLostResult, Doorbell
<1>3. ASSUME stage' = stage, NEW w \in Workers, stage[w] = "signal" PROVE Ringing'
  BY <1>3 DEF Ringing
<1>4. ASSUME results' = results, stage' = stage, pc \notin {"drain", "pop"},
             Rung => Rung'
      PROVE  Ringing'
  BY <1>2, <1>3, <1>4 DEF Ringing, Rung
<1>5. ASSUME results' = results, stage' = stage, pc \notin {"drain", "pop"},
             efdCount' = efdCount, batch' = batch, efd \in ready => efd \in ready'
      PROVE  Ringing'
  BY <1>4, <1>5 DEF Rung
<1>6. CASE Wait
  <2>1. PICK taken \in SUBSET ready :
          /\ batch' = [s \in Sources |-> IF s \in taken THEN Revents(s) ELSE {}]
          /\ ready' = ready \ taken
    BY <1>6 DEF Wait
  <2>2. Rung => Rung'
    <3> SUFFICES ASSUME Rung PROVE Rung'
      OBVIOUS
    <3>1. Revents(efd) # {}
      BY DescriptorsDistinct DEF Revents, Rung
    <3>2. efd \in ready
      BY <1>6 DEF Wait, Rung, Doorbell, Handled
    <3>. QED  BY <1>6, <2>1, <3>1, <3>2 DEF Wait, Rung, Sources
  <2>. QED  BY <1>4, <1>6, <2>2 DEF Wait
<1>7. CASE Dispatch
  <2>1. PICK s \in Sources : /\ batch' = [batch EXCEPT ![s] = {}]
                             /\ s = efd => pc' = "drain"
    BY <1>7, DescriptorsDistinct DEF Dispatch
  <2>2. CASE s = efd
    BY <2>1, <2>2 DEF Ringing
  <2>3. CASE s # efd
    <3>1. batch'[efd] = batch[efd]
      BY <2>1, <2>3 DEF TypeOK, LoopTypeOK, Sources
    <3>. QED  BY <1>4, <1>7, <3>1 DEF Dispatch, Rung
  <2>. QED  BY <2>2, <2>3
<1>8. CASE DrainEventFd \/ DropStaleResult \/ LoadResult \/ LoadResultNotArmed
  BY <1>8 DEF DrainEventFd, DropStaleResult, LoadResult, LoadResultNotArmed, AfterPop, Ringing
<1>9. CASE PopDone
  BY <1>9 DEF PopDone
<1>10. CASE \/ BatchDone \/ AcceptNotAdded \/ AcceptDone \/ AcceptThrows \/ RecvBadFd
            \/ RecvDrained \/ SendAbsent \/ SendUnit \/ SendNothing \/ SendBlocked
            \/ SendKills
  BY <1>5, <1>10
     DEF BatchDone, AcceptNotAdded, AcceptDone, AcceptThrows, RecvBadFd, RecvDrained,
         SendAbsent, SendUnit, SendNothing, SendBlocked, SendKills, SendDue
<1>11. CASE Accept \/ SendDone
  BY <1>5, <1>11 DEF Accept, SendDone, Rearm
<1>12. CASE RecvGone \/ SendDoneNotArmed \/ SendThrows
  <2>1. cur \in Fds /\ Drop(cur, sock[cur])
    BY <1>12 DEF RecvGone, SendDoneNotArmed, SendThrows, SendDue, TypeOK, LoopTypeOK
  <2>2. efd \in ready => efd \in ready'
    BY <2>1, DropKeepsEfd
  <2>. QED  BY <1>5, <1>12, <2>2 DEF RecvGone, SendDoneNotArmed, SendThrows, SendDue
<1>13. CASE RecvData
  <2>1. cur \in Fds
    BY <1>13 DEF RecvData, TypeOK, LoopTypeOK
  <2>2. \A r, rest : Serve(cur, sock[cur], r, rest) => (efd \in ready => efd \in ready')
    BY <2>1, DropKeepsEfd
       DEF Serve, KeepReading, BadRequest, Preflight, ReplyNotArmed, Submit, Rearm
  <2>3. efd \in ready => efd \in ready'
    BY <1>13, <2>2 DEF RecvData
  <2>. QED  BY <1>5, <1>13, <2>3 DEF RecvData
<1>. QED
  BY <1>6, <1>7, <1>8, <1>9, <1>10, <1>11, <1>12, <1>13 DEF MainStep

\* The workers ring after they push, and the clients do not touch the eventfd.
LEMMA DoorbellOthers ==
  ASSUME TypeOK, Doorbell,
         \/ \E w \in Workers : WorkerStep(w)
         \/ \E c \in Clients : ClientStep(c) /\ ServerIdle
         \/ UNCHANGED vars
  PROVE  NoLostResult'
<1> USE DEF loopVars, poolVars, serverVars, epollVars, tcpVars, clientVars, networkVars
<1>1. ASSUME NEW w \in Workers, WorkerStep(w) PROVE NoLostResult'
  <2>1. CASE TakeJob(w)
    BY <2>1 DEF TakeJob, Doorbell, NoLostResult, Ringing, Alive, TypeOK, PoolTypeOK
  <2>2. CASE PushResult(w)
    BY <2>2 DEF PushResult, NoLostResult, Ringing, TypeOK, PoolTypeOK
  <2>3. CASE TaskThrows(w)
    BY <2>3 DEF TaskThrows, Doorbell, NoLostResult, Ringing, Alive, TypeOK, PoolTypeOK
  <2>4. CASE SignalResult(w)
    BY <2>4 DEF SignalResult, NoLostResult, Ringing, TypeOK, NetworkTypeOK, EpollTypeOK
  <2>. QED  BY <1>1, <2>1, <2>2, <2>3, <2>4 DEF WorkerStep
<1>2. ASSUME NEW c \in Clients, ClientStep(c), ServerIdle PROVE NoLostResult'
  <2>1. efd \in ready => efd \in ready'
    BY <1>2 DEF ClientStep, Connect, SendHead, SendBody, Receive, Leave, ResetArrives, Wake
  <2>. QED  BY <1>2, <2>1 DEF ServerIdle, Doorbell, NoLostResult, Ringing, Alive
<1>3. CASE UNCHANGED vars
  BY <1>3 DEF vars, Doorbell, NoLostResult, Ringing, Alive
<1>. QED  BY <1>1, <1>2, <1>3

\* No wakeup is lost between the compute threads and the event loop: while a result is in
\* the queue the event loop is taking results or is bound to be told to.
THEOREM ResultsAreNoticed == Spec => []NoLostResult
<1>1. Init => Doorbell
  BY DEF Init, Doorbell, NoLostResult, Handled, Sources
<1>2. TypeOK /\ Doorbell /\ [Next]_vars => Doorbell'
  BY DoorbellMain, DoorbellOthers, HandledStep DEF Doorbell, Next
<1>3. Doorbell => NoLostResult
  BY DEF Doorbell
<1>. QED  BY <1>1, <1>2, <1>3, TypeCorrect, PTL DEF Spec
=============================================================================
