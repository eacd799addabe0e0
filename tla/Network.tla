------------------------------ MODULE Network ------------------------------
(***************************************************************************)
(* What surrounds the server of main.cpp, as main.cpp uses it: the         *)
(* kernel's sockets, its epoll instance and eventfd, and the clients at    *)
(* the other end of the connections.  None of this is the server's code.   *)
(***************************************************************************)
EXTENDS HttpResponse, FiniteSets

CONSTANTS Fds,         \* descriptors the process can give to client sockets
          serverFd,    \* the listening socket
          efd,         \* the eventfd
          SndBuf,      \* units a socket's send buffer holds
          Scripts,     \* what a client may be about to send: sequences of kinds
          Pipelining,  \* whether a client sends on without waiting for a response
          Leaving,     \* the ways a client may leave: a subset of {"fin", "rst"}
          MaxFaults    \* bound: epoll_ctl calls the kernel refuses

ASSUME DescriptorsDistinct ==
  /\ serverFd \notin Fds /\ efd \notin Fds /\ serverFd # efd
  /\ Nil \notin Fds /\ Nil \notin Clients
ASSUME SndBufPositive == SndBuf \in Nat \ {0}
ASSUME ScriptsAreKinds == \A s \in Scripts : s \in Seq(Kinds)
ASSUME PipeliningIsBoolean == Pipelining \in BOOLEAN
ASSUME LeavingIsKnown == Leaving \subseteq {"fin", "rst"}
ASSUME MaxFaultsIsNat == MaxFaults \in Nat

VARIABLES
  sock,        \* [descriptor -> the client whose connection it is open on, or Nil]
  interest,    \* [descriptor -> registered epoll events, {} when not registered]
  ready,       \* sources on the epoll instance's ready list
  efdCount,    \* the eventfd's counter
  phase,       \* [client -> "idle", "queued" (not accepted), "open" or "over"]
  peer,        \* [client -> what the server's side of TCP has seen of its peer]
  inbox,       \* [client -> received tokens the server has not read]
  outbox,      \* [client -> units in the socket's send buffer]
  script,      \* [client -> kinds of the requests it sends]
  begun,       \* [client -> requests whose head it has sent]
  owesBody,    \* [client -> whether the body of the last one is still to be sent]
  got,         \* [client -> units it has received]
  faults       \* epoll_ctl calls refused so far

epollVars  == <<interest, ready>>
tcpVars    == <<phase, peer, inbox, outbox>>
clientVars == <<script, begun, owesBody, got>>
networkVars == <<sock, epollVars, efdCount, tcpVars, clientVars, faults>>

Sources == Fds \cup {serverFd, efd}
Events  == {"IN", "OUT"}

NetworkInit ==
  /\ sock = [f \in Fds |-> Nil]
  /\ interest = [f \in Fds |-> {}]
  /\ ready = {} /\ efdCount = 0
  /\ phase = [c \in Clients |-> "idle"]
  /\ peer = [c \in Clients |-> "open"]
  /\ inbox = [c \in Clients |-> << >>]
  /\ outbox = [c \in Clients |-> << >>]
  /\ script \in [Clients -> Scripts]
  /\ begun = [c \in Clients |-> 0]
  /\ owesBody = [c \in Clients |-> FALSE]
  /\ got = [c \in Clients |-> << >>]
  /\ faults = 0

EpollTypeOK ==
  /\ sock \in [Fds -> Clients \cup {Nil}]
  /\ interest \in [Fds -> SUBSET Events]
  /\ ready \in SUBSET Sources
  /\ efdCount \in Nat

TcpTypeOK ==
  /\ phase \in [Clients -> {"idle", "queued", "open", "over"}]
  /\ peer \in [Clients -> {"open", "fin", "rst", "pipe"}]
  /\ inbox \in [Clients -> Seq(Tokens)]
  /\ outbox \in [Clients -> Seq(Units)]

ClientTypeOK ==
  /\ script \in [Clients -> Scripts]
  /\ begun \in [Clients -> Nat]
  /\ owesBody \in [Clients -> BOOLEAN]
  /\ got \in [Clients -> Seq(Units)]
  /\ \A c \in Clients : /\ begun[c] <= Len(script[c])
                        /\ owesBody[c] => begun[c] > 0

NetworkTypeOK == EpollTypeOK /\ TcpTypeOK /\ ClientTypeOK /\ faults \in 0..MaxFaults

-----------------------------------------------------------------------------
(***************************************************************************)
(* The kernel, as the code uses it: readiness, epoll_ctl, close.           *)
(***************************************************************************)
Backlog == {c \in Clients : phase[c] = "queued"}

\* recv() has something to say: data, the end of the stream, or an error.
Readable(c, data) == data # << >> \/ peer[c] # "open"
\* send() has something to say: room in the buffer, or an error.
Writable(c) == Len(outbox[c]) < SndBuf \/ peer[c] \in {"rst", "pipe"}

\* The events of mask that hold on client c's socket, `data` being unread there.
Poll(mask, c, data) == {e \in mask : \/ e = "IN" /\ Readable(c, data)
                                     \/ e = "OUT" /\ Writable(c)}

\* The events epoll_wait reports for a source of the ready list.
Revents(s) ==
  CASE s = serverFd -> {e \in {"IN"} : Backlog # {}}
    [] s = efd -> {e \in {"IN"} : efdCount > 0}
    [] OTHER -> Poll(interest[s], sock[s], inbox[sock[s]])

(***************************************************************************)
(* epoll_ctl(ADD or MOD): the mask is replaced and the source looked at    *)
(* once, so that what already holds makes an event, edge-triggered or not. *)
(***************************************************************************)
Rearm(f, c, mask, data) ==
  /\ interest' = [interest EXCEPT ![f] = mask]
  /\ ready' = IF Poll(mask, c, data) # {} THEN ready \cup {f} ELSE ready

\* The kernel refuses an epoll_ctl (ENOMEM, ENOSPC): at most MaxFaults times.
Fault == faults < MaxFaults /\ faults' = faults + 1

-----------------------------------------------------------------------------
(***************************************************************************)
(* The clients and the network.  A client sends the requests of its        *)
(* script, each in two pieces if it has a body, takes what has come, and   *)
(* may leave at any time.                                                  *)
(***************************************************************************)

\* Client c's descriptor, if it has one, becomes ready for event e if e is registered.
Wake(c, e) == ready' = ready \cup {f \in Fds : sock[f] = c /\ e \in interest[f]}

\* Responses whose last unit client c has received.
Answered(c) ==
  Cardinality({i \in DOMAIN got[c] : got[c][i].k + 1 = RespSize(got[c][i].status)})

Connect(c) ==
  /\ phase[c] = "idle"
  /\ phase' = [phase EXCEPT ![c] = "queued"]
  /\ ready' = ready \cup {serverFd}
  /\ UNCHANGED <<peer, inbox, outbox, clientVars>>

Connected(c) == phase[c] \in {"queued", "open"} /\ peer[c] = "open"

\* The k-th request's token of the given part.
Token(c, n, part) == [of |-> [client |-> c, n |-> n], kind |-> script[c][n], part |-> part]

SendHead(c) ==
  /\ Connected(c)
  /\ ~owesBody[c]
  /\ begun[c] < Len(script[c])
  /\ Pipelining \/ Answered(c) >= begun[c]
  /\ LET n == begun[c] + 1
     IN  /\ begun' = [begun EXCEPT ![c] = n]
         /\ owesBody' = [owesBody EXCEPT ![c] = HasBody(script[c][n])]
         /\ inbox' = [inbox EXCEPT ![c] = Append(@, Token(c, n, "head"))]
  /\ Wake(c, "IN")
  /\ UNCHANGED <<phase, peer, outbox, script, got>>

SendBody(c) ==
  /\ Connected(c)
  /\ owesBody[c]
  /\ owesBody' = [owesBody EXCEPT ![c] = FALSE]
  /\ inbox' = [inbox EXCEPT ![c] = Append(@, Token(c, begun[c], "body"))]
  /\ Wake(c, "IN")
  /\ UNCHANGED <<phase, peer, outbox, script, begun, got>>

\* Room in a send buffer that was full is an edge for EPOLLOUT.
Receive(c) ==
  /\ Connected(c)
  /\ outbox[c] # << >>
  /\ got' = [got EXCEPT ![c] = @ \o outbox[c]]
  /\ outbox' = [outbox EXCEPT ![c] = << >>]
  /\ IF Len(outbox[c]) >= SndBuf THEN Wake(c, "OUT") ELSE UNCHANGED ready
  /\ UNCHANGED <<phase, peer, inbox, script, begun, owesBody>>

\* The client closes its end ("fin"), or its connection is reset ("rst").
Leave(c) ==
  /\ Connected(c)
  /\ \E how \in Leaving : peer' = [peer EXCEPT ![c] = how]
  /\ Wake(c, "IN")
  /\ UNCHANGED <<phase, inbox, outbox, clientVars>>

\* What was sent to a client that had closed is answered by a reset.
ResetArrives(c) ==
  /\ phase[c] = "open"
  /\ peer[c] = "fin"
  /\ outbox[c] # << >>
  /\ peer' = [peer EXCEPT ![c] = "pipe"]
  /\ outbox' = [outbox EXCEPT ![c] = << >>]
  /\ Wake(c, "IN")
  /\ UNCHANGED <<phase, inbox, clientVars>>

ClientStep(c) ==
  \/ Connect(c) \/ SendHead(c) \/ SendBody(c) \/ Receive(c) \/ Leave(c) \/ ResetArrives(c)
=============================================================================
