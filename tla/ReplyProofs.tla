---------------------------- MODULE ReplyProofs ----------------------------
(***************************************************************************)
(* Responses: why a client that waits for each response receives whole     *)
(* responses, the n-th answering its n-th request.                         *)
(*                                                                         *)
(* ReplyInv says where the last request of a client stands, from its       *)
(* socket through the parser, the pool and the response back to it, and    *)
(* that it is nowhere else.                                                *)
(***************************************************************************)
EXTENDS RoutingProofs, SequenceTheorems, FiniteSetTheorems

(***************************************************************************)
(* Sequences of units.                                                     *)
(***************************************************************************)
FirstUnits == {u \in Units : u.k = 0}
LastUnits  == {u \in Units : u.k + 1 = RespSize(u.status)}

\* The elements of w that are in U.
Count(w, U) == Cardinality({i \in DOMAIN w : w[i] \in U})

Ended(w) == w = << >> \/ w[Len(w)] \in LastUnits

\* WholeResponses and RepliesInOrder, of any sequence of units; b requests were begun.
Whole(w) ==
  \A i \in DOMAIN w :
    IF w[i].k = 0 THEN i = 1 \/ w[i - 1].k + 1 = RespSize(w[i - 1].status)
                  ELSE i > 1 /\ w[i - 1] = [w[i] EXCEPT !.k = @ - 1]

Fits(c, s, b, n, u) ==
  /\ n <= b
  /\ CASE u.status = 200 -> u.of = [client |-> c, n |-> n]
       [] u.status = 204 -> s[n] = "options"
       [] u.status = 400 -> s[n] \in {"badhead", "badbody"}

InOrder(c, s, b, w) ==
  \A i \in DOMAIN w :
    w[i].k = 0 => Fits(c, s, b, Cardinality({j \in 1..i : w[j].k = 0}), w[i])

LEMMA PlacesFinite ==
  ASSUME NEW T, NEW w \in Seq(T), NEW U
  PROVE  /\ IsFiniteSet({i \in DOMAIN w : w[i] \in U})
         /\ Count(w, U) \in Nat
<1>1. DOMAIN w = 1..Len(w) /\ Len(w) \in Nat
  OBVIOUS
<1>2. IsFiniteSet(1..Len(w))
  BY <1>1, FS_Interval
<1>3. {i \in DOMAIN w : w[i] \in U} \in SUBSET (1..Len(w))
  BY <1>1
<1>4. IsFiniteSet({i \in DOMAIN w : w[i] \in U})
  BY <1>2, <1>3, FS_Subset
<1>. QED  BY <1>4, FS_CardinalityType DEF Count

LEMMA CountEmpty == \A U : Count(<< >>, U) = 0
<1>1. \A U : {i \in DOMAIN << >> : << >>[i] \in U} = {}
  OBVIOUS
<1>. QED  BY <1>1, FS_EmptySet DEF Count

\* A unit more.
LEMMA CountAppend ==
  ASSUME NEW T, NEW w \in Seq(T), NEW u \in T, NEW U
  PROVE  Count(Append(w, u), U) = Count(w, U) + (IF u \in U THEN 1 ELSE 0)
<1> DEFINE A == {i \in DOMAIN w : w[i] \in U}
           B == {i \in DOMAIN Append(w, u) : Append(w, u)[i] \in U}
<1>1. Len(w) \in Nat /\ DOMAIN w = 1..Len(w) /\ DOMAIN Append(w, u) = 1..(Len(w) + 1)
  OBVIOUS
<1>2. \A i \in 1..Len(w) : Append(w, u)[i] = w[i]
  BY AppendProperties
<1>3. Append(w, u)[Len(w) + 1] = u
  BY AppendProperties
<1>4. B = IF u \in U THEN A \cup {Len(w) + 1} ELSE A
  BY <1>1, <1>2, <1>3
<1>5. Len(w) + 1 \notin A
  BY <1>1
<1>6. IsFiniteSet(A) /\ Cardinality(A) \in Nat
  BY PlacesFinite DEF Count
<1>7. Cardinality(A \cup {Len(w) + 1}) = Cardinality(A) + 1
  BY <1>5, <1>6, FS_AddElement
<1>8. Count(Append(w, u), U) = Cardinality(B) /\ Count(w, U) = Cardinality(A)
  BY DEF Count
<1> HIDE DEF A, B
<1>. QED  BY <1>4, <1>6, <1>7, <1>8

LEMMA CountPrefix ==
  ASSUME NEW T, NEW v \in Seq(T), NEW w \in Seq(T), NEW U
  PROVE  Count(v, U) <= Count(v \o w, U)
<1>1. v \o w \in Seq(T) /\ DOMAIN v \subseteq DOMAIN (v \o w)
  BY ConcatProperties
<1>2. \A i \in DOMAIN v : (v \o w)[i] = v[i]
  BY ConcatProperties
<1>3. {i \in DOMAIN v : v[i] \in U} \in SUBSET {i \in DOMAIN (v \o w) : (v \o w)[i] \in U}
  BY <1>1, <1>2
<1>4. IsFiniteSet({i \in DOMAIN (v \o w) : (v \o w)[i] \in U})
  BY <1>1, PlacesFinite
<1>. QED  BY <1>3, <1>4, FS_Subset DEF Count

\* Appending to what is in the socket's buffer is appending to the wire.
LEMMA WireGrows ==
  ASSUME NEW T, NEW v \in Seq(T), NEW w \in Seq(T), NEW u \in T
  PROVE  v \o Append(w, u) = Append(v \o w, u)
<1>1. <<u>> \in Seq(T)
  OBVIOUS
<1>2. Append(w, u) = w \o <<u>> /\ v \o w \in Seq(T)
  BY AppendIsConcat, ConcatProperties
<1>3. Append(v \o w, u) = (v \o w) \o <<u>>
  BY <1>2, AppendIsConcat
<1>. QED  BY <1>1, <1>2, <1>3, ConcatAssociative

\* The first unit of a response, sent when the last one is all sent.
LEMMA WholeAppend ==
  ASSUME NEW w \in Seq(Units), NEW u \in Units, Whole(w),
         IF u.k = 0 THEN Ended(w)
                    ELSE w # << >> /\ w[Len(w)] = [u EXCEPT !.k = @ - 1]
  PROVE  Whole(Append(w, u))
<1> DEFINE x == Append(w, u)
<1>1. Len(w) \in Nat /\ DOMAIN w = 1..Len(w) /\ DOMAIN x = 1..(Len(w) + 1)
  OBVIOUS
<1>2. (\A i \in 1..Len(w) : x[i] = w[i]) /\ x[Len(w) + 1] = u
  BY AppendProperties
<1>3. w # << >> => Len(w) > 0
  OBVIOUS
<1>4. Ended(w) => w = << >> \/ w[Len(w)].k + 1 = RespSize(w[Len(w)].status)
  BY DEF Ended, LastUnits
<1>5. w = << >> => Len(w) = 0
  OBVIOUS
<1> HIDE DEF x
<1> SUFFICES ASSUME NEW i \in 1..(Len(w) + 1)
             PROVE  IF x[i].k = 0
                    THEN i = 1 \/ x[i - 1].k + 1 = RespSize(x[i - 1].status)
                    ELSE i > 1 /\ x[i - 1] = [x[i] EXCEPT !.k = @ - 1]
  BY <1>1 DEF Whole, x
<1>6. CASE i <= Len(w)
  <2>1. i \in DOMAIN w /\ x[i] = w[i] /\ (i # 1 => x[i - 1] = w[i - 1])
    BY <1>1, <1>2, <1>6
  <2>2. IF w[i].k = 0 THEN i = 1 \/ w[i - 1].k + 1 = RespSize(w[i - 1].status)
                      ELSE i > 1 /\ w[i - 1] = [w[i] EXCEPT !.k = @ - 1]
    BY <2>1 DEF Whole
  <2>. QED  BY <2>1, <2>2
<1>7. CASE i = Len(w) + 1
  <2>1. x[i] = u /\ i - 1 = Len(w)
    BY <1>1, <1>2, <1>7
  <2>2. w # << >> => i > 1 /\ x[i - 1] = w[Len(w)]
    BY <1>1, <1>2, <1>3, <1>7, <2>1
  <2>3. w = << >> => i = 1
    BY <1>5, <1>7
  <2>. QED  BY <1>4, <2>1, <2>2, <2>3
<1>. QED  BY <1>1, <1>6, <1>7

LEMMA InOrderAppend ==
  ASSUME NEW c, NEW s, NEW b, NEW w \in Seq(Units), NEW u \in Units, InOrder(c, s, b, w),
         u.k = 0 => Fits(c, s, b, Count(w, FirstUnits) + 1, u)
  PROVE  InOrder(c, s, b, Append(w, u))
<1> DEFINE x == Append(w, u)
           Upto(v, i) == {j \in 1..i : v[j].k = 0}
<1>1. Len(w) \in Nat /\ DOMAIN w = 1..Len(w) /\ DOMAIN x = 1..(Len(w) + 1)
  OBVIOUS
<1>2. (\A i \in 1..Len(w) : x[i] = w[i]) /\ x[Len(w) + 1] = u
  BY AppendProperties
<1> HIDE DEF x
<1>3. ASSUME NEW i \in 1..Len(w) PROVE Upto(x, i) = Upto(w, i)
  BY <1>1, <1>2
<1>4. ASSUME u.k = 0 PROVE Cardinality(Upto(x, Len(w) + 1)) = Count(w, FirstUnits) + 1
  <2>1. \A j \in 1..Len(w) : w[j] \in FirstUnits <=> w[j].k = 0
    BY DEF FirstUnits
  <2>2. Upto(x, Len(w) + 1) = {j \in DOMAIN w : w[j] \in FirstUnits} \cup {Len(w) + 1}
    BY <1>1, <1>2, <1>4, <2>1
  <2>3. Len(w) + 1 \notin {j \in DOMAIN w : w[j] \in FirstUnits}
    BY <1>1
  <2> DEFINE A == {j \in DOMAIN w : w[j] \in FirstUnits}
  <2>4. IsFiniteSet(A) /\ Count(w, FirstUnits) = Cardinality(A)
    BY PlacesFinite DEF Count
  <2> HIDE DEF A
  <2>5. Cardinality(A \cup {Len(w) + 1}) = Cardinality(A) + 1
    BY <2>3, <2>4, FS_AddElement DEF A
  <2>. QED  BY <2>2, <2>4, <2>5 DEF A
<1> SUFFICES ASSUME NEW i \in 1..(Len(w) + 1), x[i].k = 0
             PROVE  Fits(c, s, b, Cardinality(Upto(x, i)), x[i])
  BY <1>1 DEF InOrder, x
<1>5. CASE i <= Len(w)
  <2>1. i \in DOMAIN w /\ x[i] = w[i] /\ Upto(x, i) = Upto(w, i)
    BY <1>1, <1>2, <1>3, <1>5
  <2>. QED  BY <2>1 DEF InOrder
<1>6. CASE i = Len(w) + 1
  BY <1>2, <1>4, <1>6
<1>. QED  BY <1>1, <1>5, <1>6

-----------------------------------------------------------------------------
(***************************************************************************)
(* Where the last request of a client stands.                              *)
(***************************************************************************)

\* The connection accepted from client c, if it has one.
ConnOf(c) ==
  IF \E f \in Fds : sock[f] = c THEN clientMap[CHOOSE f \in Fds : sock[f] = c]
  ELSE NoConnection
ParserOf(c) == ConnOf(c).request
ResponseOf(c) == ConnOf(c).response

\* What was sent to client c, received already or not.
Wire(c) == got[c] \o outbox[c]

\* Client c may still receive something.
Live(c) == phase[c] # "over" /\ peer[c] = "open"

LastRequest(c) == [client |-> c, n |-> begun[c]]
LastKind(c) == script[c][begun[c]]

\* The jobs, running tasks and results of client c's connection.
Mine(c, j) == j.conn = ConnOf(c).id
Runs(c, w) == stage[w] = "busy" /\ Mine(c, task[w])

NoneQueued(c)  == \A i \in 1..Len(jobs) : ~Mine(c, jobs[i])
NoneRunning(c) == \A w \in Workers : ~Runs(c, w)
NoneDone(c)    == \A i \in 1..Len(results) : ~Mine(c, results[i])
NonePending(c) == NoneQueued(c) /\ NoneRunning(c) /\ NoneDone(c)

\* At most one of them, and it is about the last request.
OneQueued(c)  == \A i, j \in 1..Len(jobs) : Mine(c, jobs[i]) /\ Mine(c, jobs[j]) => i = j
OneRunning(c) == \A v, w \in Workers : Runs(c, v) /\ Runs(c, w) => v = w
OneDone(c)    == \A i, j \in 1..Len(results) :
                   Mine(c, results[i]) /\ Mine(c, results[j]) => i = j
OnePending(c) ==
  /\ OneQueued(c) /\ OneRunning(c) /\ OneDone(c)
  /\ NoneQueued(c) \/ NoneRunning(c)
  /\ NoneQueued(c) \/ NoneDone(c)
  /\ NoneRunning(c) \/ NoneDone(c)
  /\ \A i \in 1..Len(jobs) : Mine(c, jobs[i]) => jobs[i].of = LastRequest(c)
  /\ \A w \in Workers : Runs(c, w) => task[w].of = LastRequest(c)
  /\ \A i \in 1..Len(results) : Mine(c, results[i]) => results[i].of = LastRequest(c)

\* The response is reset, or sent with main() about to notice (main.cpp:276-283).
Settled(c) ==
  \/ ResponseOf(c) = EmptyResponse
  \/ FullySent(ResponseOf(c)) /\ pc \in {"send", "flush"} /\ sock[cur] = c

\* The tokens of the last request that client c has sent.
Request(c) ==
  IF HasBody(LastKind(c)) /\ ~owesBody[c]
  THEN <<Token(c, begun[c], "head"), Token(c, begun[c], "body")>>
  ELSE <<Token(c, begun[c], "head")>>

\* A parser that has read the head of it and waits for its body.
Awaits(c, p) ==
  /\ p.state = "READING_BODY" /\ p.buffer = <<Token(c, begun[c], "head")>>
  /\ p.method = MethodOf(LastKind(c))
  /\ p.head = Token(c, begun[c], "head") /\ p.offset = 1

\* m whole responses have been sent.
Sent(c, m) ==
  /\ Count(Wire(c), FirstUnits) = m
  /\ Count(Wire(c), LastUnits) = m
  /\ Ended(Wire(c))

Unanswered(c) == begun[c] > 0 /\ Sent(c, begun[c] - 1)
Read(c) == ParserOf(c) = ResetParser /\ inbox[c] = << >> /\ ~owesBody[c]

\* All requests are answered,
Resting(c) == Read(c) /\ NonePending(c) /\ Settled(c) /\ Sent(c, begun[c])

\* or the last one is on its way to main(),
Arriving(c) ==
  /\ \/ ParserOf(c) = ResetParser
     \/ Awaits(c, ParserOf(c)) /\ HasBody(LastKind(c))
  /\ ParserOf(c).buffer \o inbox[c] = Request(c)
  /\ owesBody[c] => HasBody(LastKind(c))
  /\ NonePending(c) /\ Settled(c) /\ Unanswered(c)

\* or stuck in the parser, its method being one main() does not serve,
Unserved(c) ==
  /\ ParserOf(c).state = "COMPLETE" /\ ParserOf(c).method = "other"
  /\ inbox[c] = << >> /\ ~owesBody[c]
  /\ NonePending(c) /\ Settled(c) /\ Unanswered(c)

\* or with the pool, or lost there to an exception,
Computing(c) == Read(c) /\ OnePending(c) /\ Settled(c) /\ Unanswered(c)

\* or its response is loaded,
Loaded(c) ==
  /\ Read(c) /\ NonePending(c) /\ Unanswered(c)
  /\ ResponseOf(c).sent = 0
  /\ ResponseOf(c).status \in {200, 204, 400}
  /\ Fits(c, script[c], begun[c], begun[c], NextUnit(ResponseOf(c)))

\* or sent but for its body.
Halfway(c) ==
  /\ Read(c) /\ NonePending(c)
  /\ ResponseOf(c).sent = 1 /\ ResponseOf(c).status \in {200, 400}
  /\ Wire(c) # << >>
  /\ Wire(c)[Len(Wire(c))] = [NextUnit(ResponseOf(c)) EXCEPT !.k = 0]
  /\ Count(Wire(c), FirstUnits) = begun[c]
  /\ Count(Wire(c), LastUnits) + 1 = begun[c]

Stage(c) ==
  \/ Resting(c) \/ Arriving(c) \/ Unserved(c) \/ Computing(c) \/ Loaded(c) \/ Halfway(c)

Proper(c, w) == Whole(w) /\ InOrder(c, script[c], begun[c], w)

\* What client c has received is proper, and while it is there so is what was sent to it.
ReplyInv ==
  \A c \in Clients : /\ Proper(c, got[c])
                     /\ Live(c) => Proper(c, Wire(c)) /\ Stage(c)

\* Clients wait for each response, and none sends a request rejected at its headers.
WellFramed ==
  /\ Pipelining = FALSE
  /\ \A s \in Scripts : \A i \in DOMAIN s : s[i] # "badhead"

-----------------------------------------------------------------------------
(***************************************************************************)
(* The connection of a client, and its jobs.                               *)
(***************************************************************************)
LEMMA ConnIs ==
  ASSUME FdsOwned, NEW f \in Fds, NEW c \in Clients, sock[f] = c
  PROVE  ConnOf(c) = clientMap[f]
<1>1. c # Nil
  BY DescriptorsDistinct
<1>2. \A g \in Fds : sock[g] = c => g = f
  BY <1>1 DEF FdsOwned
<1>. QED  BY <1>2 DEF ConnOf

\* A step that leaves a client's descriptor alone, and its entry, leaves its connection.
LEMMA ConnKept ==
  ASSUME FdsOwned, FdsOwned', NEW c \in Clients,
         \A f \in Fds : sock'[f] = c <=> sock[f] = c,
         \A f \in Fds : sock[f] = c => clientMap'[f] = clientMap[f]
  PROVE  ConnOf(c)' = ConnOf(c)
<1>1. c # Nil
  BY DescriptorsDistinct
<1>2. CASE \E f \in Fds : sock[f] = c
  <2> PICK f \in Fds : sock[f] = c
    BY <1>2
  <2>1. \A g \in Fds : sock'[g] = c => g = f
    BY <1>1 DEF FdsOwned
  <2>2. ConnOf(c)' = clientMap'[f]
    BY <2>1 DEF ConnOf
  <2>. QED  BY <2>2, ConnIs
<1>3. CASE ~\E f \in Fds : sock[f] = c
  BY <1>3 DEF ConnOf
<1>. QED  BY <1>2, <1>3

\* Identifiers of connections that are there are positive, and tell clients apart.
LEMMA ConnTyped ==
  ASSUME TypeOK, FdsOwned, NEW c \in Clients
  PROVE  /\ ConnOf(c) \in Connections
         /\ \A f \in Fds : Present(f) /\ sock[f] # c /\ IdInv => clientMap[f].id # ConnOf(c).id
<1>1. CASE \E f \in Fds : sock[f] = c
  <2> PICK f \in Fds : sock[f] = c
    BY <1>1
  <2>1. ConnOf(c) = clientMap[f]
    BY ConnIs
  <2>. QED  BY <2>1 DEF TypeOK, MapTypeOK, IdInv
<1>2. CASE ~\E f \in Fds : sock[f] = c
  BY <1>2, Parts DEF ConnOf, NoConnection, Present
<1>. QED  BY <1>1, <1>2

LEMMA NoneIsOne ==
  ASSUME NEW c, NonePending(c)
  PROVE  OnePending(c)
BY DEF NonePending, OnePending, NoneQueued, NoneRunning, NoneDone, OneQueued, OneRunning,
       OneDone

\* What happens to jobs and results while a connection stays: none is added to its own.
LEMMA PoolUntouched ==
  ASSUME NEW c \in Clients, ConnOf(c)'.id = ConnOf(c).id, begun'[c] = begun[c],
         UNCHANGED <<stage, task, jobs, results>>
  PROVE  (NonePending(c) => NonePending(c)') /\ (OnePending(c) => OnePending(c)')
BY DEF NonePending, OnePending, NoneQueued, NoneRunning, NoneDone, OneQueued, OneRunning,
       OneDone, Mine, Runs, LastRequest

LEMMA ResultTaken ==
  ASSUME TypeOK, NEW c \in Clients, ConnOf(c)'.id = ConnOf(c).id, begun'[c] = begun[c],
         UNCHANGED <<stage, task, jobs>>, results # << >>, results' = Tail(results)
  PROVE  /\ NonePending(c) => NonePending(c)'
         /\ OnePending(c) => OnePending(c)'
         /\ OnePending(c) /\ Mine(c, Head(results)) => NonePending(c)'
<1> PICK id : id = ConnOf(c).id
  OBVIOUS
<1>1. results \in Seq(ComputeResults)
  BY DEF TypeOK
<1>2. /\ Head(results) = results[1] /\ Len(results) \in Nat /\ 1 \in 1..Len(results)
      /\ Len(results') = Len(results) - 1
      /\ \A i \in 1..Len(results') : results'[i] = results[i + 1] /\ i + 1 \in 1..Len(results)
  BY <1>1
<1>3. (\A j : Mine(c, j) <=> j.conn = id) /\ ConnOf(c)'.id = id
  BY DEF Mine
<1>4. /\ NoneQueued(c)' <=> NoneQueued(c)
      /\ NoneRunning(c)' <=> NoneRunning(c)
      /\ OneQueued(c)' <=> OneQueued(c)
      /\ OneRunning(c)' <=> OneRunning(c)
  BY DEF NoneQueued, NoneRunning, OneQueued, OneRunning, Mine, Runs
<1>5. /\ NoneDone(c) => NoneDone(c)'
      /\ OneDone(c) => OneDone(c)'
      /\ OneDone(c) /\ Mine(c, Head(results)) => NoneDone(c)'
  BY <1>2, <1>3 DEF NoneDone, OneDone, Mine
<1>6. Mine(c, Head(results)) => ~NoneDone(c)
  BY <1>2 DEF NoneDone
<1>7. ASSUME OnePending(c)
      PROVE  /\ \A i \in 1..Len(jobs') : Mine(c, jobs[i])' => jobs'[i].of = LastRequest(c)'
             /\ \A w \in Workers : Runs(c, w)' => task'[w].of = LastRequest(c)'
             /\ \A i \in 1..Len(results') :
                  Mine(c, results[i])' => results'[i].of = LastRequest(c)'
  BY <1>2, <1>3, <1>7 DEF OnePending, Mine, Runs, LastRequest
<1>. QED  BY <1>4, <1>5, <1>6, <1>7 DEF NonePending, OnePending

LEMMA JobAdded ==
  ASSUME TypeOK, NEW c \in Clients, ConnOf(c)'.id = ConnOf(c).id, begun'[c] = begun[c],
         UNCHANGED <<stage, task, results>>, NEW j \in Jobs, jobs' = Append(jobs, j)
  PROVE  /\ ~Mine(c, j) => /\ NonePending(c) => NonePending(c)'
                           /\ OnePending(c) => OnePending(c)'
         /\ NonePending(c) /\ j.of = LastRequest(c) => OnePending(c)'
<1> PICK id : id = ConnOf(c).id
  OBVIOUS
<1>1. jobs \in Seq(Jobs)
  BY DEF TypeOK, PoolTypeOK
<1>2. /\ Len(jobs) \in Nat /\ Len(jobs') = Len(jobs) + 1 /\ jobs'[Len(jobs) + 1] = j
      /\ \A i \in 1..Len(jobs) : jobs'[i] = jobs[i]
  BY <1>1
<1>3. (\A x : Mine(c, x) <=> x.conn = id) /\ ConnOf(c)'.id = id
  BY DEF Mine
<1>4. /\ NoneDone(c)' <=> NoneDone(c)
      /\ NoneRunning(c)' <=> NoneRunning(c)
      /\ OneDone(c)' <=> OneDone(c)
      /\ OneRunning(c)' <=> OneRunning(c)
  BY DEF NoneDone, NoneRunning, OneDone, OneRunning, Mine, Runs
<1>5. ~Mine(c, j) => (NoneQueued(c) => NoneQueued(c)') /\ (OneQueued(c) => OneQueued(c)')
  BY <1>2, <1>3 DEF NoneQueued, OneQueued, Mine
<1>6. NoneQueued(c) => OneQueued(c)'
  BY <1>2, <1>3 DEF NoneQueued, OneQueued, Mine
<1>7. ASSUME \A i \in 1..Len(jobs) : Mine(c, jobs[i]) => jobs[i].of = LastRequest(c),
             ~Mine(c, j) \/ j.of = LastRequest(c)
      PROVE  \A i \in 1..Len(jobs') : Mine(c, jobs[i])' => jobs'[i].of = LastRequest(c)'
  BY <1>2, <1>3, <1>7 DEF Mine, LastRequest
<1>8. ASSUME OnePending(c)
      PROVE  /\ \A w \in Workers : Runs(c, w)' => task'[w].of = LastRequest(c)'
             /\ \A i \in 1..Len(results') :
                  Mine(c, results[i])' => results'[i].of = LastRequest(c)'
  BY <1>3, <1>8 DEF OnePending, Mine, Runs, LastRequest
<1>9. ~Mine(c, j) => /\ NonePending(c) => NonePending(c)'
                     /\ OnePending(c) => OnePending(c)'
  BY <1>4, <1>5, <1>7, <1>8 DEF NonePending, OnePending
<1>10. NonePending(c) /\ j.of = LastRequest(c) => OnePending(c)'
  <2> SUFFICES ASSUME NonePending(c), j.of = LastRequest(c) PROVE OnePending(c)'
    OBVIOUS
  <2>1. OnePending(c)
    BY NoneIsOne
  <2>2. OneDone(c)' /\ OneRunning(c)' /\ NoneDone(c)' /\ NoneRunning(c)' /\ OneQueued(c)'
    BY <1>4, <1>6, <2>1 DEF OnePending, NonePending
  <2>. QED  BY <1>7, <1>8, <2>1, <2>2 DEF OnePending
<1>. QED  BY <1>9, <1>10

LEMMA JobTaken ==
  ASSUME TypeOK, NEW c \in Clients, ConnOf(c)'.id = ConnOf(c).id, begun'[c] = begun[c],
         NEW w \in Workers, TakeJob(w)
  PROVE  (NonePending(c) => NonePending(c)') /\ (OnePending(c) => OnePending(c)')
<1> PICK id : id = ConnOf(c).id
  OBVIOUS
<1>1. /\ jobs \in Seq(Jobs) /\ jobs # << >> /\ stage[w] = "idle"
      /\ stage \in [Workers -> {"idle", "busy", "signal"}]
      /\ task \in [Workers -> Jobs \cup {NoJob}]
      /\ jobs' = Tail(jobs) /\ results' = results
      /\ task' = [task EXCEPT ![w] = Head(jobs)]
      /\ stage' = [stage EXCEPT ![w] = "busy"]
  BY DEF TypeOK, PoolTypeOK, TakeJob
<1>2. /\ Head(jobs) = jobs[1] /\ Len(jobs) \in Nat /\ 1 \in 1..Len(jobs)
      /\ Len(jobs') = Len(jobs) - 1
      /\ \A i \in 1..Len(jobs') : jobs'[i] = jobs[i + 1] /\ i + 1 \in 1..Len(jobs)
  BY <1>1
<1>3. (\A x : Mine(c, x) <=> x.conn = id) /\ ConnOf(c)'.id = id
  BY DEF Mine
<1>4. (NoneDone(c)' <=> NoneDone(c)) /\ (OneDone(c)' <=> OneDone(c))
  BY <1>1 DEF NoneDone, OneDone, Mine
<1>5. \A v \in Workers : Runs(c, v)' <=> IF v = w THEN Mine(c, jobs[1]) ELSE Runs(c, v)
  BY <1>1, <1>2, <1>3 DEF Runs, Mine
<1>6. /\ NoneQueued(c) => NoneQueued(c)'
      /\ OneQueued(c) => OneQueued(c)'
      /\ OneQueued(c) /\ Mine(c, jobs[1]) => NoneQueued(c)'
      /\ Mine(c, jobs[1]) => ~NoneQueued(c)
  BY <1>2, <1>3 DEF NoneQueued, OneQueued, Mine
<1>7. /\ ~Mine(c, jobs[1]) => /\ NoneRunning(c) => NoneRunning(c)'
                              /\ OneRunning(c) => OneRunning(c)'
      /\ NoneRunning(c) => OneRunning(c)'
  BY <1>1, <1>5 DEF NoneRunning, OneRunning, Runs
<1>8. ASSUME OnePending(c)
      PROVE  /\ \A i \in 1..Len(jobs') : Mine(c, jobs[i])' => jobs'[i].of = LastRequest(c)'
             /\ \A v \in Workers : Runs(c, v)' => task'[v].of = LastRequest(c)'
             /\ \A i \in 1..Len(results') :
                  Mine(c, results[i])' => results'[i].of = LastRequest(c)'
  <2>1. \A i \in 1..Len(jobs') : Mine(c, jobs[i])' => jobs'[i].of = LastRequest(c)'
    BY <1>2, <1>3, <1>8 DEF OnePending, Mine, LastRequest
  <2>2. \A i \in 1..Len(results') : Mine(c, results[i])' => results'[i].of = LastRequest(c)'
    BY <1>1, <1>3, <1>8 DEF OnePending, Mine, LastRequest
  <2>3. \A v \in Workers : Runs(c, v)' => task'[v].of = LastRequest(c)'
    BY <1>1, <1>2, <1>5, <1>8 DEF OnePending, LastRequest
  <2>. QED  BY <2>1, <2>2, <2>3
<1>. QED  BY <1>4, <1>6, <1>7, <1>8 DEF NonePending, OnePending

LEMMA ResultPushed ==
  ASSUME TypeOK, NEW c \in Clients, ConnOf(c)'.id = ConnOf(c).id, begun'[c] = begun[c],
         NEW w \in Workers, PushResult(w)
  PROVE  (NonePending(c) => NonePending(c)') /\ (OnePending(c) => OnePending(c)')
<1> PICK id : id = ConnOf(c).id
  OBVIOUS
<1> DEFINE cr == [fd |-> task[w].fd, conn |-> task[w].conn, of |-> task[w].of]
<1>1. /\ results \in Seq(ComputeResults) /\ stage[w] = "busy"
      /\ stage \in [Workers -> {"idle", "busy", "signal"}]
      /\ jobs' = jobs /\ task' = task
      /\ results' = Append(results, cr)
      /\ stage' = [stage EXCEPT ![w] = "signal"]
  BY DEF TypeOK, PoolTypeOK, PushResult
<1>2. /\ Len(results) \in Nat /\ Len(results') = Len(results) + 1
      /\ results'[Len(results) + 1] = cr
      /\ \A i \in 1..Len(results) : results'[i] = results[i]
  BY <1>1
<1>3. (\A x : Mine(c, x) <=> x.conn = id) /\ ConnOf(c)'.id = id
  BY DEF Mine
<1>4. (NoneQueued(c)' <=> NoneQueued(c)) /\ (OneQueued(c)' <=> OneQueued(c))
  BY <1>1 DEF NoneQueued, OneQueued, Mine
<1>5. /\ \A v \in Workers : Runs(c, v)' <=> (v # w /\ Runs(c, v))
      /\ Mine(c, cr) <=> Runs(c, w)
  BY <1>1, <1>3 DEF Runs, Mine
<1>6. cr.of = task[w].of
  OBVIOUS
<1> HIDE DEF cr
<1>7. /\ ~Mine(c, cr) => (NoneDone(c) => NoneDone(c)') /\ (OneDone(c) => OneDone(c)')
      /\ NoneDone(c) => OneDone(c)'
  BY <1>2, <1>3 DEF NoneDone, OneDone, Mine
<1>8. /\ NoneRunning(c) => NoneRunning(c)' /\ ~Mine(c, cr)
      /\ OneRunning(c) => OneRunning(c)'
      /\ OneRunning(c) /\ Mine(c, cr) => NoneRunning(c)'
  BY <1>5 DEF NoneRunning, OneRunning
<1>9. ASSUME OnePending(c)
      PROVE  /\ \A i \in 1..Len(jobs') : Mine(c, jobs[i])' => jobs'[i].of = LastRequest(c)'
             /\ \A v \in Workers : Runs(c, v)' => task'[v].of = LastRequest(c)'
             /\ \A i \in 1..Len(results') :
                  Mine(c, results[i])' => results'[i].of = LastRequest(c)'
  <2>1. \A i \in 1..Len(jobs') : Mine(c, jobs[i])' => jobs'[i].of = LastRequest(c)'
    BY <1>1, <1>3, <1>9 DEF OnePending, Mine, LastRequest
  <2>2. \A v \in Workers : Runs(c, v)' => task'[v].of = LastRequest(c)'
    BY <1>1, <1>5, <1>9 DEF OnePending, LastRequest
  <2>3. Mine(c, cr) => cr.of = LastRequest(c)
    BY <1>5, <1>6, <1>9 DEF OnePending
  <2>4. \A i \in 1..Len(results') : Mine(c, results[i])' => results'[i].of = LastRequest(c)'
    BY <1>2, <1>3, <1>9, <2>3 DEF OnePending, Mine, LastRequest
  <2>. QED  BY <2>1, <2>2, <2>4
<1>. QED  BY <1>4, <1>7, <1>8, <1>9 DEF NonePending, OnePending

LEMMA WorkerFreed ==
  ASSUME TypeOK, NEW c \in Clients, ConnOf(c)'.id = ConnOf(c).id, begun'[c] = begun[c],
         NEW w \in Workers, TaskThrows(w) \/ SignalResult(w)
  PROVE  (NonePending(c) => NonePending(c)') /\ (OnePending(c) => OnePending(c)')
<1>1. /\ stage \in [Workers -> {"idle", "busy", "signal"}]
      /\ task \in [Workers -> Jobs \cup {NoJob}]
      /\ jobs' = jobs /\ results' = results
      /\ task' = [task EXCEPT ![w] = NoJob]
      /\ stage' = [stage EXCEPT ![w] = "idle"]
  BY DEF TypeOK, PoolTypeOK, TaskThrows, SignalResult
<1>2. /\ NoneQueued(c)' <=> NoneQueued(c)
      /\ OneQueued(c)' <=> OneQueued(c)
      /\ NoneDone(c)' <=> NoneDone(c)
      /\ OneDone(c)' <=> OneDone(c)
  BY <1>1 DEF NoneQueued, OneQueued, NoneDone, OneDone, Mine
<1>3. \A v \in Workers : Runs(c, v)' => Runs(c, v) /\ task'[v] = task[v]
  BY <1>1 DEF Runs, Mine
<1>4. (NoneRunning(c) => NoneRunning(c)') /\ (OneRunning(c) => OneRunning(c)')
  BY <1>3 DEF NoneRunning, OneRunning
<1>5. ASSUME OnePending(c)
      PROVE  /\ \A i \in 1..Len(jobs') : Mine(c, jobs[i])' => jobs'[i].of = LastRequest(c)'
             /\ \A v \in Workers : Runs(c, v)' => task'[v].of = LastRequest(c)'
             /\ \A i \in 1..Len(results') :
                  Mine(c, results[i])' => results'[i].of = LastRequest(c)'
  BY <1>1, <1>3, <1>5 DEF OnePending, Mine, LastRequest
<1>. QED  BY <1>2, <1>4, <1>5 DEF NonePending, OnePending

-----------------------------------------------------------------------------
(***************************************************************************)
(* Reading a request, in whatever pieces recv() returns it.                *)
(***************************************************************************)
\* Sequences of one or two tokens, and their pieces.
LEMMA Pieces ==
  ASSUME NEW T, NEW h \in T, NEW b \in T
  PROVE  /\ SubSeq(<<h>>, 1, 1) = <<h>> /\ SubSeq(<<h>>, 2, 1) = << >>
         /\ SubSeq(<<h, b>>, 1, 1) = <<h>> /\ SubSeq(<<h, b>>, 2, 2) = <<b>>
         /\ SubSeq(<<h, b>>, 1, 2) = <<h, b>> /\ SubSeq(<<h, b>>, 3, 2) = << >>
         /\ <<h>> \o << >> = <<h>> /\ <<h>> \o <<b>> = <<h, b>>
         /\ \A s \in Seq(T) : <<h>> \o s = <<h>> => s = << >>
         /\ \A s \in Seq(T) : <<h>> \o s = <<h, b>> => s = <<b>>
<1> DEFINE p == <<h>>
           q == <<b>>
           v == <<h, b>>
<1>1. /\ p \in Seq(T) /\ Len(p) = 1 /\ p[1] = h
      /\ q \in Seq(T) /\ Len(q) = 1 /\ q[1] = b
  OBVIOUS
<1>2. /\ v \in Seq(T) /\ Len(v) = 2
      /\ v[1] = h /\ v[2] = b
  OBVIOUS
<1>9. SubSeq(p, 2, 1) = << >> /\ SubSeq(v, 3, 2) = << >>
  OBVIOUS
<1> HIDE DEF p, q, v
<1>3. /\ \A s \in Seq(T) : Len(s) = 1 /\ s[1] = h => s = p
      /\ \A s \in Seq(T) : Len(s) = 1 /\ s[1] = b => s = q
  BY <1>1
<1>4. \A s \in Seq(T) : Len(s) = 2 /\ s[1] = h /\ s[2] = b => s = v
  <2> SUFFICES ASSUME NEW s \in Seq(T), Len(s) = 2, s[1] = h, s[2] = b
               PROVE  s = v
    OBVIOUS
  <2>1. \A i \in 1..Len(s) : s[i] = v[i]
    BY <1>2
  <2>. QED  BY <1>2, <2>1
<1>5. ASSUME NEW s \in Seq(T), NEW i \in 1..Len(s), NEW j \in i..Len(s)
      PROVE  /\ SubSeq(s, i, j) \in Seq(T) /\ Len(SubSeq(s, i, j)) = j - i + 1
             /\ \A x \in 1..(j - i + 1) : SubSeq(s, i, j)[x] = s[i + x - 1]
  OBVIOUS
<1>6. SubSeq(p, 1, 1) = p
  BY <1>1, <1>3
<1>7. SubSeq(v, 1, 1) = p /\ SubSeq(v, 2, 2) = q
  <2>1. SubSeq(v, 1, 1) \in Seq(T) /\ Len(SubSeq(v, 1, 1)) = 1 /\ SubSeq(v, 1, 1)[1] = h
    BY <1>2
  <2>2. SubSeq(v, 2, 2) \in Seq(T) /\ Len(SubSeq(v, 2, 2)) = 1 /\ SubSeq(v, 2, 2)[1] = b
    BY <1>2
  <2>. QED  BY <1>3, <2>1, <2>2
<1>8. SubSeq(v, 1, 2) = v
  <2>1. SubSeq(v, 1, 2) \in Seq(T) /\ Len(SubSeq(v, 1, 2)) = 2
    BY <1>2
  <2>2. SubSeq(v, 1, 2)[1] = h /\ SubSeq(v, 1, 2)[2] = b
    BY <1>2
  <2>. QED  BY <1>4, <2>1, <2>2
<1>10. ASSUME NEW s \in Seq(T)
       PROVE  /\ p \o s \in Seq(T) /\ Len(p \o s) = 1 + Len(s) /\ (p \o s)[1] = h
              /\ Len(s) > 0 => (p \o s)[2] = s[1]
  <2>1. /\ p \o s \in Seq(T) /\ Len(p \o s) = Len(p) + Len(s)
        /\ \A i \in 1..(Len(p) + Len(s)) :
             (p \o s)[i] = IF i <= Len(p) THEN p[i] ELSE s[i - Len(p)]
    BY <1>1, ConcatProperties
  <2>2. Len(s) \in Nat
    OBVIOUS
  <2>. QED  BY <1>1, <2>1, <2>2
<1>11. p \o << >> = p
  BY <1>1, ConcatEmptySeq
<1>12. p \o q = v
  <2>1. p \o q \in Seq(T) /\ Len(p \o q) = 2 /\ (p \o q)[1] = h /\ (p \o q)[2] = b
    BY ONLY <1>1, <1>10
  <2>. QED  BY <1>4, <2>1
<1>13. ASSUME NEW s \in Seq(T) PROVE p \o s = p => s = << >>
  BY <1>1, <1>10
<1>14. ASSUME NEW s \in Seq(T), p \o s = v PROVE s = q
  <2>1. Len(v) = 1 + Len(s) /\ Len(s) \in Nat /\ (Len(s) > 0 => v[2] = s[1])
    BY <1>10, <1>14
  <2>2. Len(s) = 1
    <3>1. PICK n \in Nat : n = Len(s)
      OBVIOUS
    <3>2. 2 = 1 + n
      BY <1>2, <2>1, <3>1
    <3>. QED  BY <3>1, <3>2
  <2>3. s[1] = b
    BY ONLY <1>2, <2>1, <2>2
  <2>. QED  BY <1>3, <2>2, <2>3
<1>. QED  BY <1>6, <1>7, <1>8, <1>9, <1>11, <1>12, <1>13, <1>14 DEF p, q, v

LEMMA FedHead ==
  ASSUME NEW h \in Tokens, h.part = "head", h.kind # "badhead",
         NEW r \in Feed(ResetParser, <<h>>)
  PROVE  /\ r.method = MethodOf(h.kind) /\ r.head = h
         /\ HasBody(h.kind) => r.state = "READING_BODY" /\ r.buffer = <<h>> /\ r.offset = 1
         /\ ~HasBody(h.kind) => r.state = "COMPLETE"
<1> DEFINE p == [state |-> "READING_HEADERS", buffer |-> <<h>>, method |-> "none",
                 head |-> NoHead, offset |-> 0]
<1>1. [ResetParser EXCEPT !.buffer = @ \o <<h>>] = p
  BY DEF ResetParser
<1>2. r = ReadHead(p, 1)
  BY <1>1 DEF Feed, ResetParser
<1>. QED  BY <1>2 DEF ReadHead, ReadBody, HasBody, MethodOf, Tokens, Kinds

LEMMA FedWhole ==
  ASSUME NEW h \in Tokens, NEW b \in Tokens, h.part = "head", h.kind # "badhead",
         HasBody(h.kind), NEW r \in Feed(ResetParser, <<h, b>>)
  PROVE  /\ r.state = IF h.kind = "badbody" THEN "ERROR_STATE" ELSE "COMPLETE"
         /\ r.method = MethodOf(h.kind) /\ r.head = h
<1> DEFINE p == [ResetParser EXCEPT !.buffer = @ \o <<h, b>>]
<1>1. p = [state |-> "READING_HEADERS", buffer |-> <<h, b>>, method |-> "none",
           head |-> NoHead, offset |-> 0]
  BY DEF ResetParser
<1>2. r = ReadHead(p, 1)
  BY <1>1 DEF Feed, ResetParser
<1> HIDE DEF p
<1>. QED  BY <1>1, <1>2 DEF ReadHead, ReadBody, MethodOf, HasBody, Tokens, Kinds

LEMMA FedBody ==
  ASSUME NEW h \in Tokens, NEW b \in Tokens, NEW p \in Parsers,
         p.state = "READING_BODY", p.buffer = <<h>>, p.method = MethodOf(h.kind),
         p.head = h, p.offset = 1, NEW r \in Feed(p, <<b>>)
  PROVE  /\ r.state = IF h.kind = "badbody" THEN "ERROR_STATE" ELSE "COMPLETE"
         /\ r.method = MethodOf(h.kind) /\ r.head = h
<1> DEFINE q == [p EXCEPT !.buffer = @ \o <<b>>]
<1>1. <<h>> \o <<b>> = <<h, b>>
  BY Pieces
<1>2. /\ q.buffer = <<h, b>> /\ q.offset = 1 /\ q.head = h /\ q.method = MethodOf(h.kind)
      /\ q \in [state : ParseState, buffer : Seq(Tokens), method : Methods,
                head : Tokens, offset : Nat]
  <2>1. <<h, b>> \in Seq(Tokens)
    OBVIOUS
  <2>. QED  BY <1>1, <2>1 DEF Parsers
<1>3. r = ReadBody(q)
  BY DEF Feed
<1>4. Len(q.buffer) = 2
  BY <1>2
<1> HIDE DEF q
<1>. QED  BY <1>2, <1>3, <1>4 DEF ReadBody

\* feed() leaves the parser waiting for the body, or with the whole request.
LEMMA RequestFed ==
  ASSUME TypeOK, FdsOwned, NEW c \in Clients, Arriving(c), LastKind(c) # "badhead",
         NEW k \in 1..Len(inbox[c]), NEW r, NEW rest,
         r \in Feed(ParserOf(c), SubSeq(inbox[c], 1, k)),
         rest = SubSeq(inbox[c], k + 1, Len(inbox[c]))
  PROVE  \/ Awaits(c, r) /\ HasBody(LastKind(c)) /\ r.buffer \o rest = Request(c)
         \/ /\ rest = << >> /\ ~owesBody[c]
            /\ r.state = IF LastKind(c) = "badbody" THEN "ERROR_STATE" ELSE "COMPLETE"
            /\ r.method = MethodOf(LastKind(c)) /\ r.head.of = LastRequest(c)
<1> DEFINE h == Token(c, begun[c], "head")
           b == Token(c, begun[c], "body")
<1>1. begun[c] \in 1..Len(script[c]) /\ script[c] \in Seq(Kinds) /\ inbox[c] \in Seq(Tokens)
  BY ScriptsAreKinds DEF TypeOK, NetworkTypeOK, ClientTypeOK, TcpTypeOK, Arriving, Unanswered
<1>2. LastKind(c) \in Kinds
  BY <1>1 DEF LastKind
<1>3. /\ h \in Tokens /\ h.kind = LastKind(c) /\ h.part = "head" /\ h.of = LastRequest(c)
      /\ b \in Tokens
  BY <1>1, <1>2 DEF Token, Tokens, LastKind, LastRequest, RequestIds
<1>4. Request(c) = IF HasBody(LastKind(c)) /\ ~owesBody[c] THEN <<h, b>> ELSE <<h>>
  BY DEF Request
<1>5. \A p : Awaits(c, p) <=> /\ p.state = "READING_BODY" /\ p.buffer = <<h>>
                             /\ p.method = MethodOf(h.kind) /\ p.head = h /\ p.offset = 1
  BY <1>3 DEF Awaits
<1>6. owesBody[c] \in BOOLEAN /\ (owesBody[c] => HasBody(LastKind(c)))
  BY DEF TypeOK, NetworkTypeOK, ClientTypeOK, Arriving
<1> HIDE DEF h, b
<1>9. /\ SubSeq(<<h>>, 1, 1) = <<h>> /\ SubSeq(<<h>>, 2, 1) = << >>
      /\ SubSeq(<<h, b>>, 1, 1) = <<h>> /\ SubSeq(<<h, b>>, 2, 2) = <<b>>
      /\ SubSeq(<<h, b>>, 1, 2) = <<h, b>> /\ SubSeq(<<h, b>>, 3, 2) = << >>
      /\ <<h>> \o << >> = <<h>> /\ <<h>> \o <<b>> = <<h, b>>
  BY <1>3, Pieces
<1>10. ParserOf(c) \in Parsers
  BY ConnTyped DEF Connections, ParserOf
<1>7. CASE ParserOf(c) = ResetParser
  <2>1. inbox[c] = Request(c)
    BY <1>1, <1>7 DEF Arriving, ResetParser
  <2>2. CASE HasBody(LastKind(c)) /\ ~owesBody[c]
    <3>1. inbox[c] = <<h, b>> /\ k \in {1, 2}
      BY <1>4, <2>1, <2>2
    <3>2. CASE k = 1
      <4>1. SubSeq(inbox[c], 1, k) = <<h>> /\ rest = <<b>>
        BY <1>9, <3>1, <3>2
      <4>2. Awaits(c, r)
        <5>1. r \in Feed(ResetParser, <<h>>)
          BY <1>7, <4>1
        <5>. QED  BY <1>3, <1>5, <2>2, <5>1, FedHead
      <4>3. r.buffer \o rest = <<h, b>>
        BY <1>5, <1>9, <4>1, <4>2
      <4>. QED  BY <1>4, <2>2, <4>2, <4>3
    <3>3. CASE k = 2
      <4>1. SubSeq(inbox[c], 1, k) = <<h, b>> /\ rest = << >>
        BY <1>9, <3>1, <3>3
      <4>2. r \in Feed(ResetParser, <<h, b>>)
        BY <1>7, <4>1
      <4>3. /\ r.state = IF h.kind = "badbody" THEN "ERROR_STATE" ELSE "COMPLETE"
            /\ r.method = MethodOf(h.kind) /\ r.head = h
        BY <1>3, <2>2, <4>2, FedWhole
      <4>. QED  BY <1>3, <2>2, <4>1, <4>3
    <3>. QED  BY <3>1, <3>2, <3>3
  <2>3. CASE ~HasBody(LastKind(c)) \/ owesBody[c]
    <3>1. inbox[c] = <<h>> /\ k = 1
      BY <1>4, <2>1, <2>3
    <3>2. SubSeq(inbox[c], 1, k) = <<h>> /\ rest = << >>
      BY <1>9, <3>1
    <3>3. r \in Feed(ResetParser, <<h>>)
      BY <1>7, <3>2
    <3>4. CASE HasBody(LastKind(c))
      <4>1. Awaits(c, r)
        BY <1>3, <1>5, <3>3, <3>4, FedHead
      <4>2. r.buffer \o rest = <<h>>
        BY <1>5, <1>9, <3>2, <4>1
      <4>. QED  BY <1>4, <2>3, <3>4, <4>1, <4>2
    <3>5. CASE ~HasBody(LastKind(c))
      <4>1. r.state = "COMPLETE" /\ r.method = MethodOf(LastKind(c)) /\ r.head = h
        BY <1>3, <3>3, <3>5, FedHead
      <4>2. LastKind(c) # "badbody" /\ ~owesBody[c]
        BY <1>6, <3>5 DEF HasBody
      <4>. QED  BY <1>3, <3>2, <4>1, <4>2
    <3>. QED  BY <3>4, <3>5
  <2>. QED  BY <1>6, <2>2, <2>3
<1>8. CASE Awaits(c, ParserOf(c))
  <2>1. <<h>> \o inbox[c] = Request(c)
    BY <1>5, <1>8 DEF Arriving
  <2>2. inbox[c] # << >>
    BY <1>1
  <2>3. Request(c) = <<h, b>> /\ ~owesBody[c] /\ HasBody(LastKind(c))
    BY <1>1, <1>3, <1>4, <1>6, <2>1, <2>2, Pieces
  <2>4. inbox[c] = <<b>>
    <3>1. PICK s \in Seq(Tokens) : s = inbox[c]
      BY <1>1
    <3>2. <<h>> \o s = <<h, b>>
      BY <2>1, <2>3, <3>1
    <3>. QED  BY <1>3, <3>1, <3>2, Pieces
  <2>5. k = 1
    BY <2>4
  <2>6. SubSeq(inbox[c], 1, k) = <<b>> /\ rest = << >>
    <3>1. SubSeq(<<b>>, 1, 1) = <<b>> /\ SubSeq(<<b>>, 2, 1) = << >>
      BY <1>3, Pieces
    <3>. QED  BY <2>4, <2>5, <3>1
  <2>7. r \in Feed(ParserOf(c), <<b>>)
    BY <2>6
  <2>8. /\ r.state = IF h.kind = "badbody" THEN "ERROR_STATE" ELSE "COMPLETE"
        /\ r.method = MethodOf(h.kind) /\ r.head = h
    BY <1>3, <1>5, <1>8, <1>10, <2>7, FedBody
  <2>. QED  BY <1>3, <2>3, <2>6, <2>8
<1>. QED  BY <1>7, <1>8 DEF Arriving

-----------------------------------------------------------------------------
(***************************************************************************)
(* Steps that leave a client's request where it stands.                    *)
(***************************************************************************)
PendingKept(c) ==
  (NonePending(c) => NonePending(c)') /\ (OnePending(c) => OnePending(c)')

\* main() is writing to client c, or about to see that nothing is left to write.
AtSend(c) == pc \in {"send", "flush"} /\ sock[cur] = c

\* What Stage(c) is about.
SameWire(c) == got'[c] = got[c] /\ outbox'[c] = outbox[c]
SameInput(c) ==
  /\ script' = script /\ begun'[c] = begun[c] /\ owesBody'[c] = owesBody[c]
  /\ inbox'[c] = inbox[c]
SameEntry(c) ==
  /\ \A f \in Fds : sock'[f] = c <=> sock[f] = c
  /\ \A f \in Fds : sock[f] = c => clientMap'[f] = clientMap[f]

LEMMA StageKept ==
  ASSUME NEW c \in Clients, Stage(c), SameInput(c), Wire(c)' = Wire(c),
         ParserOf(c)' = ParserOf(c), PendingKept(c), Settled(c) => Settled(c)',
         Loaded(c) \/ Halfway(c) => ResponseOf(c)' = ResponseOf(c)
  PROVE  Stage(c)'
<1> USE DEF SameInput, PendingKept
<1>1. LastKind(c)' = LastKind(c) /\ Request(c)' = Request(c)
  BY DEF LastKind, Request, Token
<1>2. Awaits(c, ParserOf(c))' <=> Awaits(c, ParserOf(c))
  BY <1>1 DEF Awaits, Token
<1>3. \A m : Sent(c, m)' <=> Sent(c, m)
  BY DEF Sent
<1>4. (Unanswered(c)' <=> Unanswered(c)) /\ (Read(c)' <=> Read(c))
  BY <1>3 DEF Unanswered, Read
<1>5. CASE Resting(c)
  BY <1>3, <1>4, <1>5 DEF Resting, Stage
<1>6. CASE Arriving(c)
  BY <1>1, <1>2, <1>4, <1>6 DEF Arriving, Stage
<1>7. CASE Unserved(c)
  BY <1>4, <1>7 DEF Unserved, Stage
<1>8. CASE Computing(c)
  BY <1>4, <1>8 DEF Computing, Stage
<1>9. CASE Loaded(c)
  BY <1>4, <1>9 DEF Loaded, Stage
<1>10. CASE Halfway(c)
  BY <1>4, <1>10 DEF Halfway, Stage
<1>. QED  BY <1>5, <1>6, <1>7, <1>8, <1>9, <1>10 DEF Stage

\* While main() does anything but write to it, a settled response is a reset one.
LEMMA SettledIsEmpty ==
  ASSUME NEW c, Settled(c), ~AtSend(c)
  PROVE  ResponseOf(c) = EmptyResponse
BY DEF Settled, AtSend

\* A step of somebody else.
LEMMA Apart ==
  ASSUME OwnInv, OwnInv', NEW c \in Clients, Stage(c), ~AtSend(c),
         SameEntry(c), SameInput(c), SameWire(c), PendingKept(c)
  PROVE  Stage(c)' /\ Wire(c)' = Wire(c)
<1>1. ConnOf(c)' = ConnOf(c)
  BY ConnKept DEF OwnInv, SameEntry
<1>2. Settled(c) => Settled(c)'
  BY <1>1, SettledIsEmpty DEF Settled, ResponseOf
<1>3. Wire(c)' = Wire(c)
  BY DEF Wire, SameWire
<1>. QED  BY <1>1, <1>2, <1>3, StageKept DEF ParserOf, ResponseOf

\* Closing a descriptor, which is another client's if this one stays.
LEMMA DropApart ==
  ASSUME TypeOK, NEW c \in Clients, NEW f \in Fds, sock[f] \in Clients, Drop(f, sock[f]),
         Live(c)'
  PROVE  sock[f] # c /\ SameEntry(c) /\ inbox'[c] = inbox[c]
<1>1. sock \in [Fds -> Clients \cup {Nil}] /\ clientMap \in [Fds -> Connections]
      /\ phase \in [Clients -> {"idle", "queued", "open", "over"}]
      /\ inbox \in [Clients -> Seq(Tokens)]
  BY DEF TypeOK, MapTypeOK, NetworkTypeOK, EpollTypeOK, TcpTypeOK
<1>2. sock[f] # c
  BY <1>1 DEF Drop, Live
<1>3. c # Nil
  BY DescriptorsDistinct
<1>. QED  BY <1>1, <1>2, <1>3 DEF Drop, SameEntry

\* A client that is there was there before.
LEMMA LiveBefore ==
  ASSUME TypeOK, [Next]_vars, NEW c \in Clients, Live(c)'
  PROVE  Live(c)
<1> USE DEF poolVars, serverVars, loopVars, epollVars, tcpVars, clientVars, networkVars
<1>1. /\ phase \in [Clients -> {"idle", "queued", "open", "over"}]
      /\ peer \in [Clients -> {"open", "fin", "rst", "pipe"}]
  BY DEF TypeOK, NetworkTypeOK, TcpTypeOK
<1>2. MainStep => peer' = peer
  BY DEF MainStep, Wait, Dispatch, BatchDone, Accept, AcceptNotAdded, AcceptDone,
         AcceptThrows, DrainEventFd, DropStaleResult, LoadResult, LoadResultNotArmed,
         PopDone, RecvBadFd, RecvGone, RecvDrained, RecvData, SendAbsent, SendUnit,
         SendNothing, SendBlocked, SendDone, SendDoneNotArmed, SendThrows, SendKills
<1>3. MainStep => \A d \in Clients : phase[d] = "over" => phase'[d] = "over"
  <2>1. \A f : \A d : Drop(f, d) => \A e \in Clients : phase[e] = "over" => phase'[e] = "over"
    BY <1>1 DEF Drop
  <2>2. RecvData => \A d \in Clients : phase[d] = "over" => phase'[d] = "over"
    BY <2>1 DEF RecvData, Serve, KeepReading, BadRequest, Preflight, ReplyNotArmed, Submit
  <2>3. Accept \/ AcceptNotAdded => \A d \in Clients : phase[d] = "over" => phase'[d] = "over"
    BY <1>1 DEF Accept, AcceptNotAdded, Backlog
  <2>4. RecvGone \/ LoadResultNotArmed \/ SendDoneNotArmed \/ SendThrows
          => \A d \in Clients : phase[d] = "over" => phase'[d] = "over"
    BY <2>1 DEF RecvGone, LoadResultNotArmed, SendDoneNotArmed, SendThrows
  <2>. QED
    BY <2>2, <2>3, <2>4
       DEF MainStep, Wait, Dispatch, BatchDone, AcceptDone, AcceptThrows, DrainEventFd,
           DropStaleResult, LoadResult, PopDone, RecvBadFd, RecvDrained, SendAbsent,
           SendUnit, SendNothing, SendBlocked, SendDone, SendKills
<1>4. CASE MainStep
  BY <1>2, <1>3, <1>4 DEF Live
<1>5. CASE \E w \in Workers : WorkerStep(w)
  BY <1>5 DEF WorkerStep, TakeJob, PushResult, TaskThrows, SignalResult, Live
<1>6. ASSUME NEW d \in Clients, ClientStep(d) PROVE Live(c)
  BY <1>1, <1>6 DEF ClientStep, Connect, SendHead, SendBody, Receive, Leave, ResetArrives,
                    Connected, Live
<1>. QED  BY <1>4, <1>5, <1>6 DEF Next, vars, Live

-----------------------------------------------------------------------------
(***************************************************************************)
(* The steps of main().                                                    *)
(***************************************************************************)

\* Turns that move nothing of any client.
LEMMA TurnStage ==
  ASSUME Routed, Routed', NEW c \in Clients, Stage(c), Live(c),
         \/ Wait \/ Dispatch \/ BatchDone \/ AcceptDone \/ AcceptThrows \/ DrainEventFd
         \/ PopDone \/ RecvBadFd \/ RecvDrained \/ SendAbsent \/ SendNothing
         \/ SendBlocked \/ SendKills
  PROVE  Stage(c)' /\ Wire(c)' = Wire(c)
<1>1. UNCHANGED <<clientMap, sock, jobs, stage, task, results, inbox, outbox, clientVars>>
  BY DEF Wait, Dispatch, BatchDone, AcceptDone, AcceptThrows, DrainEventFd, PopDone,
         RecvBadFd, RecvDrained, SendAbsent, SendNothing, SendBlocked, SendKills,
         poolVars, serverVars, epollVars, tcpVars, networkVars
<1>2. ConnOf(c)' = ConnOf(c) /\ Wire(c)' = Wire(c)
  BY <1>1, ConnKept DEF Routed, OwnInv, Wire, clientVars
<1>3. PendingKept(c)
  BY <1>1, <1>2, PoolUntouched DEF PendingKept, clientVars
<1>4. Settled(c) => Settled(c)'
  <2> SUFFICES ASSUME Settled(c) PROVE Settled(c)'
    OBVIOUS
  <2>1. ResponseOf(c)' = ResponseOf(c)
    BY <1>2 DEF ResponseOf
  <2>2. CASE ResponseOf(c) = EmptyResponse
    BY <2>1, <2>2 DEF Settled
  <2>3. CASE ResponseOf(c) # EmptyResponse
    <3>1. FullySent(ResponseOf(c)) /\ pc \in {"send", "flush"} /\ sock[cur] = c
      BY <2>3 DEF Settled
    <3>2. cur \in Fds /\ ConnOf(c) = clientMap[cur] /\ c # Nil
      BY <3>1, ConnIs, DescriptorsDistinct DEF Routed, TypeOK, LoopTypeOK, OwnInv
    <3>3. SendNothing
      BY <3>1, <3>2
         DEF Wait, Dispatch, BatchDone, AcceptDone, AcceptThrows, DrainEventFd, PopDone,
             RecvBadFd, RecvDrained, SendAbsent, SendBlocked, SendKills, Routed, OwnInv,
             FdsOwned, ResponseOf, Live
    <3>. QED  BY <1>1, <2>1, <3>1, <3>3 DEF SendNothing, Settled, curVars
  <2>. QED  BY <2>2, <2>3
<1>. QED
  BY <1>1, <1>2, <1>3, <1>4, StageKept DEF SameInput, clientVars, ParserOf, ResponseOf

\* An accepted connection has a parser and a response as before, and no jobs yet.
LEMMA AcceptStage ==
  ASSUME Routed, Routed', NEW c \in Clients, Stage(c), Live(c)', Accept \/ AcceptNotAdded
  PROVE  Stage(c)' /\ Wire(c)' = Wire(c)
<1>0. /\ sock \in [Fds -> Clients \cup {Nil}] /\ clientMap \in [Fds -> Connections]
      /\ phase \in [Clients -> {"idle", "queued", "open", "over"}]
      /\ inbox \in [Clients -> Seq(Tokens)] /\ c # Nil
  BY DescriptorsDistinct DEF Routed, TypeOK, MapTypeOK, NetworkTypeOK, EpollTypeOK, TcpTypeOK
<1>1. ~AtSend(c) /\ UNCHANGED <<jobs, stage, task, results, outbox, clientVars>>
  BY DEF Accept, AcceptNotAdded, AtSend, poolVars
<1>2. ConnOf(c)'.id = ConnOf(c).id => PendingKept(c)
  BY <1>1, PoolUntouched DEF PendingKept, clientVars
<1>3. SameWire(c)
  BY <1>1 DEF SameWire, clientVars
<1>4. ASSUME SameEntry(c), inbox'[c] = inbox[c] PROVE Stage(c)' /\ Wire(c)' = Wire(c)
  <2>1. ConnOf(c)' = ConnOf(c)
    BY <1>4, ConnKept DEF Routed, OwnInv, SameEntry
  <2>2. SameInput(c)
    BY <1>1, <1>4 DEF SameInput, clientVars
  <2>. QED  BY <1>1, <1>2, <1>3, <1>4, <2>1, <2>2, Apart DEF Routed
<1>5. CASE AcceptNotAdded
  <2>1. PICK d \in Backlog : /\ phase' = [phase EXCEPT ![d] = "over"]
                             /\ inbox' = [inbox EXCEPT ![d] = << >>]
    BY <1>5 DEF AcceptNotAdded
  <2>2. c # d
    BY <1>0, <2>1 DEF Live, Backlog
  <2>3. sock' = sock /\ clientMap' = clientMap
    BY <1>5 DEF AcceptNotAdded
  <2>. QED  BY <1>0, <1>4, <2>1, <2>2, <2>3 DEF SameEntry
<1>6. CASE Accept
  <2>1. PICK d \in Backlog, f \in FreeFds :
          /\ sock' = [sock EXCEPT ![f] = d]
          /\ clientMap' = [clientMap EXCEPT ![f] = NewConnection(nextConnId)]
    BY <1>6 DEF Accept
  <2>2. f \in Fds /\ sock[f] = Nil /\ inbox' = inbox /\ d \in Clients /\ phase[d] = "queued"
    BY <1>6, <2>1 DEF Accept, FreeFds, Backlog
  <2>3. CASE c # d
    BY <1>0, <1>4, <2>1, <2>2, <2>3 DEF SameEntry
  <2>4. CASE c = d
    <3>1. ~\E g \in Fds : sock[g] = c
      BY <1>0, <2>2, <2>4 DEF Routed, OwnInv
    <3>2. ConnOf(c) = NoConnection
      BY <3>1 DEF ConnOf
    <3>3. sock'[f] = c /\ clientMap'[f] = NewConnection(nextConnId)
      BY <1>0, <2>1, <2>2, <2>4
    <3>4. ConnOf(c)' = NewConnection(nextConnId)
      <4>1. \A g \in Fds : sock'[g] = c => g = f
        BY <1>0, <2>1, <2>2, <3>1
      <4>. QED  BY <2>2, <3>3, <4>1 DEF ConnOf
    <3>5. /\ ParserOf(c)' = ParserOf(c) /\ ResponseOf(c)' = ResponseOf(c)
          /\ ConnOf(c)'.id = nextConnId /\ ResponseOf(c) = EmptyResponse
      BY <3>2, <3>4 DEF ParserOf, ResponseOf, NewConnection, NoConnection
    <3>6. /\ \A i \in 1..Len(jobs) : jobs[i].conn # nextConnId
          /\ \A w \in Workers : stage[w] # "idle" => task[w].conn # nextConnId
          /\ \A i \in 1..Len(results) : results[i].conn # nextConnId
      <4>1. PICK n \in Nat : n = nextConnId
        BY DEF Routed, TypeOK, MapTypeOK
      <4>2. \A j : Faithful(j) => j.conn \in 1..(n - 1)
        BY <4>1 DEF Faithful
      <4>3. \A j : Faithful(j) => j.conn # n
        BY <4>2
      <4>. QED  BY <4>1, <4>3 DEF Routed, JobInv
    <3>7. NonePending(c)'
      BY <1>1, <3>5, <3>6 DEF NonePending, NoneQueued, NoneRunning, NoneDone, Mine, Runs
    <3>8. PendingKept(c)
      BY <3>7, NoneIsOne, PTL DEF PendingKept
    <3>9. Wire(c)' = Wire(c) /\ SameInput(c)
      BY <1>1, <2>2 DEF Wire, SameInput, clientVars
    <3>10. Settled(c)'
      BY <3>5 DEF Settled
    <3>. QED  BY <3>5, <3>8, <3>9, <3>10, StageKept
  <2>. QED  BY <2>3, <2>4
<1>. QED  BY <1>5, <1>6

\* A result taken from the queue: what is loaded answers the last request.
LEMMA ResultStage ==
  ASSUME Routed, Routed', NEW c \in Clients, Stage(c), Live(c)',
         DropStaleResult \/ LoadResult \/ LoadResultNotArmed
  PROVE  Stage(c)' /\ Wire(c)' = Wire(c)
<1> DEFINE cr == Head(results)
           f == cr.fd
<1>0. /\ sock \in [Fds -> Clients \cup {Nil}] /\ clientMap \in [Fds -> Connections]
      /\ results \in Seq(ComputeResults) /\ c # Nil
  BY DescriptorsDistinct DEF Routed, TypeOK, MapTypeOK, NetworkTypeOK, EpollTypeOK
<1>1. /\ pc = "pop" /\ results # << >> /\ results' = Tail(results)
      /\ UNCHANGED <<jobs, stage, task, outbox, clientVars>>
  BY DEF DropStaleResult, LoadResult, LoadResultNotArmed, poolVars, networkVars, tcpVars
<1>2. ~AtSend(c)
  BY <1>1 DEF AtSend
<1>3. ConnOf(c)'.id = ConnOf(c).id =>
        PendingKept(c) /\ (OnePending(c) /\ Mine(c, cr) => NonePending(c)')
  BY <1>1, ResultTaken DEF PendingKept, clientVars, Routed
<1>4. SameWire(c) /\ Wire(c)' = Wire(c)
  BY <1>1 DEF SameWire, Wire, clientVars
<1>5. ASSUME SameEntry(c), inbox'[c] = inbox[c] PROVE Stage(c)'
  <2>1. ConnOf(c)' = ConnOf(c)
    BY <1>5, ConnKept DEF Routed, OwnInv, SameEntry
  <2>2. SameInput(c)
    BY <1>1, <1>5 DEF SameInput, clientVars
  <2>. QED  BY <1>2, <1>3, <1>4, <1>5, <2>1, <2>2, Apart DEF Routed
<1>6. CASE DropStaleResult
  BY <1>4, <1>5, <1>6 DEF DropStaleResult, networkVars, tcpVars, SameEntry
<1>7. ~Stale(cr) => f \in Fds /\ Present(f) /\ clientMap[f].id = cr.conn /\ sock[f] \in Clients
  <2>1. cr \in ComputeResults
    BY <1>0, <1>1
  <2>2. f \in Fds
    BY <2>1 DEF ComputeResults
  <2> HIDE DEF cr
  <2>. QED  BY <1>0, <2>2 DEF Stale, Routed, OwnInv, FdsOwned
<1>8. CASE LoadResultNotArmed
  <2>1. ~Stale(cr) /\ Drop(f, sock[f])
    BY <1>8 DEF LoadResultNotArmed
  <2>2. SameEntry(c) /\ inbox'[c] = inbox[c]
    BY <1>7, <2>1, DropApart DEF Routed
  <2>. QED  BY <1>4, <1>5, <2>2
<1>9. CASE LoadResult
  <2>1. /\ ~Stale(cr) /\ sock' = sock /\ inbox' = inbox
        /\ clientMap' = [clientMap EXCEPT ![f].response = Load(@, 200, cr.of)]
    BY <1>9 DEF LoadResult, tcpVars
  <2>2. CASE sock[f] # c
    BY <1>0, <1>4, <1>5, <1>7, <2>1, <2>2 DEF SameEntry
  <2>3. CASE sock[f] = c
    <3>1. ConnOf(c) = clientMap[f] /\ ConnOf(c)' = clientMap'[f]
      <4>1. \A g \in Fds : sock[g] = c => g = f
        BY <1>0, <1>7, <2>1, <2>3 DEF Routed, OwnInv, FdsOwned
      <4>. QED  BY <1>7, <2>1, <2>3, <4>1 DEF ConnOf
    <3>2. /\ ParserOf(c)' = ParserOf(c) /\ ConnOf(c)'.id = ConnOf(c).id
          /\ ResponseOf(c)' = Load(ResponseOf(c), 200, cr.of)
      BY <1>0, <1>7, <2>1, <3>1 DEF ParserOf, ResponseOf, Connections
    <3>3. Mine(c, cr)
      BY <1>7, <2>1, <3>1 DEF Mine
    <3>4. ~NonePending(c)
      <4>1. cr = results[1] /\ 1 \in 1..Len(results)
        BY <1>0, <1>1
      <4>. QED  BY <3>3, <4>1 DEF NonePending, NoneDone
    <3>5. Computing(c)
      BY <3>4 DEF Stage, Resting, Arriving, Unserved, Loaded, Halfway
    <3>6. cr.of = LastRequest(c)
      <4>1. cr = results[1] /\ 1 \in 1..Len(results)
        BY <1>0, <1>1
      <4>. QED  BY <3>3, <3>5, <4>1 DEF Computing, OnePending
    <3>7. ResponseOf(c) = EmptyResponse
      BY <1>2, <3>5, SettledIsEmpty DEF Computing
    <3>8. ResponseOf(c)' = [status |-> 200, of |-> LastRequest(c), sent |-> 0]
      BY <3>2, <3>6, <3>7 DEF Load, EmptyResponse
    <3>9. NonePending(c)'
      BY <1>3, <3>2, <3>3, <3>5 DEF Computing
    <3>10. SameInput(c)
      BY <1>1, <2>1 DEF SameInput, clientVars
    <3>11. Read(c)' /\ Unanswered(c)'
      BY <1>4, <3>2, <3>5, <3>10 DEF Computing, Read, Unanswered, Sent, SameInput
    <3>12. begun[c] \in Nat
      BY DEF Routed, TypeOK, NetworkTypeOK, ClientTypeOK
    <3>13. Fits(c, script[c], begun[c], begun[c], NextUnit(ResponseOf(c)))'
      BY <3>8, <3>10, <3>12 DEF Fits, NextUnit, LastRequest, SameInput
    <3>14. Loaded(c)'
      BY <3>8, <3>9, <3>11, <3>13 DEF Loaded
    <3>. QED  BY <1>4, <3>14 DEF Stage
  <2>. QED  BY <2>2, <2>3
<1>. QED  BY <1>4, <1>6, <1>8, <1>9

\* Reading another client's socket.
LEMMA ReadApart ==
  ASSUME Routed, Routed', NEW c \in Clients, Stage(c), Live(c)',
         RecvGone \/ (RecvData /\ sock[cur] # c)
  PROVE  Stage(c)' /\ Wire(c)' = Wire(c)
<1> DEFINE d == sock[cur]
<1>0. /\ sock \in [Fds -> Clients \cup {Nil}] /\ clientMap \in [Fds -> Connections]
      /\ inbox \in [Clients -> Seq(Tokens)] /\ c # Nil
  BY DescriptorsDistinct DEF Routed, TypeOK, MapTypeOK, NetworkTypeOK, EpollTypeOK, TcpTypeOK
<1>1. /\ pc = "recv" /\ cur \in Fds /\ d \in Clients /\ d # Nil /\ Present(cur)
      /\ UNCHANGED <<stage, task, results, outbox, clientVars>>
  BY DEF RecvGone, RecvData, Routed, TypeOK, LoopTypeOK, NetworkTypeOK, EpollTypeOK, OwnInv,
         FdsOwned, poolVars
<1>2. ~AtSend(c) /\ SameWire(c)
  BY <1>1 DEF AtSend, SameWire, clientVars
<1>3. ASSUME SameEntry(c), inbox'[c] = inbox[c],
             jobs' = jobs \/ \E j \in Jobs : jobs' = Append(jobs, j) /\ ~Mine(c, j)
      PROVE  Stage(c)' /\ Wire(c)' = Wire(c)
  <2>1. ConnOf(c)' = ConnOf(c)
    BY <1>3, ConnKept DEF Routed, OwnInv, SameEntry
  <2>2. SameInput(c)
    BY <1>1, <1>3 DEF SameInput, clientVars
  <2>3. PendingKept(c)
    <3>1. CASE jobs' = jobs
      BY <1>1, <2>1, <3>1, PoolUntouched DEF PendingKept, clientVars
    <3>2. CASE jobs' # jobs
      <4>1. PICK j \in Jobs : jobs' = Append(jobs, j) /\ ~Mine(c, j)
        BY <1>3, <3>2
      <4>. QED  BY <1>1, <2>1, <4>1, JobAdded DEF PendingKept, clientVars, Routed
    <3>. QED  BY <3>1, <3>2
  <2>. QED  BY <1>2, <1>3, <2>2, <2>3, Apart DEF Routed
<1>4. CASE RecvGone
  BY <1>1, <1>3, <1>4, DropApart DEF RecvGone, poolVars, Routed
<1>5. CASE RecvData /\ d # c
  <2>1. PICK k \in 1..Len(inbox[d]) :
          \E r \in Feed(clientMap[cur].request, SubSeq(inbox[d], 1, k)) :
            Serve(cur, d, r, SubSeq(inbox[d], k + 1, Len(inbox[d])))
    BY <1>5 DEF RecvData
  <2>2. PICK r \in Feed(clientMap[cur].request, SubSeq(inbox[d], 1, k)) :
          Serve(cur, d, r, SubSeq(inbox[d], k + 1, Len(inbox[d])))
    BY <2>1
  <2> PICK rest : rest = SubSeq(inbox[d], k + 1, Len(inbox[d]))
    OBVIOUS
  <2>3. Serve(cur, d, r, rest)
    BY <2>2
  <2>4. CASE ReplyNotArmed(cur, d, r)
    BY <1>1, <1>3, <2>4, DropApart DEF ReplyNotArmed, Routed
  <2>5. CASE ~ReplyNotArmed(cur, d, r)
    <3>1. /\ sock' = sock /\ inbox' = [inbox EXCEPT ![d] = rest]
          /\ \A f \in Fds : f # cur => clientMap'[f] = clientMap[f]
          /\ jobs' = jobs \/ jobs' = Append(jobs, JobOf(cur, r))
      BY <1>0, <2>3, <2>5
         DEF Serve, KeepReading, BadRequest, Preflight, Submit, Consume
    <3>2. SameEntry(c) /\ inbox'[c] = inbox[c]
      BY <1>0, <1>5, <3>1 DEF SameEntry
    <3>3. JobOf(cur, r) \in Jobs
      <4>1. r.head \in TokensOf(d) \cup {NoHead}
        BY <1>1, FedOfClient DEF ParsersOver, Routed
      <4>2. r.head.of \in RequestIds /\ r.head.kind \in Kinds
        BY <1>1, <4>1 DEF TokensOf, NoHead, RequestIds, Nobody, Kinds
      <4>. QED  BY <1>0, <1>1, <4>2 DEF JobOf, Jobs, Connections
    <3>4. ~Mine(c, JobOf(cur, r))
      <4>1. clientMap[cur].id # ConnOf(c).id
        BY <1>1, <1>5, ConnTyped DEF Routed, OwnInv
      <4>. QED  BY <4>1 DEF Mine, JobOf
    <3>. QED  BY <1>3, <3>1, <3>2, <3>3, <3>4
  <2>. QED  BY <2>4, <2>5
<1>. QED  BY <1>4, <1>5

\* Reading this client's socket takes its request on.
LEMMA ReadOwn ==
  ASSUME WellFramed, Routed, Routed', NEW c \in Clients, Stage(c), Live(c)',
         RecvData, sock[cur] = c
  PROVE  Stage(c)' /\ Wire(c)' = Wire(c)
<1>0. /\ sock \in [Fds -> Clients \cup {Nil}] /\ clientMap \in [Fds -> Connections]
      /\ inbox \in [Clients -> Seq(Tokens)] /\ c # Nil
      /\ phase \in [Clients -> {"idle", "queued", "open", "over"}]
      /\ begun[c] \in Nat
  BY DescriptorsDistinct DEF Routed, TypeOK, MapTypeOK, NetworkTypeOK, EpollTypeOK, TcpTypeOK,
     ClientTypeOK
<1>1. /\ pc = "recv" /\ cur \in Fds /\ UNCHANGED <<stage, task, results, outbox, clientVars>>
  BY DEF RecvData, Routed, TypeOK, LoopTypeOK
<1>2. PICK k \in 1..Len(inbox[c]) :
        \E r \in Feed(clientMap[cur].request, SubSeq(inbox[c], 1, k)) :
          Serve(cur, c, r, SubSeq(inbox[c], k + 1, Len(inbox[c])))
  BY DEF RecvData
<1>3. PICK r \in Feed(clientMap[cur].request, SubSeq(inbox[c], 1, k)) :
        Serve(cur, c, r, SubSeq(inbox[c], k + 1, Len(inbox[c])))
  BY <1>2
<1>4. PICK rest : rest = SubSeq(inbox[c], k + 1, Len(inbox[c]))
  OBVIOUS
<1>5. Serve(cur, c, r, rest)
  BY <1>3, <1>4
<1>6. ConnOf(c) = clientMap[cur] /\ ~AtSend(c)
  BY <1>1, ConnIs DEF Routed, OwnInv, AtSend
<1>7. Arriving(c)
  <2>1. inbox[c] # << >>
    BY <1>0
  <2>. QED  BY <2>1 DEF Stage, Resting, Unserved, Computing, Loaded, Halfway, Read
<1>8. LastKind(c) # "badhead" /\ begun[c] > 0
  <2>1. begun[c] \in 1..Len(script[c]) /\ script[c] \in Scripts /\ script[c] \in Seq(Kinds)
    BY <1>7, ScriptsAreKinds
       DEF Routed, TypeOK, NetworkTypeOK, ClientTypeOK, Arriving, Unanswered
  <2>. QED  BY <2>1 DEF WellFramed, LastKind
<1>9. \/ Awaits(c, r) /\ HasBody(LastKind(c)) /\ r.buffer \o rest = Request(c)
      \/ /\ rest = << >> /\ ~owesBody[c]
         /\ r.state = IF LastKind(c) = "badbody" THEN "ERROR_STATE" ELSE "COMPLETE"
         /\ r.method = MethodOf(LastKind(c)) /\ r.head.of = LastRequest(c)
  <2>1. r \in Feed(ParserOf(c), SubSeq(inbox[c], 1, k))
    BY <1>3, <1>6 DEF ParserOf
  <2>2. TypeOK /\ FdsOwned
    BY DEF Routed, OwnInv
  <2>3. c \in Clients /\ k \in 1..Len(inbox[c])
    OBVIOUS
  <2>. QED  BY ONLY <1>4, <1>7, <1>8, <2>1, <2>2, <2>3, RequestFed
<1>10. ResponseOf(c) = EmptyResponse /\ NonePending(c) /\ Unanswered(c)
  BY <1>6, <1>7, SettledIsEmpty DEF Arriving
<1>11. Wire(c)' = Wire(c) /\ Unanswered(c)'
  BY <1>1, <1>10 DEF Wire, Unanswered, Sent, clientVars
<1>12. ~ReplyNotArmed(cur, c, r)
  BY <1>0 DEF ReplyNotArmed, Drop, Live
<1>13. sock' = sock /\ inbox'[c] = rest
  BY <1>0, <1>5, <1>12 DEF Serve, KeepReading, BadRequest, Preflight, Submit, Consume
<1>14. ConnOf(c)' = clientMap'[cur]
  <2>1. \A g \in Fds : sock[g] = c => g = cur
    BY <1>0, <1>1 DEF Routed, OwnInv, FdsOwned
  <2>. QED  BY <1>1, <1>13, <2>1 DEF ConnOf
<1>15. LastKind(c)' = LastKind(c) /\ LastRequest(c)' = LastRequest(c) /\ begun' = begun
       /\ owesBody' = owesBody /\ script' = script
  BY <1>1 DEF LastKind, LastRequest, clientVars
<1>16. ASSUME ConnOf(c)'.id = ConnOf(c).id, jobs' = jobs PROVE NonePending(c)'
  BY <1>1, <1>10, <1>15, <1>16, PoolUntouched
<1>17. CASE KeepReading(cur, c, r, rest)
  <2>1. /\ ParserOf(c)' = r /\ ConnOf(c)'.id = ConnOf(c).id
        /\ ResponseOf(c)' = EmptyResponse /\ jobs' = jobs
    BY <1>0, <1>1, <1>6, <1>10, <1>14, <1>17
       DEF KeepReading, ParserOf, ResponseOf, Connections
  <2>2. NonePending(c)' /\ Settled(c)'
    BY <1>16, <2>1 DEF Settled
  <2>3. CASE Awaits(c, r) /\ HasBody(LastKind(c)) /\ r.buffer \o rest = Request(c)
    <3>1. Request(c)' = Request(c)
      BY <1>15 DEF Request, LastKind, Token
    <3>2. Awaits(c, ParserOf(c))'
      BY <1>15, <2>1, <2>3 DEF Awaits, Token, LastKind
    <3>3. (ParserOf(c).buffer \o inbox[c] = Request(c))'
      BY <1>13, <2>1, <2>3, <3>1
    <3>. QED  BY <1>11, <1>15, <2>2, <2>3, <3>2, <3>3 DEF Arriving, Stage
  <2>4. CASE ~(Awaits(c, r) /\ HasBody(LastKind(c)) /\ r.buffer \o rest = Request(c))
    <3>1. r.state = "COMPLETE" /\ r.method = "other" /\ rest = << >> /\ ~owesBody[c]
      BY <1>9, <1>17, <2>4 DEF KeepReading
    <3>. QED  BY <1>11, <1>13, <1>15, <2>1, <2>2, <3>1 DEF Unserved, Stage
  <2>. QED  BY <1>11, <2>3, <2>4
<1>18. CASE ~KeepReading(cur, c, r, rest)
  <2>1. /\ rest = << >> /\ ~owesBody[c]
        /\ r.state = IF LastKind(c) = "badbody" THEN "ERROR_STATE" ELSE "COMPLETE"
        /\ r.method = MethodOf(LastKind(c)) /\ r.head.of = LastRequest(c)
    BY <1>5, <1>9, <1>12, <1>18 DEF Serve, BadRequest, Preflight, Submit, Awaits
  <2>2. /\ ParserOf(c)' = ResetParser /\ ConnOf(c)'.id = ConnOf(c).id
    BY <1>0, <1>1, <1>5, <1>6, <1>12, <1>14, <1>18
       DEF Serve, BadRequest, Preflight, Submit, ParserOf, Connections
  <2>3. Read(c)'
    BY <1>13, <1>15, <2>1, <2>2 DEF Read
  <2>4. ASSUME NEW st \in {204, 400}, jobs' = jobs,
               clientMap'[cur].response = Load(clientMap[cur].response, st, Nobody),
               st = 204 => LastKind(c) = "options",
               st = 400 => LastKind(c) = "badbody"
        PROVE  Stage(c)'
    <3>1. ResponseOf(c)' = [status |-> st, of |-> Nobody, sent |-> 0]
      BY <1>6, <1>10, <1>14, <2>4 DEF ResponseOf, Load, EmptyResponse
    <3>2. Fits(c, script[c], begun[c], begun[c], NextUnit(ResponseOf(c)))'
      <4> DEFINE u == [status |-> st, of |-> Nobody, k |-> 0]
      <4>1. u.status = st
        OBVIOUS
      <4>2. NextUnit(ResponseOf(c))' = u
        BY <3>1 DEF NextUnit
      <4> HIDE DEF u
      <4>3. script'[c] = script[c] /\ begun'[c] = begun[c]
        BY <1>15
      <4>4. Fits(c, script[c], begun[c], begun[c], u)
        <5>1. CASE st = 204
          BY <1>0, <2>4, <4>1, <5>1 DEF Fits, LastKind
        <5>2. CASE st = 400
          BY <1>0, <2>4, <4>1, <5>2 DEF Fits, LastKind
        <5>. QED  BY <2>4, <5>1, <5>2
      <4>. QED  BY <4>2, <4>3, <4>4
    <3>. QED  BY <1>11, <1>16, <2>2, <2>3, <2>4, <3>1, <3>2 DEF Loaded, Stage
  <2>5. CASE BadRequest(cur, c, r, rest)
    <3>1. LastKind(c) = "badbody" /\ jobs' = jobs
      BY <2>1, <2>5 DEF BadRequest
    <3>2. clientMap'[cur].response = Load(clientMap[cur].response, 400, Nobody)
      BY <1>0, <1>1, <2>5 DEF BadRequest, Connections
    <3>. QED  BY <1>11, <2>4, <3>1, <3>2
  <2>6. CASE Preflight(cur, c, r, rest)
    <3>1. LastKind(c) = "options" /\ jobs' = jobs
      <4>1. LastKind(c) \in Kinds
        BY <1>8, ScriptsAreKinds DEF Routed, TypeOK, NetworkTypeOK, ClientTypeOK, LastKind
      <4>. QED  BY <2>1, <2>6, <4>1 DEF Preflight, MethodOf, Kinds
    <3>2. clientMap'[cur].response = Load(clientMap[cur].response, 204, Nobody)
      BY <1>0, <1>1, <2>6 DEF Preflight, Connections
    <3>. QED  BY <1>11, <2>4, <3>1, <3>2
  <2>7. CASE Submit(cur, c, r, rest)
    <3>1. jobs' = Append(jobs, JobOf(cur, r))
      BY <2>7 DEF Submit
    <3>2. JobOf(cur, r) \in Jobs /\ JobOf(cur, r).of = LastRequest(c)
      <4>1. r.head \in TokensOf(c) \cup {NoHead}
        BY <1>0, <1>1, FedOfClient DEF ParsersOver, Routed
      <4>2. r.head.of \in RequestIds /\ r.head.kind \in Kinds
        BY <4>1 DEF TokensOf, NoHead, RequestIds, Nobody, Kinds
      <4>. QED  BY <1>0, <1>1, <2>1, <4>2 DEF JobOf, Jobs, Connections
    <3>3. OnePending(c)'
      BY <1>1, <1>10, <1>15, <2>2, <3>1, <3>2, JobAdded DEF Routed
    <3>4. ResponseOf(c)' = EmptyResponse
      BY <1>0, <1>1, <1>6, <1>10, <1>14, <2>7 DEF Submit, ResponseOf, Connections
    <3>. QED  BY <1>11, <2>3, <3>3, <3>4 DEF Computing, Settled, Stage
  <2>. QED  BY <1>5, <1>12, <1>18, <2>5, <2>6, <2>7 DEF Serve
<1>. QED  BY <1>17, <1>18

\* Writing to another client's socket.
LEMMA SendApart ==
  ASSUME Routed, Routed', NEW c \in Clients, Stage(c), Live(c)',
         \/ SendDoneNotArmed \/ SendThrows
         \/ (SendUnit \/ SendDone) /\ sock[cur] # c
  PROVE  Stage(c)' /\ Wire(c)' = Wire(c)
<1>0. /\ sock \in [Fds -> Clients \cup {Nil}] /\ clientMap \in [Fds -> Connections]
      /\ outbox \in [Clients -> Seq(Units)] /\ c # Nil
  BY DescriptorsDistinct DEF Routed, TypeOK, MapTypeOK, NetworkTypeOK, EpollTypeOK, TcpTypeOK
<1>1. /\ pc \in {"send", "flush"} /\ cur \in Fds /\ sock[cur] \in Clients
      /\ UNCHANGED <<jobs, stage, task, results, clientVars>>
  BY DEF SendDoneNotArmed, SendThrows, SendUnit, SendDone, SendDue, Routed, TypeOK, LoopTypeOK,
         NetworkTypeOK, EpollTypeOK, OwnInv, FdsOwned, poolVars
<1>2. sock[cur] # c /\ SameEntry(c) /\ inbox'[c] = inbox[c] /\ outbox'[c] = outbox[c]
  <2>1. CASE SendDoneNotArmed \/ SendThrows
    <3>1. Drop(cur, sock[cur]) /\ outbox' = outbox
      BY <2>1 DEF SendDoneNotArmed, SendThrows
    <3>. QED  BY <1>1, <3>1, DropApart DEF Routed
  <2>2. CASE SendUnit /\ sock[cur] # c
    BY <1>0, <1>1, <2>2 DEF SendUnit, SameEntry
  <2>3. CASE SendDone /\ sock[cur] # c
    BY <1>0, <1>1, <2>3 DEF SendDone, SameEntry, tcpVars
  <2>. QED  BY <2>1, <2>2, <2>3
<1>3. ~AtSend(c) /\ SameInput(c) /\ SameWire(c)
  BY <1>1, <1>2 DEF AtSend, SameInput, SameWire, clientVars
<1>4. ConnOf(c)' = ConnOf(c)
  BY <1>2, ConnKept DEF Routed, OwnInv, SameEntry
<1>5. PendingKept(c)
  BY <1>1, <1>4, PoolUntouched DEF PendingKept, clientVars
<1>. QED  BY <1>2, <1>3, <1>5, Apart DEF Routed

\* A response that is all sent is reset.
LEMMA SendDoneOwn ==
  ASSUME Routed, Routed', NEW c \in Clients, Stage(c), SendDone, sock[cur] = c
  PROVE  Stage(c)' /\ Wire(c)' = Wire(c)
<1>0. /\ sock \in [Fds -> Clients \cup {Nil}] /\ clientMap \in [Fds -> Connections]
      /\ c # Nil /\ cur \in Fds
  BY DescriptorsDistinct
     DEF Routed, TypeOK, MapTypeOK, NetworkTypeOK, EpollTypeOK, LoopTypeOK, SendDone
<1>1. /\ sock' = sock /\ FullySent(clientMap[cur].response)
      /\ clientMap' = [clientMap EXCEPT ![cur].response = EmptyResponse]
      /\ UNCHANGED <<jobs, stage, task, results, inbox, outbox, clientVars>>
  BY DEF SendDone, Reset, poolVars, tcpVars
<1>2. ConnOf(c) = clientMap[cur] /\ ConnOf(c)' = clientMap'[cur]
  <2>1. \A g \in Fds : sock[g] = c => g = cur
    BY <1>0 DEF Routed, OwnInv, FdsOwned
  <2>. QED  BY <1>0, <1>1, <2>1 DEF ConnOf
<1>3. /\ ParserOf(c)' = ParserOf(c) /\ ConnOf(c)'.id = ConnOf(c).id
      /\ ResponseOf(c)' = EmptyResponse /\ FullySent(ResponseOf(c))
  BY <1>0, <1>1, <1>2 DEF ParserOf, ResponseOf, Connections
<1>4. ~Loaded(c) /\ ~Halfway(c)
  BY <1>3 DEF Loaded, Halfway, FullySent, RespSize
<1>5. PendingKept(c)
  BY <1>1, <1>3, PoolUntouched DEF PendingKept, clientVars
<1>6. SameInput(c) /\ Wire(c)' = Wire(c) /\ Settled(c)'
  BY <1>1, <1>3 DEF SameInput, Wire, Settled, clientVars
<1>. QED  BY <1>3, <1>4, <1>5, <1>6, StageKept

\* A unit of the response goes out, in its place.
LEMMA SendUnitOwn ==
  ASSUME Routed, Routed', NEW c \in Clients, Stage(c), Proper(c, Wire(c)), SendUnit,
         sock[cur] = c
  PROVE  Stage(c)' /\ Proper(c, Wire(c))'
<1>0. /\ sock \in [Fds -> Clients \cup {Nil}] /\ clientMap \in [Fds -> Connections]
      /\ c # Nil /\ cur \in Fds /\ pc = "send"
      /\ outbox \in [Clients -> Seq(Units)] /\ got \in [Clients -> Seq(Units)]
      /\ begun[c] \in Nat
  BY DescriptorsDistinct
     DEF Routed, TypeOK, MapTypeOK, NetworkTypeOK, EpollTypeOK, TcpTypeOK, ClientTypeOK,
         LoopTypeOK, SendUnit
<1>1. /\ sock' = sock /\ cur' = cur /\ ~FullySent(clientMap[cur].response)
      /\ clientMap' = [clientMap EXCEPT ![cur].response.sent = @ + 1]
      /\ outbox' = [outbox EXCEPT ![c] = Append(@, NextUnit(clientMap[cur].response))]
      /\ pc' = AfterUnit(clientMap[cur].response)
      /\ UNCHANGED <<jobs, stage, task, results, inbox, clientVars>>
  BY DEF SendUnit, poolVars, curVars
<1>2. ConnOf(c) = clientMap[cur] /\ ConnOf(c)' = clientMap'[cur]
  <2>1. \A g \in Fds : sock[g] = c => g = cur
    BY <1>0 DEF Routed, OwnInv, FdsOwned
  <2>. QED  BY <1>0, <1>1, <2>1 DEF ConnOf
<1>3. PICK r \in Responses : r = ResponseOf(c)
  BY <1>0, <1>2 DEF ResponseOf, Connections
<1>4. PICK u \in Units : u = NextUnit(r)
  BY DEF NextUnit, Units, Responses
<1>5. u.status = r.status /\ u.of = r.of /\ u.k = r.sent /\ r.sent \in Nat
  BY <1>4 DEF NextUnit, Responses
<1>6. ParserOf(c)' = ParserOf(c) /\ ConnOf(c)'.id = ConnOf(c).id
  BY <1>0, <1>1, <1>2 DEF ParserOf, Connections
<1>7. PICK q : q = ResponseOf(c)'
  OBVIOUS
<1>8. q.status = r.status /\ q.of = r.of /\ q.sent = r.sent + 1
  BY <1>0, <1>1, <1>2, <1>3, <1>7 DEF ResponseOf, Connections, Responses
<1>9. PICK w \in Seq(Units) : w = Wire(c)
  BY <1>0, ConcatProperties DEF Wire
<1>10. Wire(c)' = Append(w, u)
  <2>1. Wire(c)' = got[c] \o Append(outbox[c], u)
    BY <1>0, <1>1, <1>2, <1>3, <1>4 DEF Wire, ResponseOf, clientVars
  <2>. QED  BY <1>0, <1>9, <2>1, WireGrows DEF Wire
<1>11. Read(c)' <=> Read(c)
  BY <1>1, <1>6 DEF Read, clientVars
<1>12. NonePending(c) => NonePending(c)'
  BY <1>1, <1>6, PoolUntouched DEF clientVars
<1>13. pc' = IF r.status = 204 THEN "flush" ELSE "send"
  BY <1>1, <1>2, <1>3 DEF AfterUnit, ResponseOf
<1>14. /\ Count(Append(w, u), FirstUnits) = Count(w, FirstUnits) + IF u.k = 0 THEN 1 ELSE 0
       /\ Count(Append(w, u), LastUnits)
            = Count(w, LastUnits) + IF u.k + 1 = RespSize(u.status) THEN 1 ELSE 0
  BY CountAppend DEF FirstUnits, LastUnits
<1>15. Count(w, FirstUnits) \in Nat /\ Count(w, LastUnits) \in Nat
  BY PlacesFinite
<1>16. /\ Append(w, u) # << >>
       /\ Append(w, u)[Len(Append(w, u))] = u
  BY AppendProperties
<1>17. Whole(w) /\ InOrder(c, script[c], begun[c], w)
  BY <1>9 DEF Proper
<1>18. ASSUME Whole(Append(w, u)), InOrder(c, script[c], begun[c], Append(w, u))
       PROVE  Proper(c, Wire(c))'
  BY <1>1, <1>10, <1>18 DEF Proper, clientVars
<1>19. Sent(c, begun[c])' <=> /\ Count(Append(w, u), FirstUnits) = begun[c]
                              /\ Count(Append(w, u), LastUnits) = begun[c]
                              /\ Ended(Append(w, u))
  BY <1>1, <1>10 DEF Sent, clientVars
<1>20. ASSUME Read(c), NonePending(c), u.k + 1 = RespSize(u.status),
              Count(Append(w, u), FirstUnits) = begun[c],
              Count(Append(w, u), LastUnits) = begun[c]
       PROVE  Stage(c)'
  <2>1. Ended(Append(w, u))
    BY <1>16, <1>20 DEF Ended, LastUnits
  <2>2. FullySent(q)
    BY <1>5, <1>8, <1>20 DEF FullySent
  <2>3. Settled(c)'
    BY <1>1, <1>7, <1>13, <2>2 DEF Settled
  <2>4. Sent(c, begun[c])'
    BY <1>19, <1>20, <2>1
  <2>. QED  BY <1>11, <1>12, <1>20, <2>3, <2>4 DEF Resting, Stage
<1>21. ~Settled(c)
  <2>1. FullySent(EmptyResponse)
    BY DEF EmptyResponse, FullySent, RespSize
  <2>. QED  BY <1>1, <1>2, <2>1 DEF Settled, ResponseOf
<1>22. CASE Loaded(c)
  <2>1. /\ Count(w, FirstUnits) = begun[c] - 1 /\ Count(w, LastUnits) = begun[c] - 1
        /\ Ended(w) /\ begun[c] > 0
    BY <1>9, <1>22 DEF Loaded, Unanswered, Sent
  <2>2. u.k = 0 /\ r.status \in {200, 204, 400} /\ Fits(c, script[c], begun[c], begun[c], u)
    BY <1>3, <1>4, <1>5, <1>22 DEF Loaded
  <2>3. Whole(Append(w, u))
    BY <1>17, <2>1, <2>2, WholeAppend
  <2>4. InOrder(c, script[c], begun[c], Append(w, u))
    <3>1. Count(w, FirstUnits) + 1 = begun[c]
      BY <1>0, <2>1
    <3>. QED  BY <1>17, <2>2, <3>1, InOrderAppend
  <2>5. Count(Append(w, u), FirstUnits) = begun[c]
    BY <1>0, <1>14, <1>15, <2>1, <2>2
  <2>6. CASE r.status = 204
    <3>1. u.k + 1 = RespSize(u.status)
      BY <1>5, <2>2, <2>6 DEF RespSize
    <3>2. Count(Append(w, u), LastUnits) = begun[c]
      BY <1>0, <1>14, <1>15, <2>1, <3>1
    <3>. QED  BY <1>18, <1>20, <1>22, <2>3, <2>4, <2>5, <3>1, <3>2 DEF Loaded
  <2>7. CASE r.status # 204
    <3>1. u.k + 1 # RespSize(u.status) /\ r.status \in {200, 400}
      BY <1>5, <2>2, <2>7 DEF RespSize
    <3>2. Count(Append(w, u), LastUnits) + 1 = begun[c]
      BY <1>0, <1>14, <1>15, <2>1, <3>1
    <3>3. q.sent = 1 /\ q.status \in {200, 400}
      BY <1>5, <1>8, <2>2, <3>1
    <3>4. u = [NextUnit(q) EXCEPT !.k = 0]
      <4>1. u = [status |-> r.status, of |-> r.of, k |-> 0]
        BY <1>4, <1>5, <2>2 DEF NextUnit
      <4>2. [NextUnit(q) EXCEPT !.k = 0] = [status |-> r.status, of |-> r.of, k |-> 0]
        BY <1>8 DEF NextUnit
      <4>. QED  BY <4>1, <4>2
    <3>5. Halfway(c)'
      BY <1>1, <1>7, <1>10, <1>11, <1>12, <1>16, <1>22, <2>5, <3>2, <3>3, <3>4
         DEF Halfway, Loaded, clientVars
    <3>. QED  BY <1>18, <2>3, <2>4, <3>5 DEF Stage
  <2>. QED  BY <2>6, <2>7
<1>23. CASE Halfway(c)
  <2>1. /\ r.sent = 1 /\ r.status \in {200, 400} /\ w # << >>
        /\ w[Len(w)] = [u EXCEPT !.k = 0]
        /\ Count(w, FirstUnits) = begun[c] /\ Count(w, LastUnits) + 1 = begun[c]
    BY <1>3, <1>4, <1>9, <1>23 DEF Halfway
  <2>2. u.k = 1 /\ u.k + 1 = RespSize(u.status)
    BY <1>5, <2>1 DEF RespSize
  <2>3. Whole(Append(w, u))
    <3>1. w[Len(w)] = [u EXCEPT !.k = @ - 1]
      BY <2>1, <2>2
    <3>. QED  BY <1>17, <2>1, <2>2, <3>1, WholeAppend
  <2>4. InOrder(c, script[c], begun[c], Append(w, u))
    BY <1>17, <2>2, InOrderAppend
  <2>5. /\ Count(Append(w, u), FirstUnits) = begun[c]
        /\ Count(Append(w, u), LastUnits) = begun[c]
    BY <1>0, <1>14, <1>15, <2>1, <2>2
  <2>. QED  BY <1>18, <1>20, <1>23, <2>2, <2>3, <2>4, <2>5 DEF Halfway
<1>. QED  BY <1>21, <1>22, <1>23 DEF Stage, Resting, Arriving, Unserved, Computing

-----------------------------------------------------------------------------
(***************************************************************************)
(* The steps of the compute threads and of the clients.                    *)
(***************************************************************************)
LEMMA WorkerStage ==
  ASSUME Routed, Routed', NEW c \in Clients, Stage(c), NEW w \in Workers, WorkerStep(w)
  PROVE  Stage(c)' /\ Wire(c)' = Wire(c)
<1>1. UNCHANGED <<clientMap, sock, pc, cur, inbox, outbox, clientVars>>
  BY DEF WorkerStep, TakeJob, PushResult, TaskThrows, SignalResult, loopVars, curVars,
         networkVars, tcpVars
<1>2. ConnOf(c)' = ConnOf(c)
  BY <1>1, ConnKept DEF Routed, OwnInv
<1>3. PendingKept(c)
  BY <1>1, <1>2, JobTaken, ResultPushed, WorkerFreed
     DEF PendingKept, WorkerStep, clientVars, Routed
<1>4. /\ SameInput(c) /\ Wire(c)' = Wire(c) /\ ParserOf(c)' = ParserOf(c)
      /\ ResponseOf(c)' = ResponseOf(c)
  BY <1>1, <1>2 DEF SameInput, Wire, ParserOf, ResponseOf, clientVars
<1>5. Settled(c) => Settled(c)'
  BY <1>1, <1>4 DEF Settled
<1>. QED  BY <1>3, <1>4, <1>5, StageKept

\* A client has as many answers as responses have come whole; a larger part of the wire
\* holds no fewer.
LEMMA AnsweredIs ==
  ASSUME TypeOK, NEW c \in Clients
  PROVE  /\ Answered(c) = Count(got[c], LastUnits)
         /\ Count(got[c], LastUnits) <= Count(Wire(c), LastUnits)
         /\ Count(Wire(c), LastUnits) \in Nat
<1>1. got[c] \in Seq(Units) /\ outbox[c] \in Seq(Units) /\ Wire(c) \in Seq(Units)
  BY ConcatProperties DEF TypeOK, NetworkTypeOK, TcpTypeOK, ClientTypeOK, Wire
<1>2. \A i \in DOMAIN got[c] :
        got[c][i] \in LastUnits <=> got[c][i].k + 1 = RespSize(got[c][i].status)
  BY <1>1 DEF LastUnits
<1>3. Answered(c) = Count(got[c], LastUnits)
  BY <1>2 DEF Answered, Count
<1>. QED  BY <1>1, <1>3, CountPrefix, PlacesFinite DEF Wire

\* More requests begun: what was in order still is.
LEMMA InOrderLater ==
  ASSUME NEW c, NEW s, NEW b \in Nat, NEW b1 \in Nat, b <= b1, NEW w \in Seq(Units),
         InOrder(c, s, b, w)
  PROVE  InOrder(c, s, b1, w)
<1> SUFFICES ASSUME NEW i \in DOMAIN w, w[i].k = 0
             PROVE  Fits(c, s, b1, Cardinality({j \in 1..i : w[j].k = 0}), w[i])
  BY DEF InOrder
<1>1. IsFiniteSet(1..i) /\ {j \in 1..i : w[j].k = 0} \in SUBSET (1..i)
  BY FS_Interval
<1>2. Cardinality({j \in 1..i : w[j].k = 0}) \in Nat
  BY <1>1, FS_Subset, FS_CardinalityType
<1>3. PICK n \in Nat : n = Cardinality({j \in 1..i : w[j].k = 0})
  BY <1>2
<1>4. Fits(c, s, b, n, w[i])
  BY <1>3 DEF InOrder
<1> DEFINE Right == CASE w[i].status = 200 -> w[i].of = [client |-> c, n |-> n]
                      [] w[i].status = 204 -> s[n] = "options"
                      [] w[i].status = 400 -> s[n] \in {"badhead", "badbody"}
<1>5. \A x : Fits(c, s, x, n, w[i]) <=> n <= x /\ Right
  BY DEF Fits
<1> HIDE DEF Right
<1>. QED  BY <1>3, <1>4, <1>5

\* A step of a client leaves the server as it was.
LEMMA ServerAsBefore ==
  ASSUME Routed, Routed', NEW c \in Clients, ServerIdle
  PROVE  /\ ConnOf(c)' = ConnOf(c) /\ ParserOf(c)' = ParserOf(c)
         /\ ResponseOf(c)' = ResponseOf(c)
         /\ NonePending(c)' <=> NonePending(c)
         /\ Settled(c)' <=> Settled(c)
         /\ begun'[c] = begun[c] => PendingKept(c)
<1>1. UNCHANGED <<clientMap, sock, pc, cur, jobs, stage, task, results>>
  BY DEF ServerIdle, loopVars, serverVars, poolVars
<1>2. ConnOf(c)' = ConnOf(c)
  BY <1>1, ConnKept DEF Routed, OwnInv
<1>3. ParserOf(c)' = ParserOf(c) /\ ResponseOf(c)' = ResponseOf(c)
  BY <1>2 DEF ParserOf, ResponseOf
<1>4. NonePending(c)' <=> NonePending(c)
  BY <1>1, <1>2 DEF NonePending, NoneQueued, NoneRunning, NoneDone, Mine, Runs
<1>5. begun'[c] = begun[c] => PendingKept(c)
  BY <1>1, <1>2, PoolUntouched DEF PendingKept
<1>6. Settled(c)' <=> Settled(c)
  BY <1>1, <1>3 DEF Settled
<1>. QED  BY <1>2, <1>3, <1>4, <1>5, <1>6

\* A step of another client.
LEMMA OtherClientStage ==
  ASSUME Routed, Routed', NEW c \in Clients, Stage(c), NEW d \in Clients, d # c,
         ClientStep(d), ServerIdle
  PROVE  Stage(c)' /\ Wire(c)' = Wire(c) /\ got'[c] = got[c]
<1>1. SameInput(c) /\ SameWire(c)
  BY DEF ClientStep, Connect, SendHead, SendBody, Receive, Leave, ResetArrives, SameInput,
         SameWire, clientVars, Routed, TypeOK, NetworkTypeOK, TcpTypeOK, ClientTypeOK
<1>2. Wire(c)' = Wire(c)
  BY <1>1 DEF SameWire, Wire
<1>3. PendingKept(c) /\ ParserOf(c)' = ParserOf(c) /\ ResponseOf(c)' = ResponseOf(c)
      /\ (Settled(c) => Settled(c)')
  BY <1>1, ServerAsBefore DEF SameInput
<1>. QED  BY <1>1, <1>2, <1>3, StageKept DEF SameWire

\* A client that has all its answers begins a request.
LEMMA HeadStage ==
  ASSUME WellFramed, Routed, Routed', NEW c \in Clients, Stage(c), Proper(c, Wire(c)),
         SendHead(c), ServerIdle
  PROVE  Stage(c)' /\ Proper(c, Wire(c))' /\ got'[c] = got[c]
<1>0. /\ inbox \in [Clients -> Seq(Tokens)] /\ outbox \in [Clients -> Seq(Units)]
      /\ got \in [Clients -> Seq(Units)] /\ begun \in [Clients -> Nat]
      /\ owesBody \in [Clients -> BOOLEAN]
  BY DEF Routed, TypeOK, NetworkTypeOK, TcpTypeOK, ClientTypeOK
<1>1. PICK n \in Nat : n = begun[c]
  BY <1>0
<1>2. /\ ~owesBody[c] /\ Answered(c) >= n
      /\ begun'[c] = n + 1 /\ owesBody'[c] = HasBody(script[c][n + 1])
      /\ inbox'[c] = Append(inbox[c], Token(c, n + 1, "head"))
      /\ script' = script /\ got' = got /\ outbox' = outbox
  BY <1>0, <1>1 DEF SendHead, WellFramed
<1>3. Resting(c)
  <2>1. Count(Wire(c), LastUnits) >= n /\ Count(Wire(c), LastUnits) \in Nat
    <3>1. PICK x : x = Answered(c)
      OBVIOUS
    <3>2. PICK y : y = Count(Wire(c), LastUnits)
      OBVIOUS
    <3>3. x <= y /\ y \in Nat /\ x >= n /\ x \in Nat
      <4>1. /\ Answered(c) = Count(got[c], LastUnits) /\ Count(got[c], LastUnits) \in Nat
            /\ Count(got[c], LastUnits) <= Count(Wire(c), LastUnits)
            /\ Count(Wire(c), LastUnits) \in Nat
        BY <1>0, AnsweredIs, PlacesFinite DEF Routed
      <4>. QED  BY <1>2, <3>1, <3>2, <4>1
    <3>. QED  BY <3>2, <3>3
  <2>2. ~Unanswered(c)
    BY <1>1, <2>1 DEF Unanswered, Sent
  <2>3. ~Halfway(c)
    BY <1>1, <2>1 DEF Halfway
  <2>. QED  BY <2>2, <2>3 DEF Stage, Arriving, Unserved, Computing, Loaded
<1>4. Wire(c)' = Wire(c)
  BY <1>2 DEF Wire
<1>5. inbox'[c] = <<Token(c, n + 1, "head")>>
  BY <1>2, <1>3 DEF Resting, Read
<1>6. (begun[c] = n + 1)' /\ (LastKind(c) = script[c][n + 1])'
  BY <1>2 DEF LastKind
<1>7. Request(c)' = <<Token(c, n + 1, "head")>>
  <2>1. Token(c, n + 1, "head")' = Token(c, n + 1, "head")
    BY <1>2 DEF Token
  <2>2. ~(HasBody(LastKind(c)) /\ ~owesBody[c])'
    BY <1>2, <1>6
  <2>. QED  BY <1>6, <2>1, <2>2 DEF Request
<1>8. ParserOf(c)' = ResetParser /\ NonePending(c)' /\ Settled(c)'
  BY <1>3, ServerAsBefore DEF Resting, Read
<1>9. (ParserOf(c).buffer \o inbox[c] = Request(c))'
  <2>1. <<Token(c, n + 1, "head")>> = << >> \o <<Token(c, n + 1, "head")>>
    OBVIOUS
  <2>2. ParserOf(c)'.buffer = << >>
    BY <1>8 DEF ResetParser
  <2>. QED  BY <1>5, <1>7, <2>1, <2>2
<1>10. Unanswered(c)'
  <2>1. n + 1 > 0 /\ (n + 1) - 1 = n
    OBVIOUS
  <2>2. Sent(c, n)'
    BY <1>1, <1>3, <1>4 DEF Resting, Sent
  <2>. QED  BY <1>6, <2>1, <2>2 DEF Unanswered
<1>11. owesBody'[c] => HasBody(LastKind(c))'
  BY <1>2, <1>6
<1>12. Arriving(c)'
  BY <1>8, <1>9, <1>10, <1>11 DEF Arriving
<1>13. Proper(c, Wire(c))'
  <2>1. PICK w \in Seq(Units) : w = Wire(c)
    BY <1>0, ConcatProperties DEF Wire
  <2>2. Whole(w) /\ InOrder(c, script[c], n, w)
    BY <1>1, <2>1 DEF Proper
  <2>3. InOrder(c, script[c], n + 1, w)
    BY <2>2, InOrderLater
  <2>. QED  BY <1>2, <1>4, <2>1, <2>2, <2>3 DEF Proper
<1>. QED  BY <1>2, <1>12, <1>13 DEF Stage

LEMMA BodyStage ==
  ASSUME Routed, Routed', NEW c \in Clients, Stage(c), SendBody(c), ServerIdle
  PROVE  Stage(c)' /\ Wire(c)' = Wire(c) /\ got'[c] = got[c]
<1> DEFINE h == Token(c, begun[c], "head")
           b == Token(c, begun[c], "body")
<1>0. /\ inbox \in [Clients -> Seq(Tokens)] /\ owesBody \in [Clients -> BOOLEAN]
  BY DEF Routed, TypeOK, NetworkTypeOK, TcpTypeOK, ClientTypeOK
<1>1. /\ owesBody[c] /\ ~owesBody'[c] /\ inbox'[c] = Append(inbox[c], b)
      /\ UNCHANGED <<script, begun, got, outbox>>
  BY <1>0 DEF SendBody
<1>2. Arriving(c)
  BY <1>1 DEF Stage, Resting, Unserved, Computing, Loaded, Halfway, Read
<1>3. Wire(c)' = Wire(c)
  BY <1>1 DEF Wire
<1>4. HasBody(LastKind(c))
  BY <1>1, <1>2 DEF Arriving
<1>5. ParserOf(c).buffer \in Seq(Tokens) /\ h \in Tokens /\ b \in Tokens
  <2>1. ParserOf(c) \in Parsers
    BY ConnTyped DEF Connections, ParserOf, Routed, OwnInv
  <2>2. begun[c] \in 1..Len(script[c]) /\ script[c] \in Seq(Kinds)
    BY <1>2, ScriptsAreKinds
       DEF Routed, TypeOK, NetworkTypeOK, ClientTypeOK, Arriving, Unanswered
  <2>3. script[c][begun[c]] \in Kinds
    BY <2>2
  <2>. QED  BY <2>1, <2>2, <2>3 DEF Parsers, Token, Tokens, RequestIds
<1>6. ParserOf(c).buffer \o inbox[c] = <<h>>
  BY <1>1, <1>2 DEF Arriving, Request
<1>7. ParserOf(c).buffer \o Append(inbox[c], b) = <<h, b>>
  <2>1. PICK p \in Seq(Tokens) : p = ParserOf(c).buffer
    BY <1>5
  <2>2. PICK s \in Seq(Tokens) : s = inbox[c]
    BY <1>0
  <2>3. p \o Append(s, b) = Append(p \o s, b)
    BY <1>5, WireGrows
  <2>4. p \o s = <<h>>
    BY <1>6, <2>1, <2>2
  <2>5. \A x, y \in Tokens : Append(<<x>>, y) = <<x, y>>
    <3> SUFFICES ASSUME NEW x \in Tokens, NEW y \in Tokens
                 PROVE  Append(<<x>>, y) = <<x, y>>
      OBVIOUS
    <3>1. <<x>> \in Seq(Tokens)
      OBVIOUS
    <3>2. <<x>> \o <<y>> = <<x, y>>
      BY Pieces
    <3>. QED  BY <3>1, <3>2, AppendIsConcat
  <2> HIDE DEF h, b
  <2>. QED  BY <1>5, <2>1, <2>2, <2>3, <2>4, <2>5
<1>8. Token(c, begun[c], "head")' = h /\ Token(c, begun[c], "body")' = b
  BY <1>1 DEF Token
<1>9. LastKind(c)' = LastKind(c) /\ Request(c)' = <<h, b>>
  <2>1. LastKind(c)' = LastKind(c)
    BY <1>1 DEF LastKind
  <2>. QED  BY <1>1, <1>4, <1>8, <2>1 DEF Request
<1>10. /\ ParserOf(c)' = ParserOf(c)
       /\ NonePending(c)' <=> NonePending(c)
       /\ Settled(c)' <=> Settled(c)
  BY ServerAsBefore
<1>11. (ParserOf(c).buffer \o inbox[c] = Request(c))'
  BY <1>1, <1>7, <1>9, <1>10
<1>12. Unanswered(c)' <=> Unanswered(c)
  BY <1>1, <1>3 DEF Unanswered, Sent
<1>13. Awaits(c, ParserOf(c))' <=> Awaits(c, ParserOf(c))
  BY <1>8, <1>9, <1>10 DEF Awaits
<1>14. Arriving(c)'
  BY <1>1, <1>2, <1>9, <1>10, <1>11, <1>12, <1>13 DEF Arriving
<1>. QED  BY <1>1, <1>3, <1>14 DEF Stage

\* A client connects, or takes what has come: nothing on its wire changes.
LEMMA TakeStage ==
  ASSUME Routed, Routed', NEW c \in Clients, Stage(c), Connect(c) \/ Receive(c), ServerIdle
  PROVE  /\ Stage(c)' /\ Wire(c)' = Wire(c)
         /\ got'[c] \in {got[c], Wire(c)}
<1>0. /\ outbox \in [Clients -> Seq(Units)] /\ got \in [Clients -> Seq(Units)]
  BY DEF Routed, TypeOK, NetworkTypeOK, TcpTypeOK, ClientTypeOK
<1>1. SameInput(c)
  BY DEF Connect, Receive, SameInput, clientVars
<1>2. Wire(c)' = Wire(c) /\ got'[c] \in {got[c], Wire(c)}
  <2>1. CASE Connect(c)
    BY <2>1 DEF Connect, Wire, clientVars
  <2>2. CASE Receive(c)
    <3>1. got'[c] = got[c] \o outbox[c] /\ outbox'[c] = << >>
      BY <1>0, <2>2 DEF Receive
    <3>2. got[c] \o outbox[c] \in Seq(Units)
      BY <1>0, ConcatProperties
    <3>3. (got[c] \o outbox[c]) \o << >> = got[c] \o outbox[c]
      BY <3>2, ConcatEmptySeq
    <3>. QED  BY <3>1, <3>3 DEF Wire
  <2>. QED  BY <2>1, <2>2
<1>3. PendingKept(c) /\ ParserOf(c)' = ParserOf(c) /\ ResponseOf(c)' = ResponseOf(c)
      /\ (Settled(c) => Settled(c)')
  BY <1>1, ServerAsBefore DEF SameInput
<1>. QED  BY <1>1, <1>2, <1>3, StageKept

-----------------------------------------------------------------------------
(***************************************************************************)
(* The invariant, and the theorems.                                        *)
(***************************************************************************)
LEMMA ReplyInit == Init => ReplyInv
<1> SUFFICES ASSUME Init, NEW c \in Clients
             PROVE  Proper(c, got[c]) /\ Proper(c, Wire(c)) /\ Stage(c)
  BY DEF ReplyInv
<1>1. got[c] = << >> /\ Wire(c) = << >> /\ begun[c] = 0
  BY DEF Init, NetworkInit, Wire
<1>2. Proper(c, << >>)
  BY DEF Proper, Whole, InOrder
<1>3. ConnOf(c) = NoConnection
  BY DescriptorsDistinct DEF Init, NetworkInit, ConnOf
<1>4. Read(c) /\ Settled(c)
  BY <1>3 DEF Init, NetworkInit, Read, Settled, ParserOf, ResponseOf, NoConnection
<1>5. NonePending(c)
  BY DEF Init, NonePending, NoneQueued, NoneRunning, NoneDone, Runs
<1>6. Sent(c, begun[c])
  BY <1>1, CountEmpty DEF Sent, Ended
<1>. QED  BY <1>1, <1>2, <1>4, <1>5, <1>6 DEF Resting, Stage

\* What is proper stays so while the client sends on.
LEMMA ProperLater ==
  ASSUME NEW c \in Clients, TypeOK, TypeOK', NEW w \in Seq(Units), Proper(c, w),
         script' = script, begun'[c] >= begun[c]
  PROVE  Whole(w) /\ InOrder(c, script'[c], begun'[c], w)
<1>1. PICK m \in Nat : m = begun[c]
  BY DEF TypeOK, NetworkTypeOK, ClientTypeOK
<1>2. PICK n \in Nat : n = begun'[c]
  BY DEF TypeOK, NetworkTypeOK, ClientTypeOK
<1>3. m <= n /\ InOrder(c, script[c], m, w)
  BY <1>1, <1>2 DEF Proper
<1>4. InOrder(c, script[c], n, w)
  BY <1>3, InOrderLater
<1>. QED  BY <1>2, <1>4 DEF Proper

\* A step of main().
LEMMA MainStage ==
  ASSUME WellFramed, Routed, Routed', NEW c \in Clients, Stage(c), Live(c), Live(c)',
         Proper(c, Wire(c)), MainStep
  PROVE  Stage(c)' /\ (Wire(c)' = Wire(c) \/ Proper(c, Wire(c))')
<1>1. CASE \/ Wait \/ Dispatch \/ BatchDone \/ AcceptDone \/ AcceptThrows \/ DrainEventFd
           \/ PopDone \/ RecvBadFd \/ RecvDrained \/ SendAbsent \/ SendNothing
           \/ SendBlocked \/ SendKills
  BY <1>1, TurnStage
<1>2. CASE Accept \/ AcceptNotAdded
  BY <1>2, AcceptStage
<1>3. CASE DropStaleResult \/ LoadResult \/ LoadResultNotArmed
  BY <1>3, ResultStage
<1>4. CASE RecvGone
  BY <1>4, ReadApart
<1>5. CASE RecvData
  BY <1>5, ReadApart, ReadOwn
<1>6. CASE SendUnit
  BY <1>6, SendApart, SendUnitOwn
<1>7. CASE SendDone
  BY <1>7, SendApart, SendDoneOwn
<1>8. CASE SendDoneNotArmed \/ SendThrows
  BY <1>8, SendApart
<1>. QED  BY <1>1, <1>2, <1>3, <1>4, <1>5, <1>6, <1>7, <1>8 DEF MainStep

LEMMA ReplyStep ==
  ASSUME WellFramed, Routed, Routed', ReplyInv, [Next]_vars
  PROVE  ReplyInv'
<1> SUFFICES ASSUME NEW c \in Clients
             PROVE  /\ Proper(c, got[c])'
                    /\ Live(c)' => Proper(c, Wire(c))' /\ Stage(c)'
  BY DEF ReplyInv
<1>1. /\ TypeOK /\ TypeOK' /\ begun[c] \in Nat /\ got[c] \in Seq(Units)
      /\ Wire(c) \in Seq(Units)
  BY ConcatProperties DEF Routed, TypeOK, NetworkTypeOK, TcpTypeOK, ClientTypeOK, Wire
<1>2. Proper(c, got[c]) /\ (Live(c) => Proper(c, Wire(c)) /\ Stage(c))
  BY DEF ReplyInv
<1>3. Live(c)' => Live(c)
  BY <1>1, LiveBefore
<1>4. ASSUME script' = script, begun'[c] >= begun[c], got'[c] = got[c]
      PROVE  Proper(c, got[c])'
  BY <1>1, <1>2, <1>4, ProperLater DEF Proper
<1>5. ASSUME script' = script, begun'[c] >= begun[c], Wire(c)' = Wire(c), Live(c)
      PROVE  Proper(c, Wire(c))'
  BY <1>1, <1>2, <1>5, ProperLater DEF Proper
<1>6. ASSUME UNCHANGED clientVars,
             Live(c)' => Stage(c)' /\ (Wire(c)' = Wire(c) \/ Proper(c, Wire(c))')
      PROVE  /\ Proper(c, got[c])'
             /\ Live(c)' => Proper(c, Wire(c))' /\ Stage(c)'
  BY <1>1, <1>3, <1>4, <1>5, <1>6 DEF clientVars
<1>7. CASE MainStep
  <2>1. UNCHANGED clientVars
    BY <1>7 DEF MainStep, Wait, Dispatch, BatchDone, Accept, AcceptNotAdded, AcceptDone,
         AcceptThrows, DrainEventFd, DropStaleResult, LoadResult, LoadResultNotArmed,
         PopDone, RecvBadFd, RecvGone, RecvDrained, RecvData, SendAbsent, SendUnit,
         SendNothing, SendBlocked, SendDone, SendDoneNotArmed, SendThrows, SendKills,
         networkVars
  <2>. QED  BY <1>2, <1>3, <1>6, <1>7, <2>1, MainStage
<1>8. CASE \E w \in Workers : WorkerStep(w)
  <2>1. UNCHANGED clientVars
    BY <1>8 DEF WorkerStep, TakeJob, PushResult, TaskThrows, SignalResult, networkVars
  <2>. QED  BY <1>2, <1>3, <1>6, <1>8, <2>1, WorkerStage
<1>9. CASE UNCHANGED vars
  <2>1. /\ UNCHANGED <<clientMap, sock, pc, cur, jobs, stage, task, results, inbox, outbox,
                       clientVars>>
    BY <1>9 DEF vars, loopVars, serverVars, poolVars, networkVars, tcpVars
  <2>2. ServerIdle
    BY <1>9 DEF vars, ServerIdle, networkVars, epollVars
  <2>3. Live(c)' => Stage(c)'
    BY <1>2, <1>3, <2>1, <2>2, ServerAsBefore, StageKept DEF SameInput, Wire, clientVars
  <2>4. Wire(c)' = Wire(c)
    BY <2>1 DEF Wire, clientVars
  <2>. QED  BY <1>6, <2>1, <2>3, <2>4
<1>10. ASSUME NEW d \in Clients, ClientStep(d), ServerIdle
       PROVE  /\ Proper(c, got[c])'
              /\ Live(c)' => Proper(c, Wire(c))' /\ Stage(c)'
  <2>1. CASE d # c
    <3>1. script' = script /\ begun'[c] = begun[c] /\ got'[c] = got[c]
      BY <1>10, <2>1
         DEF ClientStep, Connect, SendHead, SendBody, Receive, Leave, ResetArrives,
             clientVars, TypeOK, NetworkTypeOK, ClientTypeOK, Routed
    <3>. QED  BY <1>1, <1>2, <1>3, <1>4, <1>5, <1>10, <2>1, <3>1, OtherClientStage
  <2>2. CASE d = c /\ SendHead(c)
    <3>1. Live(c)
      BY <2>2 DEF SendHead, Connected, Live
    <3>2. Stage(c)' /\ Proper(c, Wire(c))' /\ got'[c] = got[c]
      BY <1>2, <1>10, <2>2, <3>1, HeadStage
    <3>3. script' = script /\ begun'[c] >= begun[c]
      BY <1>1, <2>2 DEF SendHead, TypeOK, NetworkTypeOK, ClientTypeOK
    <3>. QED  BY <1>4, <3>2, <3>3
  <2>3. CASE d = c /\ ~SendHead(c)
    <3>1. script' = script /\ begun' = begun
      BY <1>10, <2>3
         DEF ClientStep, Connect, SendBody, Receive, Leave, ResetArrives, clientVars
    <3>2. begun'[c] >= begun[c]
      BY <1>1, <3>1
    <3>3. CASE SendBody(c)
      <4>1. got'[c] = got[c] /\ Live(c)
        BY <3>3 DEF SendBody, Connected, Live
      <4>. QED  BY <1>2, <1>4, <1>5, <1>10, <2>3, <3>1, <3>2, <3>3, <4>1, BodyStage
    <3>4. CASE Connect(c)
      <4>1. got'[c] = got[c]
        BY <3>4 DEF Connect, clientVars
      <4>. QED  BY <1>2, <1>3, <1>4, <1>5, <1>10, <2>3, <3>1, <3>2, <3>4, <4>1, TakeStage
    <3>5. CASE Receive(c)
      <4>1. Live(c)
        BY <3>5 DEF Receive, Connected, Live
      <4>2. Stage(c)' /\ Wire(c)' = Wire(c) /\ got'[c] \in {got[c], Wire(c)}
        BY <1>2, <1>10, <2>3, <3>5, <4>1, TakeStage
      <4>3. Proper(c, Wire(c))'
        BY <1>5, <3>1, <3>2, <4>1, <4>2
      <4>4. Proper(c, got[c])'
        BY <1>4, <3>1, <3>2, <4>2, <4>3 DEF Proper
      <4>. QED  BY <4>2, <4>3, <4>4
    <3>6. CASE Leave(c) \/ ResetArrives(c)
      <4>1. got' = got
        BY <3>6 DEF Leave, ResetArrives, clientVars
      <4>2. peer'[c] # "open"
        BY <3>6, LeavingIsKnown
           DEF Leave, ResetArrives, Routed, TypeOK, NetworkTypeOK, TcpTypeOK
      <4>. QED  BY <1>4, <3>1, <3>2, <4>1, <4>2 DEF Live
    <3>. QED  BY <1>10, <2>3, <3>3, <3>4, <3>5, <3>6 DEF ClientStep
  <2>. QED  BY <2>1, <2>2, <2>3
<1>. QED  BY <1>7, <1>8, <1>9, <1>10 DEF Next

LEMMA AlwaysReplies == ASSUME WellFramed PROVE Spec => []ReplyInv
<1>1. Init => ReplyInv
  BY ReplyInit
<1>2. Routed /\ Routed' /\ ReplyInv /\ [Next]_vars => ReplyInv'
  BY ReplyStep
<1>. QED  BY <1>1, <1>2, AlwaysRouted, PTL DEF Spec

\* A client that waits for each response receives whole responses, one after the other.
THEOREM ResponsesAreWhole == ASSUME WellFramed PROVE Spec => []WholeResponses
<1>1. ReplyInv => WholeResponses
  BY DEF ReplyInv, Proper, Whole, WholeResponses
<1>. QED  BY <1>1, AlwaysReplies, PTL

\* The n-th of them answers its n-th request.
THEOREM ResponsesAreInOrder == ASSUME WellFramed PROVE Spec => []RepliesInOrder
<1>1. ReplyInv => RepliesInOrder
  BY DEF ReplyInv, Proper, InOrder, Fits, Matches, RepliesInOrder
<1>. QED  BY <1>1, AlwaysReplies, PTL
=====
