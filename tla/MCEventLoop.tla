---------------------------- MODULE MCEventLoop ----------------------------
(***************************************************************************)
(* Instances of EventLoop for TLC: small sets of clients, descriptors and  *)
(* compute threads, and the scripts of requests the clients may send.      *)
(***************************************************************************)
EXTENDS EventLoop, TLC

CONSTANTS c1, c2, f1, f2, w1, w2

OneClient == {c1}
TwoClients == {c1, c2}
OneFd == {f1}
TwoFds == {f1, f2}
OneWorker == {w1}
TwoWorkers == {w1, w2}

\* Clients, descriptors and workers are interchangeable.
Symmetric == Permutations(TwoClients) \cup Permutations(TwoFds) \cup Permutations(TwoWorkers)

\* One request each: what routing, dropping and failing need.
SingleRequests == {<<"post">>, <<"throws">>, <<"options">>}

\* What a client that does not wait for responses may send, pair by pair.
AnyTwo == {<<"post", "post">>, <<"put", "post">>, <<"badhead", "options">>,
           <<"options", "badbody">>}

\* A preflight and a POST, or POSTs one after the other, one of them rejected late.
WellFormed == {<<"options", "post">>, <<"post", "badbody">>, <<"badbody", "post">>}

\* What liveness is checked with: a client that sends a preflight and then a POST, beside
\* one with a single request, good or rejected late.
Few == {<<"options", "post">>, <<"badbody">>, <<"post">>}
InitOfPair == Init /\ script[c1] = <<"options", "post">> /\ script[c2] # script[c1]
FairSpecOfPair == InitOfPair /\ [][Next]_vars /\ Fairness

\* A request whose compute task throws.
Throwing == {<<"options", "throws">>}

\* A request rejected at its headers while its body is on its way, then a good one.
RejectedThenPost == {<<"badhead", "post">>}
=============================================================================
