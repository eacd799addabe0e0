---------------------------- MODULE MCThreadPool ----------------------------
(***************************************************************************)
(* An instance of ThreadPool for TLC: an owner and a few workers.          *)
(***************************************************************************)
EXTENDS ThreadPool

CONSTANTS w1, w2, w3

FewWorkers == {w1, w2, w3}
FewThreads == {w1, w2, w3, Owner}
=============================================================================
