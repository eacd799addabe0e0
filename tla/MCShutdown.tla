----------------------------- MODULE MCShutdown -----------------------------
(***************************************************************************)
(* An instance of Shutdown for TLC: main() and two workers.                *)
(***************************************************************************)
EXTENDS Shutdown

CONSTANTS w1, w2

FewWorkers == {w1, w2}
FewThreads == {w1, w2, Owner}
=============================================================================
