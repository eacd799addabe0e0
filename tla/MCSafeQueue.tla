---------------------------- MODULE MCSafeQueue ----------------------------
(***************************************************************************)
(* An instance of SafeQueue for TLC: three threads that call anything.     *)
(***************************************************************************)
EXTENDS SafeQueue, TLC

CONSTANTS t1, t2, t3

ThreeThreads == {t1, t2, t3}
Symmetric == Permutations(ThreeThreads)
=============================================================================
