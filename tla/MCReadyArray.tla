---------------------------- MODULE MCReadyArray ----------------------------
(* Instances of ReadyArray.                                                *)
EXTENDS ReadyArray

CONSTANTS t1, t2, t3

ThreeThreads == {t1, t2, t3}
ThreadSymmetry == Permutations(ThreeThreads)
=============================================================================
