-------------------------- MODULE MCKernelThreads --------------------------
EXTENDS KernelThreads, TLC

CONSTANTS p1, m1, m2

OneProcess == {p1}
OneMutex == {m1}
TwoMutexes == {m1, m2}

MutexSymmetry == Permutations(Mutexes)

\* What follows a hand-over by a stale pointer is not explored
NotStale == ~staleHandover
=============================================================================
