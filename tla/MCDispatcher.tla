---------------------------- MODULE MCDispatcher ----------------------------
(* Instances of Dispatcher: two threads that share one READY list.         *)
EXTENDS Dispatcher

CONSTANTS t1, t2

TwoThreads == {t1, t2}
=============================================================================
