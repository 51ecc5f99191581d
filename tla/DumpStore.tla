------------------------------ MODULE DumpStore ------------------------------
(***************************************************************************)
(* What kernel, memory and filesystem promise together to a thread that    *)
(* calls DUMP_MEMORY: it goes on only with its dump stored, its process is *)
(* ended for a failed dump only if none was stored, and one of the two     *)
(* comes.  A dump that is stored is left alone by everybody but a dump of  *)
(* the same name.  A kernel that is stopping promises nothing to threads.  *)
(*                                                                         *)
(* Neither connections, handlers, blocks nor restarts exist here.          *)
(***************************************************************************)
EXTENDS Naturals

CONSTANTS Thread, Name, None

VARIABLES
  thread,   \* RUNS, WAITS, KILLED, or FAILED: its dump failed, and that has had
            \* no consequence yet
  dump,     \* the name and the number of the last dump made for each thread
  store,    \* the number of the dump stored under each name, 0 if none is
  kernel    \* UP, STOPPING or DOWN

storeVars == <<thread, dump, store, kernel>>

Init ==
  /\ thread = [t \in Thread |-> "RUNS"] /\ dump = [t \in Thread |-> None]
  /\ store = [n \in Name |-> 0] /\ kernel = "UP"

Becomes(t, from, to) == thread[t] \in from /\ thread' = [thread EXCEPT ![t] = to]

Stored(t) == dump[t] # None /\ store[dump[t].name] = dump[t].number

Ask(t) ==
  /\ Becomes(t, {"RUNS"}, "WAITS") /\ kernel # "DOWN"
  /\ dump' = [dump EXCEPT ![t] = None]
  /\ UNCHANGED <<store, kernel>>

\* Somebody still wants the dump of t, or does not know better
Pending(t) == /\ thread[t] # "FAILED"
              /\ thread[t] = "RUNS" => kernel # "UP"

\* The memory is read, under a number and a name that nothing stored has
Take(t) ==
  /\ Pending(t) /\ dump[t] = None /\ dump'[t] # None
  /\ dump'[t].name \in Name
  /\ \A n \in Name : store[n] # dump'[t].number
  /\ \A u \in Thread \ {t} :
       dump[u] # None => /\ dump[u].number # dump'[t].number
                         /\ dump[u].name # dump'[t].name
  /\ dump' = [dump EXCEPT ![t] = dump'[t]]
  /\ UNCHANGED <<thread, store, kernel>>

Puts(t, number) ==
  /\ Pending(t) /\ dump[t] # None
  /\ store' = [store EXCEPT ![dump[t].name] = number]
  /\ UNCHANGED <<thread, dump, kernel>>

Empty(t) == Puts(t, 0)
Save(t) == Puts(t, dump[t].number)

Resume(t) ==
  /\ Becomes(t, {"WAITS"}, "RUNS")
  /\ Stored(t) \/ kernel # "UP"
  /\ UNCHANGED <<dump, store, kernel>>

Fail(t) ==
  /\ Becomes(t, {"WAITS"}, "FAILED") /\ ~Stored(t)
  /\ UNCHANGED <<dump, store, kernel>>

\* By a sibling, or all of them because the dump of one failed
Kill(threads) ==
  /\ threads # {} /\ kernel # "DOWN"
  /\ thread' = [t \in Thread |-> IF t \in threads THEN "KILLED" ELSE thread[t]]
  /\ UNCHANGED <<dump, store, kernel>>

\* Another process starts
Renew ==
  /\ \A t \in Thread : thread[t] = "KILLED"
  /\ thread' = [t \in Thread |-> "RUNS"] /\ dump' = [t \in Thread |-> None]
  /\ UNCHANGED <<store, kernel>>

Stop ==
  /\ <<kernel, kernel'>> \in {<<"UP", "STOPPING">>, <<"STOPPING", "DOWN">>}
  /\ UNCHANGED <<thread, dump, store>>

Next ==
  \/ \E t \in Thread : Ask(t) \/ Take(t) \/ Empty(t) \/ Save(t) \/ Resume(t)
                         \/ Fail(t)
  \/ \E threads \in SUBSET Thread : Kill(threads)
  \/ Renew \/ Stop

\* Whoever waits goes on or is killed, unless the kernel stops
Answered ==
  \A t \in Thread :
    thread[t] \in {"WAITS", "FAILED"}
      ~> (thread[t] \in {"RUNS", "KILLED"} \/ kernel # "UP")

\* The kernel stops when it wants to, unless a dump has just failed
Stops ==
  (kernel = "STOPPING")
    ~> (kernel = "DOWN" \/ \E t \in Thread : thread[t] = "FAILED")

Safety == Init /\ [][Next]_storeVars
Spec == Safety /\ Answered /\ Stops
=============================================================================
