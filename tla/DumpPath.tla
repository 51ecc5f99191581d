------------------------------ MODULE DumpPath ------------------------------
(***************************************************************************)
(* The way of a DUMP_MEMORY through the three programs: the kernel blocks  *)
(* the thread and gives it a dump_memory_petitioner (transitions.c,        *)
(* scheduler.c), which asks the memory module; a thread there              *)
(* (attend_dump_memory, client_kernel.c) connects to the filesystem,       *)
(* sends the bytes and passes the answer on; FileSystem is the third.      *)
(* Handler stands for the threads of one process, and for whoever serves   *)
(* their dumps on the way: each has one dump at a time.                    *)
(*                                                                         *)
(* A connection whose other end is gone fails; a message to the filesystem *)
(* may arrive in parts, which its receiver takes for a failure.            *)
(***************************************************************************)
EXTENDS FileSystem

CONSTANTS
  Time,          \* the times of day that dumps are made at
  MaxDumps,      \* bound: how many times DUMP_MEMORY is called
  None

ASSUME DumpPathAssumption ==
  /\ Name = Handler \X Time
  /\ MaxDumps \in Nat
  /\ None \notin [name : Name, number : Nat]

VARIABLES
  thread,        \* RUN (all states but the next), BLOCKED (BLOCKED_DUMP), DEAD
  dying,         \* those whose insert_state_exit waits for memory, with
                 \* RWLOCK_SCHEDULING held for writing
  petition,      \* where each petitioner is: with a result once it has one
  relay,         \* where attend_dump_memory is, or what it sent and nobody read
  request,       \* the name and the number of the dump it made
  reply,         \* the result on its connection to the filesystem
  kernel,        \* UP, STOPPING, WAITING (wait_dump_memory_threads) or DOWN
  calls          \* how many times DUMP_MEMORY was called

pathVars == <<thread, dying, petition, relay, request, reply, kernel, calls>>
vars == <<fsVars, pathVars>>

Each(value) == [t \in Handler |-> value]

Init ==
  /\ FsInit
  /\ thread = Each("RUN") /\ dying = {}
  /\ petition = Each("NONE") /\ relay = Each("NONE")
  /\ request = Each(None) /\ reply = Each("NONE")
  /\ kernel = "UP" /\ calls = 0

Petitions(t, from, to) ==
  petition[t] = from /\ petition' = [petition EXCEPT ![t] = to]
Relays(t, from, to) == relay[t] = from /\ relay' = [relay EXCEPT ![t] = to]

-----------------------------------------------------------------------------
(* The kernel                                                              *)

\* RWLOCK_SCHEDULING
CanRead == dying = {}
CanWrite == dying = {} /\ kernel \notin {"WAITING", "DOWN"}

\* pthread_cancel of petitioners that wait for memory, or are about to ask it:
\* each runs remove_dump_memory_thread with the result it began with
Cancelled(threads) ==
  [t \in Handler |->
     IF t \in threads /\ petition[t] \in {"CONNECT", "WAIT"} THEN "OK"
     ELSE petition[t]]

\* bound: not before everything of the last dump of the thread is over
DumpMemory(t) ==
  /\ CanRead /\ kernel \in {"UP", "STOPPING"}
  /\ thread[t] = "RUN" /\ calls < MaxDumps
  /\ relay[t] = "NONE" /\ pc[t] = "IDLE"
  /\ Petitions(t, "NONE", "CONNECT")
  /\ thread' = [thread EXCEPT ![t] = "BLOCKED"]
  /\ request' = [request EXCEPT ![t] = None]
  /\ calls' = calls + 1
  /\ UNCHANGED <<fsVars, dying, relay, reply, kernel>>

Petition(t) ==
  /\ Petitions(t, "CONNECT", "WAIT")
  /\ Relays(t, "NONE", "ATTEND")
  /\ UNCHANGED <<fsVars, thread, dying, request, reply, kernel, calls>>

ReceiveResult(t) ==
  /\ relay[t] \in {"OK", "ERROR"}
  /\ Petitions(t, "WAIT", relay[t])
  /\ relay' = [relay EXCEPT ![t] = "NONE"]
  /\ UNCHANGED <<fsVars, thread, dying, request, reply, kernel, calls>>

\* The connection is lost: exit_sigint, with a result that was not received
LoseMemory(t) ==
  /\ Relays(t, "BROKEN", "NONE") /\ Petitions(t, "WAIT", "OK")
  /\ kernel' = IF kernel = "UP" THEN "STOPPING" ELSE kernel
  /\ UNCHANGED <<fsVars, thread, dying, request, reply, calls>>

\* remove_dump_memory_thread: petition->tcb is NULL if the thread was killed
RemoveOk(t) ==
  /\ CanRead /\ Petitions(t, "OK", "NONE")
  /\ thread' = IF thread[t] = "BLOCKED" THEN [thread EXCEPT ![t] = "RUN"]
               ELSE thread
  /\ UNCHANGED <<fsVars, dying, relay, request, reply, kernel, calls>>

\* ... kill_process and insert_state_exit; a sibling that is in the CPU exits
\* a little later
RemoveFailed(t) ==
  /\ CanWrite /\ petition[t] = "ERROR"
  /\ IF thread[t] = "BLOCKED"
     THEN /\ dying' = {u \in Handler : thread[u] # "DEAD"}
          /\ thread' = Each("DEAD")
     ELSE UNCHANGED <<dying, thread>>
  /\ petition' = [Cancelled(dying') EXCEPT ![t] = "NONE"]
  /\ UNCHANGED <<fsVars, relay, request, reply, kernel, calls>>

\* THREAD_CANCEL of t
ThreadCancel(t) ==
  /\ CanWrite /\ thread[t] = "BLOCKED" /\ \E u \in Handler : thread[u] = "RUN"
  /\ thread' = [thread EXCEPT ![t] = "DEAD"] /\ dying' = {t}
  /\ petition' = Cancelled({t})
  /\ UNCHANGED <<fsVars, relay, request, reply, kernel, calls>>

\* THREAD_DESTROY, for which memory waits until no dump holds its locks, and
\* PROCESS_DESTROY after the last one
ThreadDestroy(t) ==
  /\ t \in dying /\ \A u \in Handler : relay[u] # "CONNECT"
  /\ dying' = dying \ {t}
  /\ UNCHANGED <<fsVars, thread, petition, relay, request, reply, kernel, calls>>

\* Another process; bound: in the place of one of which nothing is left
NewProcess ==
  /\ kernel = "UP" /\ dying = {}
  /\ \A t \in Handler : /\ thread[t] = "DEAD" /\ petition[t] = "NONE"
                        /\ relay[t] = "NONE" /\ pc[t] = "IDLE"
  /\ thread' = Each("RUN") /\ request' = Each(None)
  /\ UNCHANGED <<fsVars, dying, petition, relay, reply, kernel, calls>>

\* SIGINT
Stop ==
  /\ kernel = "UP" /\ kernel' = "STOPPING"
  /\ UNCHANGED <<fsVars, thread, dying, petition, relay, request, reply, calls>>

\* wait_dump_memory_threads, which keeps its read lock while it waits
WaitDumps ==
  /\ kernel = "STOPPING" /\ CanRead
  /\ kernel' = "WAITING"
  /\ petition' = Cancelled(Handler)
  /\ UNCHANGED <<fsVars, thread, dying, relay, request, reply, calls>>

Finish ==
  /\ kernel = "WAITING" /\ petition = Each("NONE")
  /\ kernel' = "DOWN"
  /\ UNCHANGED <<fsVars, thread, dying, petition, relay, request, reply, calls>>

-----------------------------------------------------------------------------
(* attend_dump_memory                                                      *)

Known(t) == thread[t] # "DEAD" \/ t \in dying

\* With the locks from here to the sending
Attend(t) ==
  /\ Relays(t, "ATTEND", IF Known(t) THEN "CONNECT" ELSE "ERROR")
  /\ UNCHANGED <<fsVars, thread, dying, petition, request, reply, kernel, calls>>

Send(t, time, size) ==
  /\ Relays(t, "CONNECT", "WAIT")
  /\ Receive(t, <<t, time>>, size)
  /\ request' = [request EXCEPT ![t] = [name |-> <<t, time>>, number |-> dumps']]
  /\ UNCHANGED <<thread, dying, petition, reply, kernel, calls>>

\* recv returns a part: the handler takes it for a failure, and closes
SendInParts(t) ==
  /\ Relays(t, "CONNECT", "WAIT")
  /\ UNCHANGED <<fsVars, thread, dying, petition, request, reply, kernel, calls>>

\* The answer of the filesystem, or its end of the connection
PassOn(t) ==
  /\ reply[t] # "NONE" /\ Relays(t, "WAIT", reply[t])
  /\ reply' = [reply EXCEPT ![t] = "NONE"]
  /\ UNCHANGED <<fsVars, thread, dying, petition, request, kernel, calls>>

LoseFilesystem(t) ==
  /\ reply[t] = "NONE" /\ pc[t] = "IDLE" /\ Relays(t, "WAIT", "BROKEN")
  /\ UNCHANGED <<fsVars, thread, dying, petition, request, reply, kernel, calls>>

\* Nobody is there to read the result: the petitioner was cancelled
Unread(t) ==
  /\ relay[t] \in {"OK", "ERROR", "BROKEN"} /\ petition[t] # "WAIT"
  /\ relay' = [relay EXCEPT ![t] = "NONE"]
  /\ UNCHANGED <<fsVars, thread, dying, petition, request, reply, kernel, calls>>

-----------------------------------------------------------------------------
(* The filesystem                                                          *)

\* A dump that was refused has no blocks
ResultAlwaysOk(t) == "OK"
Result(t) == IF job[t].array = <<>> THEN "ERROR" ELSE "OK"

AnswerDump(t) ==
  /\ Answer(t)
  /\ reply' = [reply EXCEPT ![t] = Result(t)]
  /\ UNCHANGED <<thread, dying, petition, relay, request, kernel, calls>>

WorkOn(t) == Work(t) /\ UNCHANGED pathVars

\* Its connections break
RestartFilesystem == Restart /\ UNCHANGED pathVars

-----------------------------------------------------------------------------
Petitioner(t) == Petition(t) \/ ReceiveResult(t) \/ LoseMemory(t)
                   \/ RemoveOk(t) \/ RemoveFailed(t)

Relay(t) ==
  \/ Attend(t) \/ SendInParts(t) \/ PassOn(t) \/ LoseFilesystem(t) \/ Unread(t)
  \/ \E time \in Time, size \in Sizes : Send(t, time, size)

Serve(t) == WorkOn(t) \/ AnswerDump(t)

Next ==
  \/ \E t \in Handler : Petitioner(t) \/ Relay(t) \/ Serve(t)
  \/ \E t \in Handler : DumpMemory(t) \/ ThreadCancel(t) \/ ThreadDestroy(t)
  \/ NewProcess \/ Stop \/ WaitDumps \/ Finish
  \/ RestartFilesystem

Spec == Init /\ [][Next]_vars

\* Petitioners, relays and handlers run, the filesystem comes up in the end and
\* accepts connections, memory destroys what it is asked to, and a kernel that
\* is stopping goes on with it.  Programs need not call anything.
Fairness ==
  /\ \A t \in Handler :
       WF_vars(Petitioner(t)) /\ WF_vars(Relay(t)) /\ WF_vars(Serve(t))
         /\ WF_vars(ThreadDestroy(t))
  /\ WF_vars(WaitDumps) /\ WF_vars(Finish)

FairSpec == Spec /\ Fairness
-----------------------------------------------------------------------------
(* Properties *)

\* The type invariant.
TypeOK ==
  /\ FsTypeOK
  /\ thread \in [Handler -> {"RUN", "BLOCKED", "DEAD"}] /\ dying \subseteq Handler
  /\ petition \in [Handler -> {"NONE", "CONNECT", "WAIT", "OK", "ERROR"}]
  /\ relay \in [Handler -> {"NONE", "ATTEND", "CONNECT", "WAIT", "OK", "ERROR",
                            "BROKEN"}]
  /\ request \in [Handler -> [name : Name, number : 1 .. MaxDumps] \cup {None}]
  /\ reply \in [Handler -> {"NONE", "OK", "ERROR"}]
  /\ kernel \in {"UP", "STOPPING", "WAITING", "DOWN"}
  /\ calls \in dumps .. MaxDumps

StateOf(t) ==
  IF petition[t] = "ERROR" THEN "FAILED"
  ELSE CASE thread[t] = "RUN"     -> "RUNS"
         [] thread[t] = "BLOCKED" -> "WAITS"
         [] thread[t] = "DEAD"    -> "KILLED"

Abstract == INSTANCE DumpStore WITH
  Thread <- Handler,
  thread <- [t \in Handler |-> StateOf(t)],
  dump   <- request,
  store  <- [n \in Name |-> StoredAs(n)],
  kernel <- IF kernel = "WAITING" THEN "STOPPING" ELSE kernel

\* Kernel, memory and filesystem implement the store of dumps that threads see,
\* although handlers write side by side, petitioners are cancelled while their
\* dump is on its way, and a restart or a lost connection may come at any step:
\* a thread goes on only if its dump reads back, its process is ended for a
\* failed dump only if nothing was stored, and one of the two comes unless the
\* kernel stops.
Stores == Abstract!Spec
=============================================================================
