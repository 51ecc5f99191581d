------------------------------ MODULE LongTerm ------------------------------
(***************************************************************************)
(* The admission of processes: PROCESS_CREATE puts a process in NEW, the   *)
(* long-term scheduler (scheduler.c) asks the memory module to place it,   *)
(* and waits for memory when it is refused; the end of a process gives its *)
(* memory back and wakes the scheduler (insert_state_exit in               *)
(* transitions.c, signal_free_memory in scheduler.c).                      *)
(*                                                                         *)
(* The memory module is Memory; a request to it and its handling are one   *)
(* step, and what the kernel does with the answer is another.  A running   *)
(* program is reduced to the calls that create and end threads.            *)
(***************************************************************************)
EXTENDS Memory

CONSTANTS
  NoPid          \* a NULL t_PCB *

ASSUME LongTermAssumption == NoPid \notin Pid

VARIABLES
  pids,          \* PID_MANAGER.size
  need,          \* t_PCB.size
  tids,          \* t_TID_Manager.size of each process
  tcb,           \* its TCBs: "NULL", "NEW", or "LIVE" from READY on
  newList,       \* SHARED_LIST_NEW
  semNew,        \* SEM_LONG_TERM_SCHEDULER_NEW
  freeMemory,    \* FREE_MEMORY
  lts,           \* where the long-term scheduler is
  hand,          \* the process it has taken
  ending,        \* the process the rest of the kernel is ending, if any
  endPc,         \* ... and how far it is
  endWrites,     \* ... and whether that holds the write lock
  overwritten    \* the last signal came between a refusal and its answer

pcbVars == <<pids, need, tids, tcb>>
ltsVars == <<lts, hand>>
endVars == <<ending, endPc, endWrites>>
newVars == <<newList, semNew>>
vars == <<memVars, pcbVars, newVars, freeMemory, ltsVars, endVars, overwritten>>

Init ==
  /\ MemoryInit
  /\ pids = 0 /\ need = [p \in Pid |-> 0] /\ tids = [p \in Pid |-> 0]
  /\ tcb = [p \in Pid |-> [t \in Tid |-> "NULL"]]
  /\ newList = <<>> /\ semNew = 0 /\ freeMemory = TRUE
  /\ lts = "WAIT" /\ hand = NoPid
  /\ ending = NoPid /\ endPc = "IDLE" /\ endWrites = FALSE
  /\ overwritten = FALSE

\* RWLOCK_SCHEDULING for reading; the short-term scheduler handles a call
CanRead == ~endWrites
Handling == endPc = "IDLE"

Runs(p) == \E t \in Tid : tcb[p][t] = "LIVE"

\* t_TID_Manager's counter
Counter(p) == Cardinality({t \in Tid : tcb[p][t] # "NULL"})

-----------------------------------------------------------------------------
(* The short-term scheduler's side *)

\* new_process: called by module() for the first one, then by PROCESS_CREATE
NewProcess(size) ==
  /\ Handling /\ pids < MaxProcesses
  /\ pids = 0 \/ \E p \in Pid : Runs(p)
  /\ pids' = pids + 1
  /\ need' = [need EXCEPT ![pids] = size]
  /\ tids' = [tids EXCEPT ![pids] = 1]
  /\ tcb' = [tcb EXCEPT ![pids][0] = "NEW"]
  /\ newList' = Append(newList, pids)
  /\ semNew' = semNew + 1
  /\ UNCHANGED <<memVars, freeMemory, ltsVars, endVars, overwritten>>

\* THREAD_CREATE.  Memory refuses a pseudocode without instructions; the new
\* TCB then stays in the manager, in NEW.
ThreadCreated(p) ==
  /\ Handling /\ Runs(p) /\ tids[p] <= MaxTid
  /\ tids' = [tids EXCEPT ![p] = @ + 1]
  /\ tcb' = [tcb EXCEPT ![p][tids[p]] = "LIVE"]
  /\ ThreadCreate(p, tids[p])
  /\ UNCHANGED <<pids, need, newVars, freeMemory, ltsVars, endVars,
                 overwritten>>

ThreadRefused(p) ==
  /\ Handling /\ Runs(p) /\ tids[p] <= MaxTid
  /\ tids' = [tids EXCEPT ![p] = @ + 1]
  /\ tcb' = [tcb EXCEPT ![p][tids[p]] = "NEW"]
  /\ UNCHANGED <<memVars, pids, need, newVars, freeMemory, ltsVars, endVars,
                 overwritten>>

\* insert_state_exit, by the short-term scheduler or, with the write lock, by
\* a kill or a dump that failed; the last TCB takes its process with it
LastButOne(p) == Counter(p) <= 2
LastThread(p) == Counter(p) = 1

ThreadExits(p, t, writes) ==
  /\ Handling /\ tcb[p][t] = "LIVE"
  /\ writes => lts \notin {"DESTROY", "SIGNAL"}
  /\ ThreadDestroy(p, t)
  /\ tcb' = [tcb EXCEPT ![p][t] = "NULL"]
  /\ IF LastThread(p)
     THEN ending' = p /\ endPc' = "DESTROY" /\ endWrites' = writes
     ELSE UNCHANGED endVars
  /\ UNCHANGED <<pids, need, tids, newVars, freeMemory, ltsVars, overwritten>>

EndDestroy ==
  /\ endPc = "DESTROY" /\ endPc' = "SIGNAL"
  /\ ProcessDestroy(ending)
  /\ UNCHANGED <<pcbVars, newVars, freeMemory, ltsVars, ending, endWrites,
                 overwritten>>

LostSignal ==
  /\ freeMemory' = freeMemory
  /\ overwritten' = (lts = "FULL")
SignalFreeMemory ==
  /\ freeMemory' = TRUE
  /\ overwritten' = (lts = "FULL")

EndSignal ==
  /\ endPc = "SIGNAL" /\ endPc' = "IDLE"
  /\ ending' = NoPid /\ endWrites' = FALSE
  /\ SignalFreeMemory
  /\ UNCHANGED <<memVars, pcbVars, newVars, ltsVars>>

-----------------------------------------------------------------------------
(* The long-term scheduler *)

LtsGoes(from, to) == lts = from /\ lts' = to

LtsWait ==
  /\ LtsGoes("WAIT", "SEM") /\ freeMemory
  /\ UNCHANGED <<memVars, pcbVars, newVars, freeMemory, hand, endVars,
                 overwritten>>

LtsSem ==
  /\ LtsGoes("SEM", "GET") /\ semNew > 0
  /\ semNew' = semNew - 1
  /\ UNCHANGED <<memVars, pcbVars, newList, freeMemory, hand, endVars,
                 overwritten>>

\* get_state_new; it would start over if the list were empty (NewCounted)
LtsGet ==
  /\ LtsGoes("GET", "CREATE") /\ CanRead /\ newList # <<>>
  /\ hand' = Head(newList) /\ newList' = Tail(newList)
  /\ UNCHANGED <<memVars, pcbVars, semNew, freeMemory, endVars, overwritten>>

LtsAccepted ==
  /\ LtsGoes("CREATE", "THREAD")
  /\ ProcessCreate(hand, need[hand])
  /\ UNCHANGED <<pcbVars, newVars, freeMemory, hand, endVars, overwritten>>

LtsRefused ==
  /\ LtsGoes("CREATE", "FULL")
  /\ ~corrupt /\ ~AcceptsProcess(hand, need[hand])
  /\ overwritten' = FALSE
  /\ UNCHANGED <<memVars, pcbVars, newVars, freeMemory, hand, endVars>>

\* The answer is there: FREE_MEMORY is cleared whatever happened meanwhile
FullWithoutPost ==
  /\ freeMemory' = FALSE
  /\ semNew' = semNew
Full ==
  /\ freeMemory' = FALSE
  /\ semNew' = semNew + 1

LtsFull ==
  /\ LtsGoes("FULL", "REINSERT") /\ Full
  /\ UNCHANGED <<memVars, pcbVars, newList, hand, endVars, overwritten>>

AtTheTail == Append(newList, hand)
Reinserted == <<hand>> \o newList

LtsReinsert ==
  /\ LtsGoes("REINSERT", "WAIT") /\ CanRead
  /\ newList' = Reinserted
  /\ hand' = NoPid
  /\ UNCHANGED <<memVars, pcbVars, semNew, freeMemory, endVars, overwritten>>

LtsThread ==
  /\ LtsGoes("THREAD", "READY")
  /\ ThreadCreate(hand, 0)
  /\ UNCHANGED <<pcbVars, newVars, freeMemory, hand, endVars, overwritten>>

LtsThreadRefused ==
  /\ LtsGoes("THREAD", "EXIT")
  /\ UNCHANGED <<memVars, pcbVars, newVars, freeMemory, hand, endVars,
                 overwritten>>

LtsReady ==
  /\ LtsGoes("READY", "WAIT") /\ CanRead
  /\ tcb' = [tcb EXCEPT ![hand][0] = "LIVE"]
  /\ hand' = NoPid
  /\ UNCHANGED <<memVars, pids, need, tids, newVars, freeMemory, endVars,
                 overwritten>>

\* insert_state_exit of the thread 0 that memory does not have
LtsExit ==
  /\ LtsGoes("EXIT", "DESTROY") /\ CanRead
  /\ ThreadDestroy(hand, 0)
  /\ tcb' = [tcb EXCEPT ![hand][0] = "NULL"]
  /\ UNCHANGED <<pids, need, tids, newVars, freeMemory, hand, endVars,
                 overwritten>>

LtsDestroy ==
  /\ LtsGoes("DESTROY", "SIGNAL")
  /\ ProcessDestroy(hand)
  /\ UNCHANGED <<pcbVars, newVars, freeMemory, hand, endVars, overwritten>>

LtsSignal ==
  /\ LtsGoes("SIGNAL", "WAIT")
  /\ hand' = NoPid
  /\ SignalFreeMemory
  /\ UNCHANGED <<memVars, pcbVars, newVars, endVars>>

-----------------------------------------------------------------------------
LtsStep == LtsWait \/ LtsSem \/ LtsGet \/ LtsAccepted \/ LtsRefused \/ LtsFull
             \/ LtsReinsert \/ LtsThread \/ LtsThreadRefused \/ LtsReady
             \/ LtsExit \/ LtsDestroy \/ LtsSignal

EndStep == EndDestroy \/ EndSignal

Next ==
  \/ LtsStep \/ EndStep
  \/ \E size \in Sizes : NewProcess(size)
  \/ \E p \in Pid : ThreadCreated(p) \/ ThreadRefused(p)
  \/ \E p \in Pid, t \in Tid, writes \in BOOLEAN : ThreadExits(p, t, writes)

Spec == Init /\ [][Next]_vars

\* The kernel's threads keep running, and memory answers; nothing is assumed
\* of programs, which need not create, end or free anything.  The long-term
\* scheduler needs SF: processes that end one after the other take the write
\* lock again and again, but release it each time.
Fairness == SF_vars(LtsStep) /\ WF_vars(EndStep)

FairSpec == Spec /\ Fairness
-----------------------------------------------------------------------------
(* Properties *)

\* The type invariant of the kernel's side.
TypeOK ==
  /\ MemoryTypeOK
  /\ pids \in 0 .. MaxProcesses
  /\ need \in [Pid -> Sizes \cup {0}] /\ tids \in [Pid -> 0 .. MaxTid + 1]
  /\ tcb \in [Pid -> [Tid -> {"NULL", "NEW", "LIVE"}]]
  /\ newList \in Seq(Pid) /\ semNew \in Nat /\ freeMemory \in BOOLEAN
  /\ lts \in {"WAIT", "SEM", "GET", "CREATE", "FULL", "REINSERT", "THREAD",
              "READY", "EXIT", "DESTROY", "SIGNAL"}
  /\ hand \in Pid \cup {NoPid} /\ ending \in Pid \cup {NoPid}
  /\ endPc \in {"IDLE", "DESTROY", "SIGNAL"} /\ endWrites \in BOOLEAN
  /\ overwritten \in BOOLEAN

\* Memory files a process under the order in which it accepted it, and looks it
\* up by its PID: the kernel must never admit two processes out of order, not
\* even after a refusal.
SlotIsPid == \A i \in Live : process[i].pid = i - 1

\* The kernel and the memory module agree on which processes and threads there
\* are, but for the one in the hands of whoever creates or ends it.
TablesAgree ==
  ~corrupt =>
  \A p \in Pid :
    /\ Runs(p) => Known(p)
    /\ Known(p) => \/ Counter(p) > 0 /\ p \notin Range(newList)
                   \/ p = ending /\ endPc = "DESTROY"
                   \/ p = hand /\ lts = "DESTROY"
    /\ Runs(p) => Slot(p).threads = {t \in Tid : tcb[p][t] = "LIVE"}

\* As long as memory has refused no thread of a process, it counts the same
\* threads as the kernel's manager, and never writes past array_memory_threads.
ThreadsCounted ==
  /\ \A p \in Pid : Runs(p) /\ (\A t \in Tid : tcb[p][t] # "NEW") /\ ~corrupt
                      => Slot(p).count = tids[p]
  /\ corrupt => \E p \in Pid, t \in Tid \ {0} : tcb[p][t] = "NEW"

\* SEM_LONG_TERM_SCHEDULER_NEW counts the processes in NEW and the one that is
\* being put back, so the scheduler neither sleeps on a process nor wakes up
\* to an empty list.
NewCounted ==
  semNew = Len(newList) - (IF lts = "GET" THEN 1 ELSE 0)
                        + (IF lts = "REINSERT" THEN 1 ELSE 0)

\* The long-term scheduler waits for memory while the first process in NEW
\* would fit only if the signal is on its way, or came after the memory module
\* refused and before FREE_MEMORY was cleared: there is no other lost wakeup.
StallExplained ==
  lts = "WAIT" /\ ~freeMemory /\ newList # <<>> /\ ~corrupt
    /\ Candidates(need[Head(newList)]) # {}
    => endPc = "SIGNAL" \/ overwritten

\* But for that lost wakeup, the first process in NEW is admitted once it fits
\* (and no process before it is being tried), whatever processes arrive and
\* end meanwhile.
Admitted ==
  \A p \in Pid :
    (hand = NoPid /\ newList # <<>> /\ p = Head(newList)
       /\ Candidates(need[p]) # {})
      ~> (Known(p) \/ overwritten \/ corrupt)
=============================================================================
