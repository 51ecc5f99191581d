--------------------------- MODULE KernelThreads ---------------------------
(***************************************************************************)
(* The life of the threads the kernel schedules: the states a TCB goes     *)
(* through and the list it waits in for each of them (transitions.c), the  *)
(* system calls of the running thread (syscalls.c), its mutexes            *)
(* (resources.c), the IO device, the petitioners of DUMP_MEMORY and the    *)
(* decisions of the short-term scheduler (scheduler.c).                    *)
(*                                                                         *)
(* RWLOCK_SCHEDULING gives the grain of the steps.  A section that holds   *)
(* it for reading is one step, except that the short-term scheduler's      *)
(* handling of an eviction is cut where it gives the lock up to take it    *)
(* for writing, and that insert_state_exit and kill_process take one step  *)
(* per round of their loops.  `writer' is the holder of the write lock.    *)
(***************************************************************************)
EXTENDS Integers, FiniteSets, SequencesExt

CONSTANTS
  Processes,     \* the PCBs that ever exist
  MaxTid,        \* bound: a process creates the threads 0 .. MaxTid
  MaxPriority,   \* bound: priorities are 0 .. MaxPriority, 0 the highest
  Mutexes,       \* the names given to MUTEX_CREATE
  Algorithm,     \* ALGORITMO_PLANIFICACION
  NoThread       \* the NULL t_TCB *

ASSUME KernelThreadsAssumption ==
  /\ MaxTid \in Nat
  /\ MaxPriority \in Nat
  /\ Algorithm \in {"FIFO", "PRIORIDADES", "CMN"}
  /\ NoThread \notin Processes \X (0 .. MaxTid)

VARIABLES
  \* t_TCB: current_state ("NULL" when the manager has no TCB), priority,
  \* dictionary_assigned_resources and shared_list_blocked_thread_join
  state, priority, assigned, joinedBy,
  \* t_PCB: does it exist, thread_manager.size, dictionary_resources
  process, size, resource,
  \* ARRAY_READY, TCB_EXEC, SHARED_LIST_BLOCKED_IO_READY,
  \* TCB_BLOCKED_IO_EXEC, SEM_IO_DEVICE and what the IO device is doing
  ready, exec, ioReady, ioExec, semIo, device,
  \* the short-term scheduler: where it is, the call that gave up the read
  \* lock with its argument, SHOULD_REDISPATCH, QUANTUM_EXPIRED,
  \* KILL_EXEC_TCB, and whether the CPU was sent a KILL for TCB_EXEC
  sts, call, target, redispatch, expired, killExec, killSent,
  \* the write lock and the loop of kill_process it protects
  writer, killSelf, killNext, killLast,
  \* insert_state_exit: the TCB, the mutexes resources_unassign has not
  \* visited yet, and its variable tcb_unblock
  exiting, left, unblock,
  \* resources_unassign reused a stale tcb_unblock; undefined behaviour
  staleHandover, fault

tcbVars  == <<state, priority, assigned, joinedBy>>
procVars == <<process, size, resource>>
ioVars   == <<ioReady, ioExec, semIo, device>>
stsVars  == <<sts, call, target, redispatch, killExec, killSent>>
killVars == <<writer, killSelf, killNext, killLast>>
exitVars == <<exiting, left, unblock, staleHandover>>
vars == <<tcbVars, procVars, ready, exec, ioVars, stsVars, expired,
          killVars, exitVars, fault>>

Thread   == Processes \X (0 .. MaxTid)
ThreadOrNull == Thread \cup {NoThread}
Priority == 0 .. MaxPriority

ReadyQueue(prio) == IF Algorithm = "FIFO" THEN 0 ELSE prio

Exists(t) == state[t] # "NULL"

\* t_TID_Manager's counter is the number of TCBs the manager still holds
Counter(p) == Cardinality({t \in Thread : t[1] = p /\ Exists(t)})

\* The TCB being destroyed is the last one of its process
StaleIsLast(p) == Counter(p) = 0
IsLast(p) == Counter(p) = 1

\* list_remove_by_condition_with_comparation: the first occurrence of t
ListKeep(list, t) == list
ListRemove(list, t) == RemoveFirst(list, t)

NoResource == [made |-> FALSE, instances |-> 0, blocked |-> <<>>]

Init ==
  /\ state = [t \in Thread |-> "NULL"]
  /\ priority = [t \in Thread |-> 0]
  /\ assigned = [t \in Thread |-> {}]
  /\ joinedBy = [t \in Thread |-> <<>>]
  /\ process = [p \in Processes |-> "NONE"]
  /\ size = [p \in Processes |-> 0]
  /\ resource = [p \in Processes |-> [m \in Mutexes |-> NoResource]]
  /\ ready = [q \in Priority |-> <<>>]
  /\ exec = NoThread
  /\ ioReady = <<>> /\ ioExec = NoThread /\ semIo = 0 /\ device = "IDLE"
  /\ sts = "IDLE" /\ call = "NONE" /\ target = 0 /\ redispatch = FALSE
  /\ expired = FALSE /\ killExec = FALSE /\ killSent = FALSE
  /\ writer = "NONE" /\ killSelf = NoThread /\ killNext = 0 /\ killLast = 0
  /\ exiting = NoThread /\ left = {} /\ unblock = NoThread
  /\ staleHandover = FALSE /\ fault = FALSE

-----------------------------------------------------------------------------
(* Transitions *)

\* RWLOCK_SCHEDULING can be taken for reading
CanRead == ~fault /\ writer = "NONE"

\* ... and for writing: no handling of an eviction holds it for reading
HoldsReadCanWrite == CanRead /\ sts \in {"IDLE", "CPU", "DOWNGRADE"}
CanWrite == CanRead /\ sts \in {"IDLE", "CPU", "UPGRADE", "DOWNGRADE"}

InsertStateReady(t, prio) ==
  /\ state' = [state EXCEPT ![t] = "READY"]
  /\ ready' = [ready EXCEPT ![ReadyQueue(prio)] = Append(@, t)]

\* insert_state_exit up to the first loop of resources_unassign
InsertStateExit(t) ==
  /\ state' = [state EXCEPT ![t] = "EXIT"]
  /\ exiting' = t
  /\ left' = assigned[t]
  /\ unblock' = NoThread

\* One mutex of the exiting thread: tcb_unblock keeps its value when this
\* mutex has no waiter, and is then put in READY again with this mutex.
ResourcesUnassign(m) ==
  LET p == exiting[1]
      r == resource[p][m]
      woken == r.instances + 1 <= 0
      heir == IF ~woken THEN unblock
              ELSE IF r.blocked = <<>> THEN NoThread ELSE Head(r.blocked)
  IN
  /\ ~fault /\ exiting # NoThread /\ m \in left
  /\ left' = left \ {m}
  /\ unblock' = heir
  /\ resource' = [resource EXCEPT ![p][m] =
       [r EXCEPT !.instances = @ + 1,
                 !.blocked = IF woken /\ @ # <<>> THEN Tail(@) ELSE @]]
  /\ IF heir = NoThread
     THEN UNCHANGED <<state, ready, assigned>>
     ELSE /\ assigned' = [assigned EXCEPT ![heir] = @ \cup {m}]
          /\ InsertStateReady(heir, priority[heir])
  /\ staleHandover' = (staleHandover \/ (~woken /\ heir # NoThread))
  /\ UNCHANGED <<priority, joinedBy, process, size, exec, ioVars, stsVars,
                 expired, killVars, exiting, fault>>

\* One round of join_threads
JoinThreads ==
  LET t == Head(joinedBy[exiting]) IN
  /\ ~fault /\ exiting # NoThread /\ left = {} /\ joinedBy[exiting] # <<>>
  /\ joinedBy' = [joinedBy EXCEPT ![exiting] = Tail(@)]
  /\ InsertStateReady(t, priority[t])
  /\ UNCHANGED <<priority, assigned, procVars, exec, ioVars, stsVars, expired,
                 killVars, exitVars, fault>>

\* tcb_destroy, pcb_destroy after the last TCB, and back to the caller
Destroy ==
  LET p == exiting[1] IN
  /\ ~fault /\ exiting # NoThread /\ left = {} /\ joinedBy[exiting] = <<>>
  /\ state' = [state EXCEPT ![exiting] = "NULL"]
  /\ assigned' = [assigned EXCEPT ![exiting] = {}]
  /\ IF IsLast(p)
     THEN /\ process' = [process EXCEPT ![p] = "DESTROYED"]
          /\ resource' = [resource EXCEPT ![p] = [m \in Mutexes |-> NoResource]]
     ELSE UNCHANGED <<process, resource>>
  /\ exiting' = NoThread
  /\ unblock' = NoThread
  /\ IF writer = "DUMP" /\ exiting = killSelf
     THEN writer' = "NONE" /\ killSelf' = NoThread
     ELSE UNCHANGED <<writer, killSelf>>
  /\ sts' = IF sts = "EXITING" THEN "AFTER" ELSE sts
  /\ UNCHANGED <<priority, joinedBy, size, ready, exec, ioVars, call, target,
                 redispatch, killExec, killSent, expired, killNext, killLast,
                 left, staleHandover, fault>>

-----------------------------------------------------------------------------
(* Killing: kill_process, kill_thread and locate_and_remove_state, one     *)
(* victim per step, under the write lock.  The READY branch reads the      *)
(* t_Ready ** kept in `location' as a t_Ready *: undefined behaviour.      *)

BlockedStates == {"BLOCKED_JOIN", "BLOCKED_MUTEX", "BLOCKED_DUMP",
                  "BLOCKED_IO_READY", "BLOCKED_IO_EXEC"}
BlockedOrExec == BlockedStates \cup {"EXEC"}
Removable == BlockedStates

Killing ==
  ~fault /\ writer # "NONE" /\ exiting = NoThread /\ killNext < killLast

Victim == <<killSelf[1], killNext>>

KillNone ==
  /\ Killing
  /\ Victim = killSelf \/ state[Victim] \in {"NULL", "NEW", "EXIT"}
  /\ killNext' = killNext + 1
  /\ UNCHANGED <<tcbVars, procVars, ready, exec, ioVars, stsVars, expired,
                 writer, killSelf, killLast, exitVars, fault>>

\* Only a thread that is in the CPU is sent the interrupt
KillExec ==
  /\ Killing /\ Victim # killSelf /\ state[Victim] = "EXEC"
  /\ killExec' = TRUE
  /\ killSent' = (killSent \/ sts = "CPU")
  /\ killNext' = killNext + 1
  /\ UNCHANGED <<tcbVars, procVars, ready, exec, ioVars, sts, call, target,
                 redispatch, expired, writer, killSelf, killLast, exitVars,
                 fault>>

KillReady ==
  /\ Killing /\ Victim # killSelf /\ state[Victim] = "READY"
  /\ fault' = TRUE
  /\ UNCHANGED <<tcbVars, procVars, ready, exec, ioVars, stsVars, expired,
                 killVars, exitVars>>

\* A waiter taken out of the list of a mutex gives its instance back
LoseWaiter(r, t) == [r EXCEPT !.blocked = ListRemove(@, t)]
DropWaiter(r, t) == [r EXCEPT !.instances = @ + 1, !.blocked = ListRemove(@, t)]

KillBlocked ==
  LET t == Victim
      p == t[1]
      waits(m) == t \in Range(resource[p][m].blocked)
  IN
  /\ Killing /\ t # killSelf
  /\ state[t] \in Removable
  /\ joinedBy' = IF state[t] = "BLOCKED_JOIN"
                 THEN [u \in Thread |-> ListRemove(joinedBy[u], t)]
                 ELSE joinedBy
  /\ resource' = IF state[t] = "BLOCKED_MUTEX"
                 THEN [resource EXCEPT ![p] = [m \in Mutexes |->
                        IF waits(m) THEN DropWaiter(@[m], t) ELSE @[m]]]
                 ELSE resource
  /\ ioReady' = IF state[t] = "BLOCKED_IO_READY" THEN ListRemove(ioReady, t)
                ELSE ioReady
  /\ ioExec' = IF state[t] = "BLOCKED_IO_EXEC" THEN NoThread ELSE ioExec
  /\ InsertStateExit(t)
  /\ killNext' = killNext + 1
  /\ UNCHANGED <<priority, assigned, process, size, ready, exec, semIo, device,
                 stsVars, expired, writer, killSelf, killLast, staleHandover,
                 fault>>

-----------------------------------------------------------------------------
(* The short-term scheduler *)

\* get_state_ready and insert_state_exec: the first thread of the first
\* queue that has one.  A TCB that is gone is dereferenced.
Dispatch ==
  \E q \in Priority :
    LET t == Head(ready[q]) IN
    /\ CanRead /\ sts = "IDLE"
    /\ ready[q] # <<>> /\ \A r \in 0 .. q - 1 : ready[r] = <<>>
    /\ ready' = [ready EXCEPT ![q] = Tail(@)]
    /\ state' = [state EXCEPT ![t] = "EXEC"]
    /\ exec' = t
    /\ killExec' = FALSE /\ killSent' = FALSE /\ expired' = FALSE
    /\ sts' = "CPU"
    /\ fault' = (state[t] = "NULL")
    /\ UNCHANGED <<priority, assigned, joinedBy, procVars, ioVars, call, target,
                   redispatch, killVars, exitVars>>

\* An eviction whose handling ends in the exit of TCB_EXEC
ExitExec ==
  /\ InsertStateExit(exec)
  /\ sts' = "EXITING" /\ redispatch' = FALSE
  /\ UNCHANGED <<call, target, killExec, killSent>>

\* The handling ends with SHOULD_REDISPATCH = again
Continue(again) ==
  /\ sts' = "AFTER" /\ redispatch' = again
  /\ UNCHANGED <<call, target, killExec, killSent, exitVars>>

Evicted == CanRead /\ sts = "CPU"

\* A segmentation fault, an unexpected error or THREAD_EXIT
EvictExit ==
  /\ Evicted
  /\ ExitExec
  /\ UNCHANGED <<priority, assigned, joinedBy, procVars, ready, exec, ioVars,
                 expired, killVars, staleHandover, fault>>

\* The KILL interrupt, or any eviction but an exit once KILL_EXEC_TCB is set
EvictKilled ==
  /\ Evicted /\ killExec
  /\ ExitExec
  /\ UNCHANGED <<priority, assigned, joinedBy, procVars, ready, exec, ioVars,
                 expired, killVars, staleHandover, fault>>

\* The QUANTUM interrupt, which only CMN (multilevel queues) uses
EvictQuantum ==
  /\ Evicted /\ ~killExec /\ Algorithm = "CMN"
  /\ InsertStateReady(exec, priority[exec])
  /\ Continue(FALSE)
  /\ UNCHANGED <<priority, assigned, joinedBy, procVars, exec, ioVars, expired,
                 killVars, fault>>

\* The quantum interrupter, which waits for another thread in the queue
QuantumExpires ==
  /\ ~fault /\ Algorithm = "CMN" /\ sts # "IDLE"
  /\ ready[ReadyQueue(priority[exec])] # <<>>
  /\ expired' = TRUE
  /\ UNCHANGED <<tcbVars, procVars, ready, exec, ioVars, stsVars, killVars,
                 exitVars, fault>>

\* The end of an iteration: dispatch again, back to READY, or nothing
After ==
  /\ CanRead /\ sts = "AFTER"
  /\ IF redispatch /\ ~expired
     THEN sts' = "CPU" /\ killSent' = FALSE /\ UNCHANGED <<state, ready>>
     ELSE /\ sts' = "IDLE" /\ UNCHANGED killSent
          /\ IF redispatch THEN InsertStateReady(exec, priority[exec])
             ELSE UNCHANGED <<state, ready>>
  /\ redispatch' = FALSE
  /\ UNCHANGED <<priority, assigned, joinedBy, procVars, exec, ioVars, call,
                 target, killExec, expired, killVars, exitVars, fault>>

-----------------------------------------------------------------------------
(* System calls *)

UncheckedSyscall == Evicted
Syscall == Evicted /\ ~killExec

ThreadCreate(prio) ==
  LET p == exec[1]
      t == <<p, size[p]>>
  IN
  /\ Syscall /\ size[p] <= MaxTid
  /\ size' = [size EXCEPT ![p] = @ + 1]
  /\ priority' = [priority EXCEPT ![t] = prio]
  /\ \/ InsertStateReady(t, prio)
     \/ \* memory refused: the TCB stays in the manager
        /\ state' = [state EXCEPT ![t] = "NEW"]
        /\ UNCHANGED ready
  /\ Continue(TRUE)
  /\ UNCHANGED <<assigned, joinedBy, process, resource, exec, ioVars, expired,
                 killVars, fault>>

MutexCreate(m) ==
  LET p == exec[1] IN
  /\ Syscall
  /\ IF resource[p][m].made
     THEN ExitExec /\ UNCHANGED <<resource, staleHandover>>
     ELSE /\ resource' = [resource EXCEPT ![p][m] =
                           [made |-> TRUE, instances |-> 1, blocked |-> <<>>]]
          /\ Continue(TRUE)
          /\ UNCHANGED state
  /\ UNCHANGED <<priority, assigned, joinedBy, process, size, ready, exec,
                 ioVars, expired, killVars, fault>>

MutexLock(m) ==
  LET p == exec[1]
      r == resource[p][m]
  IN
  /\ Syscall
  /\ \/ /\ ~r.made
        /\ ExitExec
        /\ UNCHANGED <<assigned, resource, staleHandover>>
     \/ /\ r.made /\ r.instances - 1 < 0
        /\ resource' = [resource EXCEPT ![p][m] =
             [r EXCEPT !.instances = @ - 1, !.blocked = Append(@, exec)]]
        /\ state' = [state EXCEPT ![exec] = "BLOCKED_MUTEX"]
        /\ Continue(FALSE)
        /\ UNCHANGED assigned
     \/ /\ r.made /\ r.instances - 1 >= 0
        /\ resource' = [resource EXCEPT ![p][m].instances = @ - 1]
        /\ assigned' = [assigned EXCEPT ![exec] = @ \cup {m}]
        /\ Continue(TRUE)
        /\ UNCHANGED state
  /\ UNCHANGED <<priority, joinedBy, process, size, ready, exec, ioVars,
                 expired, killVars, fault>>

MutexUnlock(m) ==
  LET p == exec[1]
      r == resource[p][m]
      heir == IF r.instances + 1 > 0 \/ r.blocked = <<>> THEN NoThread
              ELSE Head(r.blocked)
      freed == [assigned EXCEPT ![exec] = @ \ {m}]
  IN
  /\ Syscall
  /\ \/ /\ ~r.made \/ m \notin assigned[exec]
        /\ ExitExec
        /\ UNCHANGED <<assigned, resource, ready, staleHandover>>
     \/ /\ r.made /\ m \in assigned[exec]
        /\ resource' = [resource EXCEPT ![p][m] =
             [r EXCEPT !.instances = @ + 1,
                       !.blocked = IF heir = NoThread THEN @ ELSE Tail(@)]]
        /\ IF heir = NoThread
           THEN assigned' = freed /\ UNCHANGED <<state, ready>>
           ELSE /\ assigned' = [freed EXCEPT ![heir] = @ \cup {m}]
                /\ InsertStateReady(heir, priority[heir])
        /\ Continue(TRUE)
  /\ UNCHANGED <<priority, joinedBy, process, size, exec, ioVars, expired,
                 killVars, fault>>

DumpMemory ==
  /\ Syscall
  /\ state' = [state EXCEPT ![exec] = "BLOCKED_DUMP"]
  /\ Continue(FALSE)
  /\ UNCHANGED <<priority, assigned, joinedBy, procVars, ready, exec, ioVars,
                 expired, killVars, fault>>

UnpostedIoReady(t) ==
  /\ state' = [state EXCEPT ![t] = "BLOCKED_IO_READY"]
  /\ ioReady' = Append(ioReady, t)
  /\ semIo' = semIo
InsertStateBlockedIoReady(t) ==
  /\ state' = [state EXCEPT ![t] = "BLOCKED_IO_READY"]
  /\ ioReady' = Append(ioReady, t)
  /\ semIo' = semIo + 1

Io ==
  /\ Syscall
  /\ InsertStateBlockedIoReady(exec)
  /\ Continue(FALSE)
  /\ UNCHANGED <<priority, assigned, joinedBy, procVars, ready, exec, ioExec,
                 device, expired, killVars, fault>>

\* THREAD_JOIN of itself does nothing, THREAD_CANCEL of itself is an exit
SelfJoin ==
  /\ Syscall
  /\ Continue(TRUE)
  /\ UNCHANGED <<tcbVars, procVars, ready, exec, ioVars, expired, killVars,
                 fault>>

\* The calls that need the write lock let the read lock go first.
\* PROCESS_EXIT is an EXIT eviction, which KILL_EXEC_TCB does not stop.
GiveUpReadFromOne(name, tid) ==
  /\ sts' = "UPGRADE" /\ call' = name /\ target' = tid + 1
  /\ UNCHANGED <<tcbVars, procVars, ready, exec, ioVars, redispatch, expired,
                 killExec, killSent, killVars, exitVars, fault>>
GiveUpRead(name, tid) ==
  /\ sts' = "UPGRADE" /\ call' = name /\ target' = tid
  /\ UNCHANGED <<tcbVars, procVars, ready, exec, ioVars, redispatch, expired,
                 killExec, killSent, killVars, exitVars, fault>>

ProcessExit == Evicted /\ GiveUpRead("PROCESS_EXIT", 0)

ThreadJoin(tid) == Syscall /\ tid # exec[2] /\ GiveUpRead("THREAD_JOIN", tid)

ThreadCancel(tid) ==
  Syscall /\ tid # exec[2] /\ GiveUpRead("THREAD_CANCEL", tid)

InRange(t) == t[2] < size[t[1]]
Joinable(t) == t[2] < size[t[1]] /\ Exists(t)

JoinLocked ==
  LET t == <<exec[1], target>>
      blocks == Joinable(t)
  IN
  /\ CanWrite /\ sts = "UPGRADE" /\ call = "THREAD_JOIN"
  /\ sts' = "DOWNGRADE" /\ redispatch' = ~blocks
  /\ IF blocks
     THEN /\ state' = [state EXCEPT ![exec] = "BLOCKED_JOIN"]
          /\ joinedBy' = [joinedBy EXCEPT ![t] = Append(@, exec)]
     ELSE UNCHANGED <<state, joinedBy>>
  /\ UNCHANGED <<priority, assigned, procVars, ready, exec, ioVars, call,
                 target, killExec, killSent, expired, killVars, exitVars,
                 fault>>

\* kill_process(TCB_EXEC) or kill_thread(target): the range of victims
KillLocked ==
  /\ CanWrite /\ sts = "UPGRADE" /\ call \in {"PROCESS_EXIT", "THREAD_CANCEL"}
  /\ sts' = "LOCKED" /\ redispatch' = TRUE
  /\ writer' = "STS" /\ killSelf' = exec
  /\ killNext' = target
  /\ killLast' = IF call = "PROCESS_EXIT" THEN size[exec[1]] ELSE target + 1
  /\ UNCHANGED <<tcbVars, procVars, ready, exec, ioVars, call, target, killExec,
                 killSent, expired, exitVars, fault>>

KillUnlocked ==
  /\ ~fault /\ writer = "STS" /\ exiting = NoThread /\ killNext = killLast
  /\ writer' = "NONE" /\ killSelf' = NoThread /\ sts' = "DOWNGRADE"
  /\ UNCHANGED <<tcbVars, procVars, ready, exec, ioVars, call, target,
                 redispatch, killExec, killSent, expired, killNext, killLast,
                 exitVars, fault>>

Downgrade ==
  /\ CanRead /\ sts = "DOWNGRADE"
  /\ call' = "NONE" /\ target' = 0
  /\ IF call = "PROCESS_EXIT"
     THEN /\ InsertStateExit(exec)
          /\ sts' = "EXITING" /\ redispatch' = FALSE
     ELSE /\ sts' = "AFTER"
          /\ UNCHANGED <<state, redispatch, exiting, left, unblock>>
  /\ UNCHANGED <<priority, assigned, joinedBy, procVars, ready, exec, ioVars,
                 killExec, killSent, expired, killVars, staleHandover, fault>>

-----------------------------------------------------------------------------
(* The long-term scheduler, the IO device and the dump petitioners *)

AdmitProcess(p, prio) ==
  LET t == <<p, 0>> IN
  /\ CanRead /\ process[p] = "NONE"
  /\ process' = [process EXCEPT ![p] = "ALIVE"]
  /\ size' = [size EXCEPT ![p] = 1]
  /\ priority' = [priority EXCEPT ![t] = prio]
  /\ InsertStateReady(t, prio)
  /\ UNCHANGED <<assigned, joinedBy, resource, exec, ioVars, stsVars, expired,
                 killVars, exitVars, fault>>

\* SEM_IO_DEVICE may count threads that were killed while in the list
IoBegin ==
  /\ CanRead /\ device = "IDLE" /\ semIo > 0
  /\ semIo' = semIo - 1
  /\ IF ioReady = <<>>
     THEN UNCHANGED <<state, ioReady, ioExec, device>>
     ELSE /\ state' = [state EXCEPT ![Head(ioReady)] = "BLOCKED_IO_EXEC"]
          /\ ioExec' = Head(ioReady)
          /\ ioReady' = Tail(ioReady)
          /\ device' = "BUSY"
  /\ UNCHANGED <<priority, assigned, joinedBy, procVars, ready, exec, stsVars,
                 expired, killVars, exitVars, fault>>

\* The time is over, or CANCEL_IO_OPERATION was set
IoEnd ==
  /\ CanRead /\ device = "BUSY"
  /\ device' = "IDLE" /\ ioExec' = NoThread
  /\ IF ioExec = NoThread THEN UNCHANGED <<state, ready>>
     ELSE InsertStateReady(ioExec, priority[ioExec])
  /\ UNCHANGED <<priority, assigned, joinedBy, procVars, exec, ioReady, semIo,
                 stsVars, expired, killVars, exitVars, fault>>

\* A thread in BLOCKED_DUMP has a petition with its TCB; killing the thread
\* sets the petition's tcb to NULL, and the petitioner then does nothing.
DumpOk(t) ==
  /\ CanRead /\ state[t] = "BLOCKED_DUMP"
  /\ InsertStateReady(t, priority[t])
  /\ UNCHANGED <<priority, assigned, joinedBy, procVars, exec, ioVars, stsVars,
                 expired, killVars, exitVars, fault>>

DumpFails(t) ==
  /\ CanWrite /\ state[t] = "BLOCKED_DUMP"
  /\ writer' = "DUMP" /\ killSelf' = t
  /\ killNext' = 0 /\ killLast' = size[t[1]]
  /\ UNCHANGED <<tcbVars, procVars, ready, exec, ioVars, stsVars, expired,
                 exitVars, fault>>

\* ... and, its siblings killed, the thread itself
DumpExit ==
  /\ ~fault /\ writer = "DUMP" /\ exiting = NoThread /\ killNext = killLast
  /\ InsertStateExit(killSelf)
  /\ UNCHANGED <<priority, assigned, joinedBy, procVars, ready, exec, ioVars,
                 stsVars, expired, killVars, staleHandover, fault>>

-----------------------------------------------------------------------------
ExitStep == (\E m \in Mutexes : ResourcesUnassign(m)) \/ JoinThreads \/ Destroy

KillStep == KillNone \/ KillExec \/ KillReady \/ KillBlocked

MutexCall(m) == MutexCreate(m) \/ MutexLock(m) \/ MutexUnlock(m)

WindowCall(tid) == ThreadJoin(tid) \/ ThreadCancel(tid)

SchedulerStep == Dispatch \/ After \/ JoinLocked \/ KillLocked \/ KillUnlocked
                   \/ Downgrade

Next ==
  \/ ExitStep \/ KillStep \/ SchedulerStep
  \/ EvictExit \/ EvictKilled \/ EvictQuantum \/ QuantumExpires
  \/ \E prio \in Priority : ThreadCreate(prio)
  \/ \E m \in Mutexes : MutexCall(m)
  \/ DumpMemory \/ Io \/ SelfJoin \/ ProcessExit
  \/ \E tid \in 0 .. MaxTid : WindowCall(tid)
  \/ \E p \in Processes, prio \in Priority : AdmitProcess(p, prio)
  \/ IoBegin \/ IoEnd \/ DumpExit
  \/ \E t \in Thread : DumpOk(t) \/ DumpFails(t)

Spec == Init /\ [][Next]_vars

\* The kernel's own threads run whenever the lock lets them, and the CPU
\* looks at its interrupt flag after every instruction.  The IO device needs
\* strong fairness: THREAD_CANCEL in a loop takes the write lock over and over,
\* and a reader blocked on a pthread_rwlock_t is let in when it is released.
\* Nothing is assumed of programs, nor of the answers to a dump.
Fairness ==
  /\ WF_vars(SchedulerStep) /\ WF_vars(ExitStep) /\ WF_vars(KillStep)
  /\ WF_vars(DumpExit) /\ SF_vars(IoBegin) /\ SF_vars(IoEnd)
  /\ WF_vars(killSent /\ EvictKilled)

FairSpec == Spec /\ Fairness
-----------------------------------------------------------------------------
(* Properties *)

\* The type invariant: every value stays in the range its C type and the
\* handlers give it (the bound of semIo is checked by IoCounted).
TypeOK ==
  /\ state \in [Thread -> {"NULL", "NEW", "READY", "EXEC", "BLOCKED_JOIN",
                           "BLOCKED_MUTEX", "BLOCKED_DUMP", "BLOCKED_IO_READY",
                           "BLOCKED_IO_EXEC", "EXIT"}]
  /\ priority \in [Thread -> Priority]
  /\ assigned \in [Thread -> SUBSET Mutexes]
  /\ joinedBy \in [Thread -> Seq(Thread)]
  /\ process \in [Processes -> {"NONE", "ALIVE", "DESTROYED"}]
  /\ size \in [Processes -> 0 .. MaxTid + 1]
  /\ resource \in [Processes -> [Mutexes ->
        [made : BOOLEAN, instances : Int, blocked : Seq(Thread)]]]
  /\ ready \in [Priority -> Seq(Thread)]
  /\ exec \in ThreadOrNull /\ ioExec \in ThreadOrNull
  /\ ioReady \in Seq(Thread) /\ semIo \in Nat /\ device \in {"IDLE", "BUSY"}
  /\ sts \in {"IDLE", "CPU", "UPGRADE", "LOCKED", "DOWNGRADE", "EXITING",
              "AFTER"}
  /\ call \in {"NONE", "PROCESS_EXIT", "THREAD_JOIN", "THREAD_CANCEL"}
  /\ target \in 0 .. MaxTid
  /\ redispatch \in BOOLEAN /\ expired \in BOOLEAN
  /\ killExec \in BOOLEAN /\ killSent \in BOOLEAN
  /\ writer \in {"NONE", "STS", "DUMP"} /\ killSelf \in ThreadOrNull
  /\ killNext \in 0 .. MaxTid + 1 /\ killLast \in 0 .. MaxTid + 1
  /\ exiting \in ThreadOrNull /\ left \in SUBSET Mutexes
  /\ unblock \in ThreadOrNull
  /\ staleHandover \in BOOLEAN /\ fault \in BOOLEAN

\* The places <<k, i>> where t stands in a family of lists
Spots(lists, t) ==
  UNION {{<<k, i>> : i \in {j \in DOMAIN lists[k] : lists[k][j] = t}}
           : k \in DOMAIN lists}

InOne(lists, t) == Cardinality(Spots(lists, t)) = 1

\* Every thread stands exactly once in the list its current_state names and
\* in no other: what lets locate_and_remove_state find it, and what makes
\* one post of a semaphore wake one thread.
OneHome ==
  ~staleHandover =>
  \A t \in Thread :
    LET waitLists == [m \in Mutexes |-> resource[t[1]][m].blocked] IN
    /\ IF state[t] = "READY"
       THEN InOne(ready, t) /\ t \in Range(ready[ReadyQueue(priority[t])])
       ELSE Spots(ready, t) = {}
    /\ IF state[t] = "BLOCKED_JOIN" THEN InOne(joinedBy, t)
       ELSE Spots(joinedBy, t) = {}
    /\ IF state[t] = "BLOCKED_MUTEX" THEN InOne(waitLists, t)
       ELSE Spots(waitLists, t) = {}
    /\ IF state[t] = "BLOCKED_IO_READY" THEN InOne(<<ioReady>>, t)
       ELSE Spots(<<ioReady>>, t) = {}
    /\ state[t] = "BLOCKED_IO_EXEC" <=> ioExec = t
    /\ state[t] = "EXIT" <=> exiting = t
    /\ state[t] = "EXEC" => exec = t

\* The threads that hold m: an exiting thread has given back the mutexes
\* resources_unassign has visited.
Holders(p, m) ==
  {t \in Thread : t[1] = p /\ m \in (IF t = exiting THEN left ELSE assigned[t])}

\* instances of a mutex counts its holder and its waiters, and nobody waits
\* for a mutex that nobody will hand over (MUTEX_LOCK, MUTEX_UNLOCK, exits
\* and kills of holders and of waiters, in any order).
MutexAccounting ==
  ~staleHandover =>
  \A p \in Processes, m \in Mutexes :
    LET r == resource[p][m]
        holders == Cardinality(Holders(p, m))
    IN
    /\ r.made => r.instances = 1 - holders - Len(r.blocked)
    /\ holders <= 1
    /\ r.blocked # <<>> => holders = 1

\* A thread waits in THREAD_JOIN only for a TCB that still exists, so that
\* join_threads of that TCB will reach it; joins never cross processes.
JoinedLives ==
  ~staleHandover =>
  \A t \in Thread :
    joinedBy[t] # <<>> => /\ Exists(t)
                          /\ \A u \in Range(joinedBy[t]) : u[1] = t[1] /\ u # t

\* A PCB is destroyed exactly when the last TCB of its process is, and its
\* mutexes go with it.  (A stale hand-over may queue a thread twice, and the
\* second of its places in READY is taken when its TCB is gone.)
ProcessLives ==
  ~staleHandover =>
  \A p \in Processes :
    /\ process[p] = "ALIVE" <=> Counter(p) > 0
    /\ process[p] # "ALIVE" => \A m \in Mutexes : ~resource[p][m].made

\* TCB_EXEC is read again after the read lock was given up and taken back:
\* whenever the scheduler will still use it, its TCB is alive and running.
ExecNotDangling ==
  ~staleHandover =>
    /\ sts \in {"CPU", "UPGRADE", "LOCKED"} => state[exec] = "EXEC"
    /\ sts \in {"DOWNGRADE", "AFTER"} /\ (redispatch \/ call = "PROCESS_EXIT")
         => state[exec] = "EXEC"
    /\ sts = "EXITING" => exec = exiting

\* Once the CPU was sent a KILL for the running thread, that thread does
\* nothing but exit: no system call or quantum brings it back to a list.
KilledOnlyExits ==
  killSent /\ ~staleHandover => state[exec] \in {"EXEC", "EXIT", "NULL"}

\* The semaphore of the IO device counts at least the threads that wait for
\* it, whatever was killed in the list, and an idle device has no thread.
IoCounted == semIo >= Len(ioReady) /\ (device = "IDLE" => ioExec = NoThread)

\* THREAD_CANCEL of another thread goes on to a new dispatch whether or not
\* it fails (syscalls.c): it never ends in undefined behaviour.
CancelContinues == call = "THREAD_CANCEL" => ~fault

\* A mutex, once locked by a thread, is held by that thread only.
MutexExclusive ==
  \A p \in Processes, m \in Mutexes : Cardinality(Holders(p, m)) <= 1

\* The single IO device serves everyone: a thread that asked for IO comes
\* back, however many are killed around it (or the kernel has faulted).
IoReturns ==
  \A t \in Thread :
    state[t] \in {"BLOCKED_IO_READY", "BLOCKED_IO_EXEC"}
      ~> (state[t] \notin {"BLOCKED_IO_READY", "BLOCKED_IO_EXEC"} \/ fault)

\* A thread sent a KILL while in the CPU is destroyed in the end.
KilledExits ==
  \A t \in Thread : (killSent /\ exec = t) ~> (state[t] = "NULL" \/ fault)

\* The scheduler always comes back from an eviction: the lock it gave up is
\* obtained again, and the loops of kills, exits and joins end.
SchedulerReturns ==
  sts \in {"UPGRADE", "LOCKED", "DOWNGRADE", "EXITING", "AFTER"}
    ~> (sts \in {"IDLE", "CPU"} \/ fault)
=============================================================================
