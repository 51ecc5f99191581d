----------------------------- MODULE Dispatcher -----------------------------
(***************************************************************************)
(* How the kernel lends the CPU to a thread and takes it back: the         *)
(* short-term scheduler, the quantum interrupter (both in scheduler.c), a  *)
(* thread that kills the running one (kill_thread in transitions.c), and   *)
(* the CPU module's instruction cycle and interrupt handler (cpu.c), which *)
(* talk over the dispatch socket and the interrupt socket.                 *)
(*                                                                         *)
(* One action is one critical section, semaphore operation or message.     *)
(* What a system call does to the other threads is left to KernelThreads:  *)
(* here its outcome is that TCB_EXEC goes on, blocks or exits.  The        *)
(* threads share one READY list, the one SEM_READY counts.                 *)
(***************************************************************************)
EXTENDS Integers, Sequences

CONSTANTS
  Thread,        \* the threads of one READY list
  NoThread,      \* no thread
  HasQuantum,    \* are quanta greater than zero? (only with CMN)
  MaxKills,      \* bound: how often the running thread is killed
  MaxInFlight    \* bound: interrupts in the socket before a sender blocks

ASSUME DispatcherAssumption ==
  /\ NoThread \notin Thread
  /\ HasQuantum \in BOOLEAN
  /\ MaxKills \in Nat
  /\ MaxInFlight \in Nat \ {0}

VARIABLES
  st,            \* current_state of each thread
  readyQ,        \* the READY list
  semSts,        \* SEM_SHORT_TERM_SCHEDULER
  semReady,      \* SEM_READY
  tcbExec,       \* TCB_EXEC
  killExec,      \* KILL_EXEC_TCB
  stsPc,         \* where the short-term scheduler is
  reason,        \* eviction_reason
  redispatch,    \* SHOULD_REDISPATCH
  inCpu,         \* IS_TCB_IN_CPU
  finish,        \* FINISH_QUANTUM
  expired,       \* QUANTUM_EXPIRED
  binQi,         \* BINARY_QUANTUM_INTERRUPTER
  binSts,        \* BINARY_SHORT_TERM_SCHEDULER
  qiPc,          \* where the quantum interrupter is
  qiThread,      \* its pid and tid
  killPc,        \* the killer: "IDLE", or "FLAGGED" with the write lock
  kills,         \* how often it may still kill
  dispatchMsg,   \* dispatch socket, kernel to CPU
  confirmMsg,    \* dispatch socket, CPU to kernel: the confirmation
  evictMsg,      \* dispatch socket, CPU to kernel: the eviction
  interrupts,    \* interrupt socket
  cpuPc,         \* where instruction_cycle is
  cpuThread,     \* PID and TID of the CPU
  executing,     \* EXECUTING
  interrupt      \* KERNEL_INTERRUPT

listVars == <<st, readyQ, semSts, semReady>>
execVars == <<tcbExec, killExec>>
stsVars  == <<stsPc, reason, redispatch>>
flagVars == <<inCpu, finish, expired>>
binVars  == <<binQi, binSts>>
qiVars   == <<qiPc, qiThread>>
killVars == <<killPc, kills>>
wireVars == <<dispatchMsg, confirmMsg, evictMsg>>
cpuVars  == <<cpuPc, cpuThread, executing, interrupt>>
vars == <<listVars, execVars, stsVars, flagVars, binVars, qiVars, killVars,
          wireVars, interrupts, cpuVars>>

ThreadOrNone == Thread \cup {NoThread}
Reason == {"ERROR", "EXIT", "KILL", "SYSCALL", "QUANTUM"}
Message == [kind : {"QUANTUM", "KILL"}, thread : Thread]

Init ==
  /\ st = [t \in Thread |-> "BLOCKED"] /\ readyQ = <<>>
  /\ semSts = 0 /\ semReady = 0
  /\ tcbExec = NoThread /\ killExec = FALSE
  /\ stsPc = "WAIT" /\ reason = "ERROR" /\ redispatch = FALSE
  /\ inCpu = FALSE /\ finish = FALSE /\ expired = FALSE
  /\ binQi = 0 /\ binSts = 0
  /\ qiPc = "WAIT1" /\ qiThread = NoThread
  /\ killPc = "IDLE" /\ kills = MaxKills
  /\ dispatchMsg = NoThread /\ confirmMsg = FALSE /\ evictMsg = "NONE"
  /\ interrupts = <<>>
  /\ cpuPc = "IDLE" /\ cpuThread = NoThread
  /\ executing = FALSE /\ interrupt = "NONE"

\* The steps of the scheduler inside RWLOCK_SCHEDULING (for reading) and
\* those inside MUTEX_QUANTUM_INTERRUPTER, and when others may take them
ReadLocked == stsPc \in {"ARM", "SYNC", "CONFIRM", "DECIDE", "RECONFIRM",
                         "REQUEUE", "POST", "JOIN", "DRAIN"}
MutexFree == stsPc \notin {"SYNC", "CONFIRM", "RECONFIRM"}
NoWriter == killPc = "IDLE"

InsertStateReady(t) ==
  /\ st' = [st EXCEPT ![t] = "READY"]
  /\ readyQ' = Append(readyQ, t)
  /\ semReady' = semReady + 1
  /\ semSts' = semSts + 1

-----------------------------------------------------------------------------
(* The short-term scheduler takes a thread and hands it to the CPU *)

StsWait ==
  /\ stsPc = "WAIT" /\ semSts > 0
  /\ semSts' = semSts - 1
  /\ stsPc' = "PICK"
  /\ UNCHANGED <<st, readyQ, semReady, execVars, reason, redispatch, flagVars,
                 binVars, qiVars, killVars, wireVars, interrupts, cpuVars>>

\* get_state_ready and insert_state_exec.  The list is empty only after a
\* READY thread was killed, which KernelThreads shows to be undefined.
Pick ==
  LET t == Head(readyQ) IN
  /\ stsPc = "PICK" /\ NoWriter /\ readyQ # <<>> /\ semReady > 0
  /\ readyQ' = Tail(readyQ) /\ semReady' = semReady - 1
  /\ st' = [st EXCEPT ![t] = "EXEC"]
  /\ tcbExec' = t /\ killExec' = FALSE
  /\ stsPc' = "ARM"
  /\ UNCHANGED <<semSts, reason, redispatch, flagVars, binVars, qiVars,
                 killVars, wireVars, interrupts, cpuVars>>

Arm ==
  /\ stsPc = "ARM"
  /\ inCpu' = TRUE /\ finish' = FALSE /\ expired' = FALSE
  /\ binQi' = binQi + 1
  /\ stsPc' = "SYNC"
  /\ UNCHANGED <<listVars, execVars, reason, redispatch, binSts, qiVars,
                 killVars, wireVars, interrupts, cpuVars>>

\* Waits until the quantum interrupter has read TCB_EXEC
Sync ==
  /\ stsPc = "SYNC" /\ binSts > 0
  /\ binSts' = binSts - 1 /\ binQi' = binQi + 1
  /\ dispatchMsg' = tcbExec
  /\ stsPc' = "CONFIRM"
  /\ UNCHANGED <<listVars, execVars, reason, redispatch, flagVars, qiVars,
                 killVars, confirmMsg, evictMsg, interrupts, cpuVars>>

Confirm ==
  /\ stsPc \in {"CONFIRM", "RECONFIRM"} /\ confirmMsg
  /\ confirmMsg' = FALSE
  /\ redispatch' = TRUE
  /\ stsPc' = "EVICT"
  /\ UNCHANGED <<listVars, execVars, reason, flagVars, binVars, qiVars,
                 killVars, dispatchMsg, evictMsg, interrupts, cpuVars>>

-----------------------------------------------------------------------------
(* ... gets it back, and handles the eviction *)

ReceiveEviction ==
  /\ stsPc = "EVICT" /\ evictMsg # "NONE"
  /\ reason' = evictMsg /\ evictMsg' = "NONE"
  /\ stsPc' = "EVICTED"
  /\ UNCHANGED <<listVars, execVars, redispatch, flagVars, binVars, qiVars,
                 killVars, dispatchMsg, confirmMsg, interrupts, cpuVars>>

OutOfCpu ==
  /\ stsPc = "EVICTED"
  /\ inCpu' = FALSE
  /\ stsPc' = "HANDLE"
  /\ UNCHANGED <<listVars, execVars, reason, redispatch, finish, expired,
                 binVars, qiVars, killVars, wireVars, interrupts, cpuVars>>

\* TCB_EXEC leaves EXEC with the given state, or goes on
Leave(state) ==
  /\ st' = [st EXCEPT ![tcbExec] = state]
  /\ redispatch' = FALSE /\ stsPc' = "DECIDE"
  /\ UNCHANGED <<readyQ, semSts, semReady>>

GoOn ==
  /\ redispatch' = TRUE /\ stsPc' = "DECIDE"
  /\ UNCHANGED listVars

Handling == stsPc = "HANDLE" /\ NoWriter

handlingUnchanged == <<execVars, reason, flagVars, binVars, qiVars, killVars,
                       wireVars, interrupts, cpuVars>>

\* An error, a KILL, or KILL_EXEC_TCB seen at another eviction
NeverKilled == reason \in {"ERROR", "KILL"}
MustExit == \/ reason \in {"ERROR", "KILL"}
            \/ reason \in {"SYSCALL", "QUANTUM"} /\ killExec

HandleExit ==
  Handling /\ MustExit /\ Leave("EXIT") /\ UNCHANGED handlingUnchanged

HandleQuantum ==
  /\ Handling /\ reason = "QUANTUM" /\ ~MustExit
  /\ InsertStateReady(tcbExec)
  /\ redispatch' = FALSE /\ stsPc' = "DECIDE"
  /\ UNCHANGED handlingUnchanged

\* THREAD_EXIT; a call that exits (a wrong mutex), blocks, or goes on
HandleSyscall ==
  /\ Handling /\ ~MustExit
  /\ \/ reason = "EXIT" /\ Leave("EXIT")
     \/ reason = "SYSCALL" /\ (Leave("EXIT") \/ Leave("BLOCKED") \/ GoOn)
  /\ UNCHANGED handlingUnchanged

\* PROCESS_EXIT, THREAD_JOIN and THREAD_CANCEL give the read lock up to take
\* the write lock; KILL_EXEC_TCB is not looked at again
OpenWindow ==
  /\ Handling /\ ~MustExit /\ reason \in {"EXIT", "SYSCALL"}
  /\ stsPc' = "WINDOW"
  /\ UNCHANGED <<listVars, redispatch, handlingUnchanged>>

CloseWindow ==
  /\ stsPc = "WINDOW" /\ NoWriter
  /\ \/ reason = "EXIT" /\ Leave("EXIT")
     \/ reason = "SYSCALL" /\ (Leave("BLOCKED") \/ GoOn)
  /\ UNCHANGED handlingUnchanged

-----------------------------------------------------------------------------
(* ... and dispatches it again or lets the quantum interrupter go *)

IgnoresExpiry == redispatch
IgnoresLeave == ~expired
Redispatches == redispatch /\ ~expired

Redispatch ==
  /\ stsPc = "DECIDE" /\ Redispatches
  /\ inCpu' = TRUE
  /\ dispatchMsg' = tcbExec
  /\ stsPc' = "RECONFIRM"
  /\ UNCHANGED <<listVars, execVars, reason, redispatch, finish, expired,
                 binVars, qiVars, killVars, confirmMsg, evictMsg, interrupts,
                 cpuVars>>

\* IS_TCB_IN_CPU becomes true here too, though nothing is dispatched
Release ==
  /\ stsPc = "DECIDE" /\ ~Redispatches
  /\ inCpu' = TRUE
  /\ finish' = (finish \/ ~redispatch)
  /\ stsPc' = IF redispatch THEN "REQUEUE" ELSE "POST"
  /\ UNCHANGED <<listVars, execVars, reason, redispatch, expired, binVars,
                 qiVars, killVars, wireVars, interrupts, cpuVars>>

Requeue ==
  /\ stsPc = "REQUEUE"
  /\ InsertStateReady(tcbExec)
  /\ redispatch' = FALSE
  /\ stsPc' = "POST"
  /\ UNCHANGED handlingUnchanged

\* Wakes a quantum interrupter that waits for another READY thread
Post ==
  /\ stsPc = "POST"
  /\ semReady' = semReady + 1
  /\ stsPc' = "JOIN"
  /\ UNCHANGED <<st, readyQ, semSts, redispatch, handlingUnchanged>>

\* Waits until the quantum interrupter is done with this quantum
JoinWithoutWait ==
  /\ stsPc = "JOIN"
  /\ binSts' = IF binSts > 0 THEN binSts - 1 ELSE binSts
  /\ stsPc' = "DRAIN"
  /\ UNCHANGED <<listVars, execVars, reason, redispatch, flagVars, binQi,
                 qiVars, killVars, wireVars, interrupts, cpuVars>>
Join ==
  /\ stsPc = "JOIN" /\ binSts > 0
  /\ binSts' = binSts - 1
  /\ stsPc' = "DRAIN"
  /\ UNCHANGED <<listVars, execVars, reason, redispatch, flagVars, binQi,
                 qiVars, killVars, wireVars, interrupts, cpuVars>>

\* sem_trywait(SEM_READY)
KeepPost == semReady
TakePost == IF semReady > 0 THEN semReady - 1 ELSE semReady

Drain ==
  /\ stsPc = "DRAIN"
  /\ semReady' = TakePost
  /\ stsPc' = "WAIT"
  /\ UNCHANGED <<st, readyQ, semSts, redispatch, handlingUnchanged>>

-----------------------------------------------------------------------------
(* The quantum interrupter *)

qiUnchanged == <<execVars, stsVars, killVars, wireVars, cpuVars>>

QiRead ==
  /\ qiPc = "WAIT1" /\ binQi > 0
  /\ binQi' = binQi - 1 /\ binSts' = binSts + 1
  /\ qiThread' = tcbExec
  /\ qiPc' = "WAIT2"
  /\ UNCHANGED <<listVars, flagVars, interrupts, qiUnchanged>>

QiStart ==
  /\ qiPc = "WAIT2" /\ binQi > 0
  /\ binQi' = binQi - 1
  /\ qiPc' = IF HasQuantum THEN "ENTER" ELSE "DONE"
  /\ UNCHANGED <<listVars, flagVars, binSts, qiThread, interrupts, qiUnchanged>>

\* pthread_cond_timedwait: not entered once FINISH_QUANTUM is set, else left
\* with it set (no interrupt) or because the time is over (an interrupt)
QiEnter ==
  /\ qiPc = "ENTER" /\ MutexFree
  /\ qiPc' = IF finish THEN "DONE" ELSE "TIMER"
  /\ UNCHANGED <<listVars, flagVars, binVars, qiThread, interrupts,
                 qiUnchanged>>

QiFinish ==
  /\ qiPc = "TIMER" /\ MutexFree /\ finish
  /\ qiPc' = "DONE"
  /\ UNCHANGED <<listVars, flagVars, binVars, qiThread, interrupts,
                 qiUnchanged>>

QiTimeout ==
  /\ qiPc = "TIMER" /\ MutexFree
  /\ qiPc' = "PEERWAIT"
  /\ UNCHANGED <<listVars, flagVars, binVars, qiThread, interrupts,
                 qiUnchanged>>

\* Another thread in the READY list: sem_wait(SEM_READY) and sem_post
NoNeedOfPeer == TRUE
HasPeer == semReady > 0

QiPeer ==
  /\ qiPc = "PEERWAIT" /\ HasPeer
  /\ semReady' = semReady - 1
  /\ qiPc' = "PEERPOST"
  /\ UNCHANGED <<st, readyQ, semSts, flagVars, binVars, qiThread, interrupts,
                 qiUnchanged>>

QiPeerPost ==
  /\ qiPc = "PEERPOST"
  /\ semReady' = semReady + 1
  /\ qiPc' = "EXPIRE"
  /\ UNCHANGED <<st, readyQ, semSts, flagVars, binVars, qiThread, interrupts,
                 qiUnchanged>>

QiExpire ==
  /\ qiPc = "EXPIRE" /\ MutexFree
  /\ Len(interrupts) < MaxInFlight
  /\ expired' = TRUE
  /\ interrupts' = IF inCpu
       THEN Append(interrupts, [kind |-> "QUANTUM", thread |-> qiThread])
       ELSE interrupts
  /\ qiPc' = "DONE"
  /\ UNCHANGED <<listVars, inCpu, finish, binVars, qiThread, qiUnchanged>>

QiDone ==
  /\ qiPc = "DONE"
  /\ binSts' = binSts + 1
  /\ qiPc' = "WAIT1"
  /\ UNCHANGED <<listVars, flagVars, binQi, qiThread, interrupts, qiUnchanged>>

-----------------------------------------------------------------------------
(* The rest of the kernel: a killer with the write lock, and whoever makes *)
(* a blocked thread READY (with the read lock)                             *)

othersUnchanged == <<stsVars, flagVars, binVars, qiVars, wireVars, cpuVars>>

KillFlag ==
  /\ NoWriter /\ ~ReadLocked /\ kills > 0
  /\ \E t \in Thread : st[t] = "EXEC"
  /\ killExec' = TRUE
  /\ killPc' = "FLAGGED" /\ kills' = kills - 1
  /\ UNCHANGED <<listVars, tcbExec, interrupts, othersUnchanged>>

KillInterrupt(t) ==
  /\ killPc = "FLAGGED" /\ MutexFree /\ st[t] = "EXEC"
  /\ Len(interrupts) < MaxInFlight
  /\ interrupts' = IF inCpu
       THEN Append(interrupts, [kind |-> "KILL", thread |-> t])
       ELSE interrupts
  /\ killPc' = "IDLE"
  /\ UNCHANGED <<listVars, execVars, kills, othersUnchanged>>

Unblock(t) ==
  /\ NoWriter /\ st[t] = "BLOCKED"
  /\ InsertStateReady(t)
  /\ UNCHANGED <<execVars, killVars, interrupts, othersUnchanged>>

-----------------------------------------------------------------------------
(* The CPU module *)

cpuUnchanged ==
  <<listVars, execVars, stsVars, flagVars, binVars, qiVars, killVars>>

CpuReceive ==
  /\ cpuPc = "IDLE" /\ dispatchMsg # NoThread
  /\ cpuThread' = dispatchMsg /\ dispatchMsg' = NoThread
  /\ cpuPc' = "START"
  /\ UNCHANGED <<confirmMsg, evictMsg, interrupts, executing, interrupt,
                 cpuUnchanged>>

CpuStart ==
  /\ cpuPc = "START"
  /\ executing' = TRUE /\ interrupt' = "NONE"
  /\ confirmMsg' = TRUE
  /\ cpuPc' = "RUN"
  /\ UNCHANGED <<dispatchMsg, evictMsg, interrupts, cpuThread, cpuUnchanged>>

Evict(why) ==
  /\ cpuPc = "RUN"
  /\ evictMsg' = why
  /\ cpuPc' = "IDLE"
  /\ UNCHANGED <<dispatchMsg, confirmMsg, interrupts, cpuThread, interrupt,
                 cpuUnchanged>>

\* A failed instruction leaves EXECUTING as it is
CpuError == Evict("ERROR") /\ executing' = executing

\* PROCESS_EXIT and THREAD_EXIT come first, then KILL, then other calls
CpuExit == Evict("EXIT") /\ executing' = FALSE

CpuSyscall ==
  /\ Evict(IF interrupt = "KILL" THEN "KILL" ELSE "SYSCALL")
  /\ executing' = FALSE

CpuInterrupted ==
  /\ interrupt # "NONE"
  /\ Evict(interrupt) /\ executing' = FALSE

\* kernel_cpu_interrupt_handler
InterruptArrives ==
  LET m == Head(interrupts) IN
  /\ interrupts # <<>>
  /\ interrupts' = Tail(interrupts)
  /\ interrupt' = IF executing /\ m.thread = cpuThread /\ interrupt # "KILL"
                  THEN m.kind ELSE interrupt
  /\ UNCHANGED <<wireVars, cpuPc, cpuThread, executing, cpuUnchanged>>

-----------------------------------------------------------------------------
StsStep ==
  \/ StsWait \/ Pick \/ Arm \/ Sync \/ Confirm \/ ReceiveEviction \/ OutOfCpu
  \/ HandleExit \/ HandleQuantum \/ HandleSyscall \/ OpenWindow \/ CloseWindow
  \/ Redispatch \/ Release \/ Requeue \/ Post \/ Join \/ Drain

QiStep ==
  \/ QiRead \/ QiStart \/ QiEnter \/ QiFinish \/ QiTimeout \/ QiPeer
  \/ QiPeerPost \/ QiExpire \/ QiDone

KernelStep ==
  \/ KillFlag
  \/ \E t \in Thread : KillInterrupt(t)
  \/ \E t \in Thread : Unblock(t)

CpuStep ==
  \/ CpuReceive \/ CpuStart \/ CpuError \/ CpuExit \/ CpuSyscall
  \/ CpuInterrupted \/ InterruptArrives

\* Every thread is gone and nothing is in flight
Finished ==
  /\ \A t \in Thread : st[t] = "EXIT"
  /\ stsPc = "WAIT" /\ interrupts = <<>>
  /\ UNCHANGED vars

Next == StsStep \/ QiStep \/ KernelStep \/ CpuStep \/ Finished

Spec == Init /\ [][Next]_vars

\* The kernel's and the CPU's threads keep running, a quantum ends in the end,
\* and the CPU looks at its interrupt after every instruction.  Programs may
\* run without calling anything, and blocked threads may stay so.  The mutex
\* MUTEX_QUANTUM_INTERRUPTER is free again and again while a thread makes one
\* call after the other: whoever waits for it gets it in the end (SF).
Fairness ==
  /\ WF_vars(StsStep) /\ WF_vars(\E t \in Thread : KillInterrupt(t))
  /\ WF_vars(QiRead \/ QiStart \/ QiPeer \/ QiPeerPost \/ QiDone)
  /\ SF_vars(QiEnter \/ QiFinish \/ QiTimeout) /\ SF_vars(QiExpire)
  /\ WF_vars(CpuReceive \/ CpuStart) /\ WF_vars(CpuInterrupted)
  /\ WF_vars(InterruptArrives)

FairSpec == Spec /\ Fairness
-----------------------------------------------------------------------------
(* Properties *)

Flags == /\ killExec \in BOOLEAN /\ redispatch \in BOOLEAN
         /\ inCpu \in BOOLEAN /\ finish \in BOOLEAN /\ expired \in BOOLEAN
         /\ confirmMsg \in BOOLEAN /\ executing \in BOOLEAN

Values ==
  /\ st \in [Thread -> {"BLOCKED", "READY", "EXEC", "EXIT"}]
  /\ readyQ \in Seq(Thread) /\ semSts \in Nat /\ semReady \in Nat
  /\ tcbExec \in ThreadOrNone
  /\ stsPc \in {"WAIT", "PICK", "ARM", "SYNC", "CONFIRM", "EVICT", "EVICTED",
                "HANDLE", "WINDOW", "DECIDE", "RECONFIRM", "REQUEUE", "POST",
                "JOIN", "DRAIN"}
  /\ reason \in Reason
  /\ binQi \in Nat /\ binSts \in Nat
  /\ qiPc \in {"WAIT1", "WAIT2", "ENTER", "TIMER", "PEERWAIT", "PEERPOST",
               "EXPIRE", "DONE"}
  /\ qiThread \in ThreadOrNone
  /\ killPc \in {"IDLE", "FLAGGED"} /\ kills \in Nat
  /\ dispatchMsg \in ThreadOrNone /\ evictMsg \in Reason \cup {"NONE"}
  /\ interrupts \in Seq(Message)
  /\ cpuPc \in {"IDLE", "START", "RUN"} /\ cpuThread \in ThreadOrNone
  /\ interrupt \in {"NONE", "QUANTUM", "KILL"}

\* The type invariant: every semaphore, message and program counter stays in
\* its range (scheduler.c, cpu.c).
TypeOK == Flags /\ Values

\* BINARY_QUANTUM_INTERRUPTER and BINARY_SHORT_TERM_SCHEDULER deserve their
\* names, and never both hold a post: the scheduler and the interrupter take
\* turns whatever the timer, the CPU and the killer do meanwhile.
BinarySemaphores == binQi + binSts <= 1

\* The CPU only ever runs the thread in EXEC, while the scheduler waits for it:
\* it never runs a thread that the kernel has blocked, requeued or ended.
CpuRunsExec ==
  cpuPc # "IDLE" =>
    /\ stsPc \in {"CONFIRM", "RECONFIRM", "EVICT"}
    /\ cpuThread = tcbExec
    /\ tcbExec \in Thread /\ st[tcbExec] = "EXEC"

\* While the interrupter times a quantum, or is about to interrupt, it is that
\* of TCB_EXEC: the scheduler never goes on to another thread without it.
TimerTracksExec == qiPc # "WAIT1" => qiThread = tcbExec

\* SEM_READY counts the READY list but for the extra post that wakes the
\* interrupter and the one the interrupter has in hand, and the scheduler is
\* woken once per READY thread.
ReadyCounted ==
  /\ semReady = Len(readyQ)
                  + (IF stsPc \in {"JOIN", "DRAIN"} THEN 1 ELSE 0)
                  - (IF qiPc = "PEERPOST" THEN 1 ELSE 0)
  /\ semSts = Len(readyQ) - (IF stsPc = "PICK" THEN 1 ELSE 0)

\* A KILL interrupt, however late, only hits the run it was sent for: the CPU
\* answers KILL only while KILL_EXEC_TCB is set.
KillJustified == evictMsg = "KILL" => killExec

\* A quantum that expired is not forgotten: while the thread is in the CPU and
\* has not left, its interrupt is in the socket or in the CPU's flag.
NoLostPreemption ==
  expired /\ stsPc = "EVICT" /\ evictMsg = "NONE" =>
    \/ interrupt # "NONE"
    \/ \E i \in 1 .. Len(interrupts) : interrupts[i].thread = tcbExec

\* Every READY thread is dispatched in the end, whatever the others do with
\* their quanta: run on, call in a loop, block, exit, or be killed.
RoundRobin == \A t \in Thread : st[t] = "READY" ~> st[t] # "READY"

\* A thread "Desalojado por fin de Quantum" (scheduler.c) had its quantum end.
EvictedByOwnQuantum == stsPc = "HANDLE" /\ reason = "QUANTUM" => expired
=============================================================================
