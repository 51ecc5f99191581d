-------------------------- MODULE DispatcherProofs --------------------------
(***************************************************************************)
(* The dispatcher's safety properties for any number of threads, kills and *)
(* interrupts in flight.  IInv strengthens them into an inductive          *)
(* invariant: whose turn it is between the scheduler and the quantum       *)
(* interrupter (Turns), what the dispatch socket and the CPU hold at each  *)
(* step of the scheduler (Wire), which thread is in EXEC (Running), what   *)
(* the flags of the scheduler mean (Marks), the READY list (ReadyList) and *)
(* who a KILL interrupt can still be for (KillSafe).                       *)
(***************************************************************************)
EXTENDS Dispatcher, TLAPS

\* Between Arm and Join the two threads pass one post to each other
Turns ==
  \/ /\ stsPc \in {"WAIT", "PICK", "ARM", "DRAIN"}
     /\ qiPc = "WAIT1" /\ binQi = 0 /\ binSts = 0
  \/ /\ stsPc = "SYNC"
     /\ \/ qiPc = "WAIT1" /\ binQi = 1 /\ binSts = 0
        \/ qiPc = "WAIT2" /\ binQi = 0 /\ binSts = 1
  \/ /\ stsPc \notin {"WAIT", "PICK", "ARM", "DRAIN", "SYNC"}
     /\ \/ qiPc = "WAIT2" /\ binQi = 1 /\ binSts = 0
        \/ qiPc \notin {"WAIT1", "WAIT2"} /\ binQi = 0 /\ binSts = 0
        \/ qiPc = "WAIT1" /\ binQi = 0 /\ binSts = 1

\* The CPU has TCB_EXEC and will answer, or has nothing
Silent == dispatchMsg = NoThread /\ ~confirmMsg /\ evictMsg = "NONE"
InHand == cpuThread = tcbExec /\ (cpuPc = "RUN" => executing)
Wire ==
  \/ /\ stsPc \in {"CONFIRM", "RECONFIRM"}
     /\ \/ cpuPc = "IDLE" /\ dispatchMsg = tcbExec /\ ~confirmMsg /\ evictMsg = "NONE"
        \/ cpuPc = "START" /\ Silent /\ InHand
        \/ cpuPc = "RUN" /\ dispatchMsg = NoThread /\ confirmMsg
             /\ evictMsg = "NONE" /\ InHand
        \/ cpuPc = "IDLE" /\ dispatchMsg = NoThread /\ confirmMsg /\ evictMsg # "NONE"
  \/ /\ stsPc = "EVICT"
     /\ \/ cpuPc = "RUN" /\ Silent /\ InHand
        \/ cpuPc = "IDLE" /\ dispatchMsg = NoThread /\ ~confirmMsg /\ evictMsg # "NONE"
  \/ /\ stsPc \notin {"CONFIRM", "RECONFIRM", "EVICT"}
     /\ cpuPc = "IDLE" /\ Silent

\* A thread is in EXEC from Pick until the eviction is handled, and it is
\* TCB_EXEC, which stays what it is until the next Pick
InExec ==
  \/ stsPc \in {"ARM", "SYNC", "CONFIRM", "EVICT", "EVICTED", "HANDLE",
                "WINDOW", "RECONFIRM", "REQUEUE"}
  \/ stsPc = "DECIDE" /\ redispatch
Running ==
  /\ stsPc \notin {"WAIT", "PICK"} => tcbExec \in Thread
  /\ InExec => st[tcbExec] = "EXEC"
  /\ \A t \in Thread : st[t] = "EXEC" => InExec /\ t = tcbExec
  /\ qiPc # "WAIT1" => qiThread = tcbExec

Marks ==
  /\ stsPc \in {"SYNC", "CONFIRM", "RECONFIRM", "EVICT", "EVICTED"} => inCpu
  /\ stsPc \in {"HANDLE", "WINDOW", "DECIDE"} => ~inCpu
  /\ stsPc \in {"SYNC", "CONFIRM", "RECONFIRM"} => ~expired
  /\ stsPc \in {"EVICT", "EVICTED", "HANDLE"} => redispatch
  /\ stsPc = "WINDOW" => redispatch /\ reason \in {"EXIT", "SYSCALL"}
  /\ stsPc \in {"POST", "JOIN", "DRAIN"} => ~redispatch
  /\ killPc = "FLAGGED" =>
       killExec /\ stsPc \in {"EVICT", "EVICTED", "HANDLE", "WINDOW"}

ReadyList ==
  /\ \A i \in 1 .. Len(readyQ) : st[readyQ[i]] = "READY"
  /\ \A i, j \in 1 .. Len(readyQ) : readyQ[i] = readyQ[j] => i = j

\* A KILL sent to t finds it gone, or sure to exit at the coming eviction
KillSafe(t) ==
  \/ st[t] = "EXIT"
  \/ /\ t = tcbExec /\ killExec
     /\ \/ stsPc \in {"EVICT", "EVICTED", "HANDLE"}
        \/ stsPc = "WINDOW" /\ reason = "EXIT"

Kills ==
  /\ \A i \in 1 .. Len(interrupts) :
       interrupts[i].kind = "KILL" => KillSafe(interrupts[i].thread)
  /\ cpuPc = "RUN" /\ interrupt = "KILL" => killExec
  /\ KillJustified

IInv ==
  /\ TypeOK /\ Turns /\ Wire /\ Running /\ Marks /\ ReadyList /\ ReadyCounted
  /\ Kills /\ NoLostPreemption

-----------------------------------------------------------------------------
(* Sequences *)

\* Taking the first element of a list (list_remove(list, 0)) gives an element
\* and a list.
LEMMA HeadTailInSeq ==
  ASSUME NEW S, NEW q \in Seq(S), q # <<>>
  PROVE  Head(q) \in S /\ Tail(q) \in Seq(S)
OBVIOUS

\* list_add of an element gives a list.
LEMMA AppendInSeq ==
  ASSUME NEW S, NEW q \in Seq(S), NEW e \in S
  PROVE  Append(q, e) \in Seq(S)
OBVIOUS

\* What a list holds at one of its positions is an element.
LEMMA ElementInSeq ==
  ASSUME NEW S, NEW q \in Seq(S), NEW i \in 1 .. Len(q)
  PROVE  q[i] \in S
OBVIOUS

-----------------------------------------------------------------------------
(* Each part of the invariant is preserved by every step *)

\* Nothing but the two threads touches their semaphores.
LEMMA TurnsStep ==
  ASSUME Turns, [Next]_vars
  PROVE  Turns'
<1> USE DEF Turns,
            vars, listVars, execVars, stsVars, flagVars, binVars, qiVars,
            killVars,
            wireVars, cpuVars
<1>1. CASE StsStep
  BY <1>1 DEF StsStep, StsWait, Pick, Arm, Sync, Confirm, ReceiveEviction,
     OutOfCpu, HandleExit, HandleQuantum, HandleSyscall, OpenWindow,
     CloseWindow, Redispatch, Release, Requeue, Post, Join, Drain, Handling,
     Leave, GoOn, handlingUnchanged
<1>2. CASE QiStep
  BY <1>2 DEF QiStep, QiRead, QiStart, QiEnter, QiFinish, QiTimeout, QiPeer,
     QiPeerPost, QiExpire, QiDone, qiUnchanged
<1>3. CASE KernelStep
  <2>1. CASE KillFlag
    BY <2>1 DEF KillFlag, othersUnchanged
  <2>2. ASSUME NEW t \in Thread, KillInterrupt(t) PROVE Turns'
    BY <2>2 DEF KillInterrupt, othersUnchanged
  <2>3. ASSUME NEW t \in Thread, Unblock(t) PROVE Turns'
    BY <2>3 DEF Unblock, othersUnchanged
  <2>4. QED
    BY <1>3, <2>1, <2>2, <2>3 DEF KernelStep
<1>4. CASE CpuStep
  <2>1. CASE CpuReceive
    BY <2>1 DEF CpuReceive, cpuUnchanged
  <2>2. CASE CpuStart
    BY <2>2 DEF CpuStart, cpuUnchanged
  <2>3. CASE CpuError
    BY <2>3 DEF CpuError, Evict, cpuUnchanged
  <2>4. CASE CpuExit
    BY <2>4 DEF CpuExit, Evict, cpuUnchanged
  <2>5. CASE CpuSyscall
    BY <2>5 DEF CpuSyscall, Evict, cpuUnchanged
  <2>6. CASE CpuInterrupted
    BY <2>6 DEF CpuInterrupted, Evict, cpuUnchanged
  <2>7. CASE InterruptArrives
    BY <2>7 DEF InterruptArrives, cpuUnchanged
  <2>8. QED
    BY <1>4, <2>1, <2>2, <2>3, <2>4, <2>5, <2>6, <2>7 DEF CpuStep
<1>5. CASE UNCHANGED vars
  BY <1>5
<1>6. QED
  BY <1>1, <1>2, <1>3, <1>4, <1>5 DEF Next, Finished

\* The dispatch socket is only used in turns.
LEMMA WireStep ==
  ASSUME Wire, [Next]_vars
  PROVE  Wire'
<1> USE DEF Wire, Silent, InHand,
            vars, listVars, execVars, stsVars, flagVars, binVars, qiVars,
            killVars,
            wireVars, cpuVars
<1>1. CASE StsStep
  BY <1>1 DEF StsStep, StsWait, Pick, Arm, Sync, Confirm, ReceiveEviction,
     OutOfCpu, HandleExit, HandleQuantum, HandleSyscall, OpenWindow,
     CloseWindow, Redispatch, Release, Requeue, Post, Join, Drain, Handling,
     Leave, GoOn, handlingUnchanged
<1>2. CASE QiStep
  BY <1>2 DEF QiStep, QiRead, QiStart, QiEnter, QiFinish, QiTimeout, QiPeer,
     QiPeerPost, QiExpire, QiDone, qiUnchanged
<1>3. CASE KernelStep
  <2>1. CASE KillFlag
    BY <2>1 DEF KillFlag, othersUnchanged
  <2>2. ASSUME NEW t \in Thread, KillInterrupt(t) PROVE Wire'
    BY <2>2 DEF KillInterrupt, othersUnchanged
  <2>3. ASSUME NEW t \in Thread, Unblock(t) PROVE Wire'
    BY <2>3 DEF Unblock, othersUnchanged
  <2>4. QED
    BY <1>3, <2>1, <2>2, <2>3 DEF KernelStep
<1>4. CASE CpuStep
  <2>1. CASE CpuReceive
    BY <2>1 DEF CpuReceive, cpuUnchanged
  <2>2. CASE CpuStart
    BY <2>2 DEF CpuStart, cpuUnchanged
  <2>3. CASE CpuError
    BY <2>3 DEF CpuError, Evict, cpuUnchanged
  <2>4. CASE CpuExit
    BY <2>4 DEF CpuExit, Evict, cpuUnchanged
  <2>5. CASE CpuSyscall
    BY <2>5 DEF CpuSyscall, Evict, cpuUnchanged
  <2>6. CASE CpuInterrupted
    BY <2>6 DEF CpuInterrupted, Evict, cpuUnchanged
  <2>7. CASE InterruptArrives
    BY <2>7 DEF InterruptArrives, cpuUnchanged
  <2>8. QED
    BY <1>4, <2>1, <2>2, <2>3, <2>4, <2>5, <2>6, <2>7 DEF CpuStep
<1>5. CASE UNCHANGED vars
  BY <1>5
<1>6. QED
  BY <1>1, <1>2, <1>3, <1>4, <1>5 DEF Next, Finished

\* The flags are written by the scheduler alone, but for QUANTUM_EXPIRED:
\* the interrupter may set it whenever the mutex is free.
LEMMA MarksStep ==
  ASSUME TypeOK, Running, Marks, [Next]_vars
  PROVE  Marks'
<1> USE DEF TypeOK, Flags, Values, Marks, Running, NoWriter, ReadLocked,
            Redispatches, InExec, MutexFree, MustExit,
            vars, listVars, execVars, stsVars, flagVars, binVars, qiVars,
            killVars,
            wireVars, cpuVars
<1>1. CASE StsStep
  BY <1>1 DEF StsStep, StsWait, Pick, Arm, Sync, Confirm, ReceiveEviction,
     OutOfCpu, HandleExit, HandleQuantum, HandleSyscall, OpenWindow,
     CloseWindow, Redispatch, Release, Requeue, Post, Join, Drain, Handling,
     Leave, GoOn, handlingUnchanged
<1>2. CASE QiStep
  BY <1>2 DEF QiStep, QiRead, QiStart, QiEnter, QiFinish, QiTimeout, QiPeer,
     QiPeerPost, QiExpire, QiDone, qiUnchanged
<1>3. CASE KernelStep
  <2>1. CASE KillFlag
    BY <2>1 DEF KillFlag, othersUnchanged
  <2>2. ASSUME NEW t \in Thread, KillInterrupt(t) PROVE Marks'
    BY <2>2 DEF KillInterrupt, othersUnchanged
  <2>3. ASSUME NEW t \in Thread, Unblock(t) PROVE Marks'
    BY <2>3 DEF Unblock, othersUnchanged
  <2>4. QED
    BY <1>3, <2>1, <2>2, <2>3 DEF KernelStep
<1>4. CASE CpuStep
  <2>1. CASE CpuReceive
    BY <2>1 DEF CpuReceive, cpuUnchanged
  <2>2. CASE CpuStart
    BY <2>2 DEF CpuStart, cpuUnchanged
  <2>3. CASE CpuError
    BY <2>3 DEF CpuError, Evict, cpuUnchanged
  <2>4. CASE CpuExit
    BY <2>4 DEF CpuExit, Evict, cpuUnchanged
  <2>5. CASE CpuSyscall
    BY <2>5 DEF CpuSyscall, Evict, cpuUnchanged
  <2>6. CASE CpuInterrupted
    BY <2>6 DEF CpuInterrupted, Evict, cpuUnchanged
  <2>7. CASE InterruptArrives
    BY <2>7 DEF InterruptArrives, cpuUnchanged
  <2>8. QED
    BY <1>4, <2>1, <2>2, <2>3, <2>4, <2>5, <2>6, <2>7 DEF CpuStep
<1>5. CASE UNCHANGED vars
  BY <1>5
<1>6. QED
  BY <1>1, <1>2, <1>3, <1>4, <1>5 DEF Next, Finished

\* Only Pick puts a thread in EXEC, when no other is and the interrupter has
\* finished with the last one.
LEMMA RunningStep ==
  ASSUME TypeOK, Turns, Marks, ReadyList, Running, [Next]_vars
  PROVE  Running'
<1> USE DEF TypeOK, Flags, Values, Running, InExec, Turns, Marks,
            InsertStateReady, Redispatches, MustExit, ReadyList,
            vars, listVars, execVars, stsVars, flagVars, binVars, qiVars,
            killVars,
            wireVars, cpuVars
<1>1. CASE StsStep
  <2>1. CASE StsWait
    BY <2>1 DEF StsWait
  <2>2. CASE Pick
    BY <2>2 DEF Pick
  <2>3. CASE Arm
    BY <2>3 DEF Arm
  <2>4. CASE Sync
    BY <2>4 DEF Sync
  <2>5. CASE Confirm
    BY <2>5 DEF Confirm
  <2>6. CASE ReceiveEviction
    BY <2>6 DEF ReceiveEviction
  <2>7. CASE OutOfCpu
    BY <2>7 DEF OutOfCpu
  <2>8. CASE HandleExit
    BY <2>8 DEF HandleExit, Handling, Leave, handlingUnchanged
  <2>9. CASE HandleQuantum
    BY <2>9 DEF HandleQuantum, Handling, handlingUnchanged
  <2>10. CASE HandleSyscall
    BY <2>10 DEF HandleSyscall, Handling, Leave, GoOn, handlingUnchanged
  <2>11. CASE OpenWindow
    BY <2>11 DEF OpenWindow, Handling, handlingUnchanged
  <2>12. CASE CloseWindow
    BY <2>12 DEF CloseWindow, Leave, GoOn, handlingUnchanged
  <2>13. CASE Redispatch
    BY <2>13 DEF Redispatch
  <2>14. CASE Release
    BY <2>14 DEF Release
  <2>15. CASE Requeue
    BY <2>15 DEF Requeue, handlingUnchanged
  <2>16. CASE Post
    BY <2>16 DEF Post, handlingUnchanged
  <2>17. CASE Join
    BY <2>17 DEF Join
  <2>18. CASE Drain
    BY <2>18 DEF Drain, handlingUnchanged
  <2>19. QED
    BY <1>1, <2>1, <2>2, <2>3, <2>4, <2>5, <2>6, <2>7, <2>8, <2>9, <2>10,
       <2>11, <2>12, <2>13, <2>14, <2>15, <2>16, <2>17, <2>18 DEF StsStep
<1>2. CASE QiStep
  BY <1>2 DEF QiStep, QiRead, QiStart, QiEnter, QiFinish, QiTimeout, QiPeer,
     QiPeerPost, QiExpire, QiDone, qiUnchanged
<1>3. CASE KernelStep
  <2>1. CASE KillFlag
    BY <2>1 DEF KillFlag, othersUnchanged
  <2>2. ASSUME NEW t \in Thread, KillInterrupt(t) PROVE Running'
    BY <2>2 DEF KillInterrupt, othersUnchanged
  <2>3. ASSUME NEW t \in Thread, Unblock(t) PROVE Running'
    BY <2>3 DEF Unblock, othersUnchanged
  <2>4. QED
    BY <1>3, <2>1, <2>2, <2>3 DEF KernelStep
<1>4. CASE CpuStep
  <2>1. CASE CpuReceive
    BY <2>1 DEF CpuReceive, cpuUnchanged
  <2>2. CASE CpuStart
    BY <2>2 DEF CpuStart, cpuUnchanged
  <2>3. CASE CpuError
    BY <2>3 DEF CpuError, Evict, cpuUnchanged
  <2>4. CASE CpuExit
    BY <2>4 DEF CpuExit, Evict, cpuUnchanged
  <2>5. CASE CpuSyscall
    BY <2>5 DEF CpuSyscall, Evict, cpuUnchanged
  <2>6. CASE CpuInterrupted
    BY <2>6 DEF CpuInterrupted, Evict, cpuUnchanged
  <2>7. CASE InterruptArrives
    BY <2>7 DEF InterruptArrives, cpuUnchanged
  <2>8. QED
    BY <1>4, <2>1, <2>2, <2>3, <2>4, <2>5, <2>6, <2>7 DEF CpuStep
<1>5. CASE UNCHANGED vars
  BY <1>5
<1>6. QED
  BY <1>1, <1>2, <1>3, <1>4, <1>5 DEF Next, Finished

\* Only a thread that leaves EXEC or BLOCKED is appended to the list, so no
\* thread is in it twice.
LEMMA ReadyListStep ==
  ASSUME TypeOK, Running, Marks, ReadyList, [Next]_vars
  PROVE  ReadyList'
<1> USE DEF TypeOK, Flags, Values, ReadyList, Running, InExec, Marks,
            InsertStateReady, MustExit,
            vars, listVars, execVars, stsVars, flagVars, binVars, qiVars,
            killVars,
            wireVars, cpuVars
<1>1. CASE StsStep
  <2>1. CASE StsWait
    BY <2>1 DEF StsWait
  <2>2. CASE Pick
    BY <2>2 DEF Pick
  <2>3. CASE Arm
    BY <2>3 DEF Arm
  <2>4. CASE Sync
    BY <2>4 DEF Sync
  <2>5. CASE Confirm
    BY <2>5 DEF Confirm
  <2>6. CASE ReceiveEviction
    BY <2>6 DEF ReceiveEviction
  <2>7. CASE OutOfCpu
    BY <2>7 DEF OutOfCpu
  <2>8. CASE HandleExit
    BY <2>8 DEF HandleExit, Handling, Leave, handlingUnchanged
  <2>9. CASE HandleQuantum
    BY <2>9 DEF HandleQuantum, Handling, handlingUnchanged
  <2>10. CASE HandleSyscall
    BY <2>10 DEF HandleSyscall, Handling, Leave, GoOn, handlingUnchanged
  <2>11. CASE OpenWindow
    BY <2>11 DEF OpenWindow, Handling, handlingUnchanged
  <2>12. CASE CloseWindow
    BY <2>12 DEF CloseWindow, Leave, GoOn, handlingUnchanged
  <2>13. CASE Redispatch
    BY <2>13 DEF Redispatch
  <2>14. CASE Release
    BY <2>14 DEF Release
  <2>15. CASE Requeue
    BY <2>15 DEF Requeue, handlingUnchanged
  <2>16. CASE Post
    BY <2>16 DEF Post, handlingUnchanged
  <2>17. CASE Join
    BY <2>17 DEF Join
  <2>18. CASE Drain
    BY <2>18 DEF Drain, handlingUnchanged
  <2>19. QED
    BY <1>1, <2>1, <2>2, <2>3, <2>4, <2>5, <2>6, <2>7, <2>8, <2>9, <2>10,
       <2>11, <2>12, <2>13, <2>14, <2>15, <2>16, <2>17, <2>18 DEF StsStep
<1>2. CASE QiStep
  <2>1. CASE QiRead
    BY <2>1 DEF QiRead, qiUnchanged
  <2>2. CASE QiStart
    BY <2>2 DEF QiStart, qiUnchanged
  <2>3. CASE QiEnter
    BY <2>3 DEF QiEnter, qiUnchanged
  <2>4. CASE QiFinish
    BY <2>4 DEF QiFinish, qiUnchanged
  <2>5. CASE QiTimeout
    BY <2>5 DEF QiTimeout, qiUnchanged
  <2>6. CASE QiPeer
    BY <2>6 DEF QiPeer, qiUnchanged
  <2>7. CASE QiPeerPost
    BY <2>7 DEF QiPeerPost, qiUnchanged
  <2>8. CASE QiExpire
    BY <2>8 DEF QiExpire, qiUnchanged
  <2>9. CASE QiDone
    BY <2>9 DEF QiDone, qiUnchanged
  <2>10. QED
    BY <1>2, <2>1, <2>2, <2>3, <2>4, <2>5, <2>6, <2>7, <2>8, <2>9 DEF QiStep
<1>3. CASE KernelStep
  <2>1. CASE KillFlag
    BY <2>1 DEF KillFlag, othersUnchanged
  <2>2. ASSUME NEW t \in Thread, KillInterrupt(t) PROVE ReadyList'
    BY <2>2 DEF KillInterrupt, othersUnchanged
  <2>3. ASSUME NEW t \in Thread, Unblock(t) PROVE ReadyList'
    BY <2>3 DEF Unblock, othersUnchanged
  <2>4. QED
    BY <1>3, <2>1, <2>2, <2>3 DEF KernelStep
<1>4. CASE CpuStep
  <2>1. CASE CpuReceive
    BY <2>1 DEF CpuReceive, cpuUnchanged
  <2>2. CASE CpuStart
    BY <2>2 DEF CpuStart, cpuUnchanged
  <2>3. CASE CpuError
    BY <2>3 DEF CpuError, Evict, cpuUnchanged
  <2>4. CASE CpuExit
    BY <2>4 DEF CpuExit, Evict, cpuUnchanged
  <2>5. CASE CpuSyscall
    BY <2>5 DEF CpuSyscall, Evict, cpuUnchanged
  <2>6. CASE CpuInterrupted
    BY <2>6 DEF CpuInterrupted, Evict, cpuUnchanged
  <2>7. CASE InterruptArrives
    BY <2>7 DEF InterruptArrives, cpuUnchanged
  <2>8. QED
    BY <1>4, <2>1, <2>2, <2>3, <2>4, <2>5, <2>6, <2>7 DEF CpuStep
<1>5. CASE UNCHANGED vars
  BY <1>5
<1>6. QED
  BY <1>1, <1>2, <1>3, <1>4, <1>5 DEF Next, Finished

\* Each post and wait of SEM_READY goes with a change of the list, but for
\* the extra post and the loan to the interrupter.
LEMMA ReadyCountedStep ==
  ASSUME TypeOK, Turns, ReadyCounted, [Next]_vars
  PROVE  ReadyCounted'
<1> USE DEF TypeOK, Flags, Values, Turns, ReadyCounted, InsertStateReady,
            TakePost, HasPeer,
            vars, listVars, execVars, stsVars, flagVars, binVars, qiVars,
            killVars,
            wireVars, cpuVars
<1>1. CASE StsStep
  <2>1. CASE StsWait
    BY <2>1 DEF StsWait
  <2>2. CASE Pick
    BY <2>2 DEF Pick
  <2>3. CASE Arm
    BY <2>3 DEF Arm
  <2>4. CASE Sync
    BY <2>4 DEF Sync
  <2>5. CASE Confirm
    BY <2>5 DEF Confirm
  <2>6. CASE ReceiveEviction
    BY <2>6 DEF ReceiveEviction
  <2>7. CASE OutOfCpu
    BY <2>7 DEF OutOfCpu
  <2>8. CASE HandleExit
    BY <2>8 DEF HandleExit, Handling, Leave, handlingUnchanged
  <2>9. CASE HandleQuantum
    BY <2>9 DEF HandleQuantum, Handling, handlingUnchanged
  <2>10. CASE HandleSyscall
    BY <2>10 DEF HandleSyscall, Handling, Leave, GoOn, handlingUnchanged
  <2>11. CASE OpenWindow
    BY <2>11 DEF OpenWindow, Handling, handlingUnchanged
  <2>12. CASE CloseWindow
    BY <2>12 DEF CloseWindow, Leave, GoOn, handlingUnchanged
  <2>13. CASE Redispatch
    BY <2>13 DEF Redispatch
  <2>14. CASE Release
    BY <2>14 DEF Release
  <2>15. CASE Requeue
    BY <2>15 DEF Requeue, handlingUnchanged
  <2>16. CASE Post
    BY <2>16 DEF Post, handlingUnchanged
  <2>17. CASE Join
    BY <2>17 DEF Join
  <2>18. CASE Drain
    BY <2>18 DEF Drain, handlingUnchanged
  <2>19. QED
    BY <1>1, <2>1, <2>2, <2>3, <2>4, <2>5, <2>6, <2>7, <2>8, <2>9, <2>10,
       <2>11, <2>12, <2>13, <2>14, <2>15, <2>16, <2>17, <2>18 DEF StsStep
<1>2. CASE QiStep
  <2>1. CASE QiRead
    BY <2>1 DEF QiRead, qiUnchanged
  <2>2. CASE QiStart
    BY <2>2 DEF QiStart, qiUnchanged
  <2>3. CASE QiEnter
    BY <2>3 DEF QiEnter, qiUnchanged
  <2>4. CASE QiFinish
    BY <2>4 DEF QiFinish, qiUnchanged
  <2>5. CASE QiTimeout
    BY <2>5 DEF QiTimeout, qiUnchanged
  <2>6. CASE QiPeer
    BY <2>6 DEF QiPeer, qiUnchanged
  <2>7. CASE QiPeerPost
    BY <2>7 DEF QiPeerPost, qiUnchanged
  <2>8. CASE QiExpire
    BY <2>8 DEF QiExpire, qiUnchanged
  <2>9. CASE QiDone
    BY <2>9 DEF QiDone, qiUnchanged
  <2>10. QED
    BY <1>2, <2>1, <2>2, <2>3, <2>4, <2>5, <2>6, <2>7, <2>8, <2>9 DEF QiStep
<1>3. CASE KernelStep
  <2>1. CASE KillFlag
    BY <2>1 DEF KillFlag, othersUnchanged
  <2>2. ASSUME NEW t \in Thread, KillInterrupt(t) PROVE ReadyCounted'
    BY <2>2 DEF KillInterrupt, othersUnchanged
  <2>3. ASSUME NEW t \in Thread, Unblock(t) PROVE ReadyCounted'
    BY <2>3 DEF Unblock, othersUnchanged
  <2>4. QED
    BY <1>3, <2>1, <2>2, <2>3 DEF KernelStep
<1>4. CASE CpuStep
  <2>1. CASE CpuReceive
    BY <2>1 DEF CpuReceive, cpuUnchanged
  <2>2. CASE CpuStart
    BY <2>2 DEF CpuStart, cpuUnchanged
  <2>3. CASE CpuError
    BY <2>3 DEF CpuError, Evict, cpuUnchanged
  <2>4. CASE CpuExit
    BY <2>4 DEF CpuExit, Evict, cpuUnchanged
  <2>5. CASE CpuSyscall
    BY <2>5 DEF CpuSyscall, Evict, cpuUnchanged
  <2>6. CASE CpuInterrupted
    BY <2>6 DEF CpuInterrupted, Evict, cpuUnchanged
  <2>7. CASE InterruptArrives
    BY <2>7 DEF InterruptArrives, cpuUnchanged
  <2>8. QED
    BY <1>4, <2>1, <2>2, <2>3, <2>4, <2>5, <2>6, <2>7 DEF CpuStep
<1>5. CASE UNCHANGED vars
  BY <1>5
<1>6. QED
  BY <1>1, <1>2, <1>3, <1>4, <1>5 DEF Next, Finished

\* The flags only ever hold Booleans.
LEMMA FlagsStep ==
  ASSUME Flags, [Next]_vars
  PROVE  Flags'
<1> USE DEF Flags,
            vars, listVars, execVars, stsVars, flagVars, binVars, qiVars,
            killVars,
            wireVars, cpuVars
<1>1. CASE StsStep
  <2>1. CASE StsWait
    BY <2>1 DEF StsWait, Handling, Leave, GoOn, handlingUnchanged
  <2>2. CASE Pick
    BY <2>2 DEF Pick, Handling, Leave, GoOn, handlingUnchanged
  <2>3. CASE Arm
    BY <2>3 DEF Arm, Handling, Leave, GoOn, handlingUnchanged
  <2>4. CASE Sync
    BY <2>4 DEF Sync, Handling, Leave, GoOn, handlingUnchanged
  <2>5. CASE Confirm
    BY <2>5 DEF Confirm, Handling, Leave, GoOn, handlingUnchanged
  <2>6. CASE ReceiveEviction
    BY <2>6 DEF ReceiveEviction, Handling, Leave, GoOn, handlingUnchanged
  <2>7. CASE OutOfCpu
    BY <2>7 DEF OutOfCpu, Handling, Leave, GoOn, handlingUnchanged
  <2>8. CASE HandleExit
    BY <2>8 DEF HandleExit, Handling, Leave, GoOn, handlingUnchanged
  <2>9. CASE HandleQuantum
    BY <2>9 DEF HandleQuantum, Handling, Leave, GoOn, handlingUnchanged
  <2>10. CASE HandleSyscall
    BY <2>10 DEF HandleSyscall, Handling, Leave, GoOn, handlingUnchanged
  <2>11. CASE OpenWindow
    BY <2>11 DEF OpenWindow, Handling, Leave, GoOn, handlingUnchanged
  <2>12. CASE CloseWindow
    BY <2>12 DEF CloseWindow, Handling, Leave, GoOn, handlingUnchanged
  <2>13. CASE Redispatch
    BY <2>13 DEF Redispatch, Handling, Leave, GoOn, handlingUnchanged
  <2>14. CASE Release
    BY <2>14 DEF Release, Handling, Leave, GoOn, handlingUnchanged
  <2>15. CASE Requeue
    BY <2>15 DEF Requeue, Handling, Leave, GoOn, handlingUnchanged
  <2>16. CASE Post
    BY <2>16 DEF Post, Handling, Leave, GoOn, handlingUnchanged
  <2>17. CASE Join
    BY <2>17 DEF Join, Handling, Leave, GoOn, handlingUnchanged
  <2>18. CASE Drain
    BY <2>18 DEF Drain, Handling, Leave, GoOn, handlingUnchanged
  <2>19. QED
    BY <1>1, <2>1, <2>2, <2>3, <2>4, <2>5, <2>6, <2>7, <2>8, <2>9, <2>10,
       <2>11, <2>12, <2>13, <2>14, <2>15, <2>16, <2>17, <2>18 DEF StsStep
<1>2. CASE QiStep
  <2>1. CASE QiRead
    BY <2>1 DEF QiRead, qiUnchanged
  <2>2. CASE QiStart
    BY <2>2 DEF QiStart, qiUnchanged
  <2>3. CASE QiEnter
    BY <2>3 DEF QiEnter, qiUnchanged
  <2>4. CASE QiFinish
    BY <2>4 DEF QiFinish, qiUnchanged
  <2>5. CASE QiTimeout
    BY <2>5 DEF QiTimeout, qiUnchanged
  <2>6. CASE QiPeer
    BY <2>6 DEF QiPeer, qiUnchanged
  <2>7. CASE QiPeerPost
    BY <2>7 DEF QiPeerPost, qiUnchanged
  <2>8. CASE QiExpire
    BY <2>8 DEF QiExpire, qiUnchanged
  <2>9. CASE QiDone
    BY <2>9 DEF QiDone, qiUnchanged
  <2>10. QED
    BY <1>2, <2>1, <2>2, <2>3, <2>4, <2>5, <2>6, <2>7, <2>8, <2>9 DEF QiStep
<1>3. CASE KernelStep
  <2>1. CASE KillFlag
    BY <2>1 DEF KillFlag, othersUnchanged
  <2>2. ASSUME NEW t \in Thread, KillInterrupt(t) PROVE Flags'
    BY <2>2 DEF KillInterrupt, othersUnchanged
  <2>3. ASSUME NEW t \in Thread, Unblock(t) PROVE Flags'
    BY <2>3 DEF Unblock, othersUnchanged
  <2>4. QED
    BY <1>3, <2>1, <2>2, <2>3 DEF KernelStep
<1>4. CASE CpuStep
  <2>1. CASE CpuReceive
    BY <2>1 DEF CpuReceive, cpuUnchanged
  <2>2. CASE CpuStart
    BY <2>2 DEF CpuStart, cpuUnchanged
  <2>3. CASE CpuError
    BY <2>3 DEF CpuError, Evict, cpuUnchanged
  <2>4. CASE CpuExit
    BY <2>4 DEF CpuExit, Evict, cpuUnchanged
  <2>5. CASE CpuSyscall
    BY <2>5 DEF CpuSyscall, Evict, cpuUnchanged
  <2>6. CASE CpuInterrupted
    BY <2>6 DEF CpuInterrupted, Evict, cpuUnchanged
  <2>7. CASE InterruptArrives
    BY <2>7 DEF InterruptArrives, cpuUnchanged
  <2>8. QED
    BY <1>4, <2>1, <2>2, <2>3, <2>4, <2>5, <2>6, <2>7 DEF CpuStep
<1>5. CASE UNCHANGED vars
  BY <1>5
<1>6. QED
  BY <1>1, <1>2, <1>3, <1>4, <1>5 DEF Next, Finished

\* Every other variable stays in its range; a QUANTUM interrupt names a
\* thread because TCB_EXEC is one while the interrupter works.
LEMMA ValuesStep ==
  ASSUME Values, Turns, Running, [Next]_vars
  PROVE  Values'
<1> USE DEF Values, Turns, Running, ThreadOrNone, Reason, Message,
            InsertStateReady, TakePost, HasPeer,
            vars, listVars, execVars, stsVars, flagVars, binVars, qiVars,
            killVars,
            wireVars, cpuVars
<1>1. CASE StsStep
  <2>1. CASE StsWait
    BY <2>1 DEF StsWait
  <2>2. CASE Pick
    BY <2>2 DEF Pick
  <2>3. CASE Arm
    BY <2>3 DEF Arm
  <2>4. CASE Sync
    BY <2>4 DEF Sync
  <2>5. CASE Confirm
    BY <2>5 DEF Confirm
  <2>6. CASE ReceiveEviction
    BY <2>6 DEF ReceiveEviction
  <2>7. CASE OutOfCpu
    BY <2>7 DEF OutOfCpu
  <2>8. CASE HandleExit
    BY <2>8 DEF HandleExit, Handling, Leave, handlingUnchanged
  <2>9. CASE HandleQuantum
    BY <2>9 DEF HandleQuantum, Handling, handlingUnchanged
  <2>10. CASE HandleSyscall
    BY <2>10 DEF HandleSyscall, Handling, Leave, GoOn, handlingUnchanged
  <2>11. CASE OpenWindow
    BY <2>11 DEF OpenWindow, Handling, handlingUnchanged
  <2>12. CASE CloseWindow
    BY <2>12 DEF CloseWindow, Leave, GoOn, handlingUnchanged
  <2>13. CASE Redispatch
    BY <2>13 DEF Redispatch
  <2>14. CASE Release
    BY <2>14 DEF Release
  <2>15. CASE Requeue
    BY <2>15 DEF Requeue, handlingUnchanged
  <2>16. CASE Post
    BY <2>16 DEF Post, handlingUnchanged
  <2>17. CASE Join
    BY <2>17 DEF Join
  <2>18. CASE Drain
    BY <2>18 DEF Drain, handlingUnchanged
  <2>19. QED
    BY <1>1, <2>1, <2>2, <2>3, <2>4, <2>5, <2>6, <2>7, <2>8, <2>9, <2>10,
       <2>11, <2>12, <2>13, <2>14, <2>15, <2>16, <2>17, <2>18 DEF StsStep
<1>2. CASE QiStep
  <2>1. CASE QiRead
    BY <2>1 DEF QiRead, qiUnchanged
  <2>2. CASE QiStart
    BY <2>2 DEF QiStart, qiUnchanged
  <2>3. CASE QiEnter
    BY <2>3 DEF QiEnter, qiUnchanged
  <2>4. CASE QiFinish
    BY <2>4 DEF QiFinish, qiUnchanged
  <2>5. CASE QiTimeout
    BY <2>5 DEF QiTimeout, qiUnchanged
  <2>6. CASE QiPeer
    BY <2>6 DEF QiPeer, qiUnchanged
  <2>7. CASE QiPeerPost
    BY <2>7 DEF QiPeerPost, qiUnchanged
  <2>8. CASE QiExpire
    <3>1. [kind |-> "QUANTUM", thread |-> qiThread] \in Message
      BY <2>8 DEF QiExpire
    <3>2. interrupts' \in Seq(Message)
      BY <2>8, <3>1, AppendInSeq DEF QiExpire
    <3>3. QED
      BY <2>8, <3>2 DEF QiExpire, qiUnchanged
  <2>9. CASE QiDone
    BY <2>9 DEF QiDone, qiUnchanged
  <2>10. QED
    BY <1>2, <2>1, <2>2, <2>3, <2>4, <2>5, <2>6, <2>7, <2>8, <2>9 DEF QiStep
<1>3. CASE KernelStep
  <2>1. CASE KillFlag
    BY <2>1 DEF KillFlag, othersUnchanged
  <2>2. ASSUME NEW t \in Thread, KillInterrupt(t) PROVE Values'
    <3>1. [kind |-> "KILL", thread |-> t] \in Message
      OBVIOUS
    <3>2. interrupts' \in Seq(Message)
      BY <2>2, <3>1, AppendInSeq DEF KillInterrupt
    <3>3. QED
      BY <2>2, <3>2 DEF KillInterrupt, othersUnchanged
  <2>3. ASSUME NEW t \in Thread, Unblock(t) PROVE Values'
    BY <2>3 DEF Unblock, othersUnchanged
  <2>4. QED
    BY <1>3, <2>1, <2>2, <2>3 DEF KernelStep
<1>4. CASE CpuStep
  <2>1. CASE CpuReceive
    BY <2>1 DEF CpuReceive, cpuUnchanged
  <2>2. CASE CpuStart
    BY <2>2 DEF CpuStart, cpuUnchanged
  <2>3. CASE CpuError
    BY <2>3 DEF CpuError, Evict, cpuUnchanged
  <2>4. CASE CpuExit
    BY <2>4 DEF CpuExit, Evict, cpuUnchanged
  <2>5. CASE CpuSyscall
    BY <2>5 DEF CpuSyscall, Evict, cpuUnchanged
  <2>6. CASE CpuInterrupted
    BY <2>6 DEF CpuInterrupted, Evict, cpuUnchanged
  <2>7. CASE InterruptArrives
    <3>1. Head(interrupts) \in Message /\ interrupts' \in Seq(Message)
      BY <2>7, HeadTailInSeq DEF InterruptArrives
    <3>2. interrupt' \in {"NONE", "QUANTUM", "KILL"}
      BY <2>7, <3>1 DEF InterruptArrives
    <3>3. QED
      BY <2>7, <3>1, <3>2 DEF InterruptArrives, cpuUnchanged
  <2>8. QED
    BY <1>4, <2>1, <2>2, <2>3, <2>4, <2>5, <2>6, <2>7 DEF CpuStep
<1>5. CASE UNCHANGED vars
  BY <1>5
<1>6. QED
  BY <1>1, <1>2, <1>3, <1>4, <1>5 DEF Next, Finished

\* Once a KILL was sent, KILL_EXEC_TCB stays set until the thread is in
\* EXIT.
LEMMA KillsStep ==
  ASSUME TypeOK, Turns, Wire, Running, Marks, ReadyList, Kills, [Next]_vars
  PROVE  Kills'
<1> USE DEF TypeOK, Flags, Values, Turns, Wire, InHand, Silent, Running, InExec,
            Marks, ReadyList, Kills, KillSafe, KillJustified, Message,
            InsertStateReady, MustExit, Redispatches,
            vars, listVars, execVars, stsVars, flagVars, binVars, qiVars,
            killVars,
            wireVars, cpuVars
<1>1. CASE StsStep
  <2>1. CASE StsWait
    BY <2>1 DEF StsWait
  <2>2. CASE Pick
    BY <2>2 DEF Pick
  <2>3. CASE Arm
    BY <2>3 DEF Arm
  <2>4. CASE Sync
    BY <2>4 DEF Sync
  <2>5. CASE Confirm
    BY <2>5 DEF Confirm
  <2>6. CASE ReceiveEviction
    BY <2>6 DEF ReceiveEviction
  <2>7. CASE OutOfCpu
    BY <2>7 DEF OutOfCpu
  <2>8. CASE HandleExit
    BY <2>8 DEF HandleExit, Handling, Leave, handlingUnchanged
  <2>9. CASE HandleQuantum
    BY <2>9 DEF HandleQuantum, Handling, handlingUnchanged
  <2>10. CASE HandleSyscall
    <3>1. SUFFICES ASSUME NEW i \in 1 .. Len(interrupts),
                          interrupts[i].kind = "KILL"
                   PROVE  KillSafe(interrupts[i].thread)'
      BY <2>10 DEF HandleSyscall, Handling, Leave, GoOn, handlingUnchanged
    <3> DEFINE t == interrupts[i].thread
    <3>2. t \in Thread /\ tcbExec \in Thread /\ st[tcbExec] = "EXEC"
      <4>1. interrupts[i] \in Message
        BY <3>1, ElementInSeq
      <4>2. QED
        BY <2>10, <4>1 DEF HandleSyscall, Handling
    <3>3. CASE st[t] = "EXIT"
      BY <2>10, <3>2, <3>3 DEF HandleSyscall, Handling, Leave, GoOn,
      handlingUnchanged
    <3>4. CASE t = tcbExec /\ killExec /\ reason = "EXIT"
      BY <2>10, <3>2, <3>4 DEF HandleSyscall, Handling, Leave, handlingUnchanged
    <3>5. QED
      BY <2>10, <3>1, <3>3, <3>4 DEF HandleSyscall, Handling
  <2>11. CASE OpenWindow
    BY <2>11 DEF OpenWindow, Handling, handlingUnchanged
  <2>12. CASE CloseWindow
    <3>1. SUFFICES ASSUME NEW i \in 1 .. Len(interrupts),
                          interrupts[i].kind = "KILL"
                   PROVE  KillSafe(interrupts[i].thread)'
      BY <2>12 DEF CloseWindow, Leave, GoOn, handlingUnchanged
    <3> DEFINE t == interrupts[i].thread
    <3>2. t \in Thread /\ tcbExec \in Thread /\ st[tcbExec] = "EXEC"
      <4>1. interrupts[i] \in Message
        BY <3>1, ElementInSeq
      <4>2. QED
        BY <2>12, <4>1 DEF CloseWindow
    <3>3. CASE st[t] = "EXIT"
      BY <2>12, <3>2, <3>3 DEF CloseWindow, Leave, GoOn, handlingUnchanged
    <3>4. CASE t = tcbExec /\ killExec /\ reason = "EXIT"
      BY <2>12, <3>2, <3>4 DEF CloseWindow, Leave, handlingUnchanged
    <3>5. QED
      BY <2>12, <3>1, <3>3, <3>4 DEF CloseWindow
  <2>13. CASE Redispatch
    BY <2>13 DEF Redispatch
  <2>14. CASE Release
    BY <2>14 DEF Release
  <2>15. CASE Requeue
    BY <2>15 DEF Requeue, handlingUnchanged
  <2>16. CASE Post
    BY <2>16 DEF Post, handlingUnchanged
  <2>17. CASE Join
    BY <2>17 DEF Join
  <2>18. CASE Drain
    BY <2>18 DEF Drain, handlingUnchanged
  <2>19. QED
    BY <1>1, <2>1, <2>2, <2>3, <2>4, <2>5, <2>6, <2>7, <2>8, <2>9, <2>10,
       <2>11, <2>12, <2>13, <2>14, <2>15, <2>16, <2>17, <2>18 DEF StsStep
<1>2. CASE QiStep
  <2>1. CASE QiRead
    BY <2>1 DEF QiRead, qiUnchanged
  <2>2. CASE QiStart
    BY <2>2 DEF QiStart, qiUnchanged
  <2>3. CASE QiEnter
    BY <2>3 DEF QiEnter, qiUnchanged
  <2>4. CASE QiFinish
    BY <2>4 DEF QiFinish, qiUnchanged
  <2>5. CASE QiTimeout
    BY <2>5 DEF QiTimeout, qiUnchanged
  <2>6. CASE QiPeer
    BY <2>6 DEF QiPeer, qiUnchanged
  <2>7. CASE QiPeerPost
    BY <2>7 DEF QiPeerPost, qiUnchanged
  <2>8. CASE QiExpire
    BY <2>8 DEF QiExpire, qiUnchanged
  <2>9. CASE QiDone
    BY <2>9 DEF QiDone, qiUnchanged
  <2>10. QED
    BY <1>2, <2>1, <2>2, <2>3, <2>4, <2>5, <2>6, <2>7, <2>8, <2>9 DEF QiStep
<1>3. CASE KernelStep
  <2>1. CASE KillFlag
    BY <2>1 DEF KillFlag, othersUnchanged
  <2>2. ASSUME NEW t \in Thread, KillInterrupt(t) PROVE Kills'
    BY <2>2 DEF KillInterrupt, othersUnchanged
  <2>3. ASSUME NEW t \in Thread, Unblock(t) PROVE Kills'
    BY <2>3 DEF Unblock, othersUnchanged
  <2>4. QED
    BY <1>3, <2>1, <2>2, <2>3 DEF KernelStep
<1>4. CASE CpuStep
  <2>1. CASE CpuReceive
    BY <2>1 DEF CpuReceive, cpuUnchanged
  <2>2. CASE CpuStart
    BY <2>2 DEF CpuStart, cpuUnchanged
  <2>3. CASE CpuError
    BY <2>3 DEF CpuError, Evict, cpuUnchanged
  <2>4. CASE CpuExit
    BY <2>4 DEF CpuExit, Evict, cpuUnchanged
  <2>5. CASE CpuSyscall
    BY <2>5 DEF CpuSyscall, Evict, cpuUnchanged
  <2>6. CASE CpuInterrupted
    BY <2>6 DEF CpuInterrupted, Evict, cpuUnchanged
  <2>7. CASE InterruptArrives
    BY <2>7 DEF InterruptArrives, cpuUnchanged
  <2>8. QED
    BY <1>4, <2>1, <2>2, <2>3, <2>4, <2>5, <2>6, <2>7 DEF CpuStep
<1>5. CASE UNCHANGED vars
  BY <1>5
<1>6. QED
  BY <1>1, <1>2, <1>3, <1>4, <1>5 DEF Next, Finished

\* QUANTUM_EXPIRED is set with a message while the thread is in the CPU, and
\* the message is delivered or still there until the CPU evicts.
LEMMA NoLostPreemptionStep ==
  ASSUME TypeOK, Turns, Wire, Running, Marks, NoLostPreemption, [Next]_vars
  PROVE  NoLostPreemption'
<1> USE DEF TypeOK, Flags, Values, Turns, Wire, InHand, Silent, Running, Marks,
            NoLostPreemption, Message,
            vars, listVars, execVars, stsVars, flagVars, binVars, qiVars,
            killVars,
            wireVars, cpuVars
<1>1. CASE StsStep
  <2>1. CASE StsWait
    BY <2>1 DEF StsWait
  <2>2. CASE Pick
    BY <2>2 DEF Pick
  <2>3. CASE Arm
    BY <2>3 DEF Arm
  <2>4. CASE Sync
    BY <2>4 DEF Sync
  <2>5. CASE Confirm
    BY <2>5 DEF Confirm
  <2>6. CASE ReceiveEviction
    BY <2>6 DEF ReceiveEviction
  <2>7. CASE OutOfCpu
    BY <2>7 DEF OutOfCpu
  <2>8. CASE HandleExit
    BY <2>8 DEF HandleExit, Handling, Leave, handlingUnchanged
  <2>9. CASE HandleQuantum
    BY <2>9 DEF HandleQuantum, Handling, handlingUnchanged
  <2>10. CASE HandleSyscall
    BY <2>10 DEF HandleSyscall, Handling, Leave, GoOn, handlingUnchanged
  <2>11. CASE OpenWindow
    BY <2>11 DEF OpenWindow, Handling, handlingUnchanged
  <2>12. CASE CloseWindow
    BY <2>12 DEF CloseWindow, Leave, GoOn, handlingUnchanged
  <2>13. CASE Redispatch
    BY <2>13 DEF Redispatch
  <2>14. CASE Release
    BY <2>14 DEF Release
  <2>15. CASE Requeue
    BY <2>15 DEF Requeue, handlingUnchanged
  <2>16. CASE Post
    BY <2>16 DEF Post, handlingUnchanged
  <2>17. CASE Join
    BY <2>17 DEF Join
  <2>18. CASE Drain
    BY <2>18 DEF Drain, handlingUnchanged
  <2>19. QED
    BY <1>1, <2>1, <2>2, <2>3, <2>4, <2>5, <2>6, <2>7, <2>8, <2>9, <2>10,
       <2>11, <2>12, <2>13, <2>14, <2>15, <2>16, <2>17, <2>18 DEF StsStep
<1>2. CASE QiStep
  <2>1. CASE QiRead
    BY <2>1 DEF QiRead, qiUnchanged
  <2>2. CASE QiStart
    BY <2>2 DEF QiStart, qiUnchanged
  <2>3. CASE QiEnter
    BY <2>3 DEF QiEnter, qiUnchanged
  <2>4. CASE QiFinish
    BY <2>4 DEF QiFinish, qiUnchanged
  <2>5. CASE QiTimeout
    BY <2>5 DEF QiTimeout, qiUnchanged
  <2>6. CASE QiPeer
    BY <2>6 DEF QiPeer, qiUnchanged
  <2>7. CASE QiPeerPost
    BY <2>7 DEF QiPeerPost, qiUnchanged
  <2>8. CASE QiExpire
    BY <2>8 DEF QiExpire, qiUnchanged
  <2>9. CASE QiDone
    BY <2>9 DEF QiDone, qiUnchanged
  <2>10. QED
    BY <1>2, <2>1, <2>2, <2>3, <2>4, <2>5, <2>6, <2>7, <2>8, <2>9 DEF QiStep
<1>3. CASE KernelStep
  <2>1. CASE KillFlag
    BY <2>1 DEF KillFlag, othersUnchanged
  <2>2. ASSUME NEW t \in Thread, KillInterrupt(t) PROVE NoLostPreemption'
    BY <2>2 DEF KillInterrupt, othersUnchanged
  <2>3. ASSUME NEW t \in Thread, Unblock(t) PROVE NoLostPreemption'
    BY <2>3 DEF Unblock, othersUnchanged
  <2>4. QED
    BY <1>3, <2>1, <2>2, <2>3 DEF KernelStep
<1>4. CASE CpuStep
  <2>1. CASE CpuReceive
    BY <2>1 DEF CpuReceive, cpuUnchanged
  <2>2. CASE CpuStart
    BY <2>2 DEF CpuStart, cpuUnchanged
  <2>3. CASE CpuError
    BY <2>3 DEF CpuError, Evict, cpuUnchanged
  <2>4. CASE CpuExit
    BY <2>4 DEF CpuExit, Evict, cpuUnchanged
  <2>5. CASE CpuSyscall
    BY <2>5 DEF CpuSyscall, Evict, cpuUnchanged
  <2>6. CASE CpuInterrupted
    BY <2>6 DEF CpuInterrupted, Evict, cpuUnchanged
  <2>7. CASE InterruptArrives
    <3>1. Head(interrupts) \in Message
      BY <2>7, HeadTailInSeq DEF InterruptArrives
    <3>2. SUFFICES ASSUME expired, stsPc = "EVICT", evictMsg = "NONE",
                          interrupt' = "NONE"
                   PROVE  \E i \in 1 .. Len(interrupts') :
                            interrupts'[i].thread = tcbExec
      BY <2>7 DEF InterruptArrives, cpuUnchanged
    <3>3. interrupt = "NONE" /\ Head(interrupts).thread # tcbExec
      BY <2>7, <3>1, <3>2 DEF InterruptArrives, cpuUnchanged
    <3>4. PICK i \in 1 .. Len(interrupts) : interrupts[i].thread = tcbExec
      BY <3>2, <3>3
    <3>5. i # 1 /\ i - 1 \in 1 .. Len(interrupts')
      BY <2>7, <3>3, <3>4 DEF InterruptArrives
    <3>6. interrupts'[i - 1].thread = tcbExec
      BY <2>7, <3>4, <3>5 DEF InterruptArrives
    <3>7. QED
      BY <3>5, <3>6
  <2>8. QED
    BY <1>4, <2>1, <2>2, <2>3, <2>4, <2>5, <2>6, <2>7 DEF CpuStep
<1>5. CASE UNCHANGED vars
  BY <1>5
<1>6. QED
  BY <1>1, <1>2, <1>3, <1>4, <1>5 DEF Next, Finished

-----------------------------------------------------------------------------
(* The theorems *)

\* The parts hold together in every state: the scheduler, the interrupter, the
\* killer, the two sockets and the CPU are only ever in step with each other.
THEOREM Invariance == Spec => []IInv
<1>1. Init => IInv
  <2>1. SUFFICES ASSUME Init PROVE IInv
    OBVIOUS
  <2>2. Flags
    BY <2>1 DEF Init, Flags
  <2>3. Values
    BY <2>1, DispatcherAssumption DEF Init, Values, ThreadOrNone, Reason
  <2>4. Turns /\ Wire /\ Marks
    BY <2>1 DEF Init, Turns, Wire, Silent, Marks
  <2>5. Running /\ ReadyList /\ ReadyCounted
    BY <2>1 DEF Init, Running, InExec, ReadyList, ReadyCounted
  <2>6. Kills /\ NoLostPreemption
    BY <2>1 DEF Init, Kills, KillJustified, NoLostPreemption
  <2>7. QED
    BY <2>2, <2>3, <2>4, <2>5, <2>6 DEF IInv, TypeOK
<1>2. IInv /\ [Next]_vars => IInv'
  <2>1. SUFFICES ASSUME IInv, [Next]_vars PROVE IInv'
    OBVIOUS
  <2>2. Flags' /\ Values' /\ Turns' /\ Wire' /\ Running'
    BY <2>1, FlagsStep, ValuesStep, TurnsStep, WireStep, RunningStep DEF IInv,
    TypeOK
  <2>3. Marks' /\ ReadyList' /\ ReadyCounted'
    BY <2>1, MarksStep, ReadyListStep, ReadyCountedStep DEF IInv
  <2>4. Kills' /\ NoLostPreemption'
    BY <2>1, KillsStep, NoLostPreemptionStep DEF IInv
  <2>5. QED
    BY <2>2, <2>3, <2>4 DEF IInv, TypeOK
<1>3. QED
  BY <1>1, <1>2, PTL DEF Spec

\* Every semaphore, flag, message and program counter stays in its range,
\* for any number of threads.
THEOREM TypeCorrect == Spec => []TypeOK
<1>1. IInv => TypeOK
  BY DEF IInv
<1>2. QED
  BY <1>1, Invariance, PTL

\* The two binary semaphores never hold two posts between them (scheduler.c
\* 311-319, 540, 583-597, 683).
THEOREM TurnsAreTaken == Spec => []BinarySemaphores
<1>1. IInv => BinarySemaphores
  BY DEF IInv, Turns, BinarySemaphores
<1>2. QED
  BY <1>1, Invariance, PTL

\* The CPU runs nothing but the thread in EXEC, while the scheduler waits
\* for its eviction.
THEOREM CpuRunsTheExecThread == Spec => []CpuRunsExec
<1>1. IInv => CpuRunsExec
  BY DEF IInv, TypeOK, Values, Wire, InHand, Running, InExec, CpuRunsExec
<1>2. QED
  BY <1>1, Invariance, PTL

\* The quantum interrupter never times or interrupts a thread the scheduler
\* is done with.
THEOREM TimerTracksTheExecThread == Spec => []TimerTracksExec
<1>1. IInv => TimerTracksExec
  BY DEF IInv, Running, TimerTracksExec
<1>2. QED
  BY <1>1, Invariance, PTL

\* SEM_READY and SEM_SHORT_TERM_SCHEDULER agree with the READY list in every
\* state.
THEOREM ReadyIsCounted == Spec => []ReadyCounted
<1>1. IInv => ReadyCounted
  BY DEF IInv
<1>2. QED
  BY <1>1, Invariance, PTL

\* A KILL eviction is only ever answered for a thread whose KILL_EXEC_TCB is
\* set, however late its interrupt was delivered.
THEOREM KillsAreJustified == Spec => []KillJustified
<1>1. IInv => KillJustified
  BY DEF IInv, Kills
<1>2. QED
  BY <1>1, Invariance, PTL

\* A quantum that expires while the thread is in the CPU reaches the CPU.
THEOREM PreemptionIsNotLost == Spec => []NoLostPreemption
<1>1. IInv => NoLostPreemption
  BY DEF IInv
<1>2. QED
  BY <1>1, Invariance, PTL
=============================================================================
