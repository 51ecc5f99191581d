--------------------------- MODULE LongTermProofs ---------------------------
(***************************************************************************)
(* Kernel and memory agree on processes and threads, processes are         *)
(* admitted in order, the partition table is sound, and the long-term      *)
(* scheduler sleeps for no other reason than those StallExplained names,   *)
(* for any user space, sizes, schemes and fits and any number of processes *)
(* and threads.                                                            *)
(*                                                                         *)
(* Processes wait in the order of their PIDs, and those that were admitted *)
(* are the ones before (Order).  What kernel and memory hold of a process  *)
(* depends on how far it is: waiting, in the hand of the scheduler, being  *)
(* ended, or none of these (Stages, Counts).                               *)
(***************************************************************************)
EXTENDS LongTerm, MemoryProofs

\* The scheduler holds a process that memory has not accepted
Waiting == lts \in {"CREATE", "FULL", "REINSERT"}
\* ... or has, and its first thread is not in READY yet
Entering == lts \in {"THREAD", "READY", "EXIT"}

Held ==
  /\ lts \notin {"WAIT", "SEM", "GET"} => hand \in Pid
  /\ endPc = "DESTROY" => ending \in Pid

Needs == \A p \in Pid : p < pids => need[p] \in Sizes

Base == TypeOK /\ MemoryInv /\ Held /\ Needs

-----------------------------------------------------------------------------
Ahead == IF Waiting THEN 1 ELSE 0

\* The PIDs in NEW follow those that memory knows or knew
Order ==
  /\ Waiting => hand = Len(process)
  /\ \A i \in 1 .. Len(newList) :
       newList[i] = Len(process) + Ahead + (i - 1)
  /\ Len(process) + Ahead + Len(newList) = pids

Admission == Order /\ SlotIsPid /\ NewCounted

\* How long the scheduler may take to notice that a process would fit
FirstFits(p) == Candidates(need[p]) # {}
HandFits == FirstFits(hand)
HeadFits == FirstFits(Head(newList))

Stalls ==
  /\ ~ freeMemory => lts \in {"REINSERT", "WAIT"}
  /\ ~ freeMemory /\ lts = "WAIT" => newList # <<>>
  /\ lts = "FULL" /\ ~ corrupt /\ HandFits => endPc = "SIGNAL" \/ overwritten
  /\ lts = "REINSERT" /\ ~ corrupt /\ HandFits
       => endPc = "SIGNAL" \/ overwritten \/ freeMemory
  /\ lts = "WAIT" /\ ~ freeMemory /\ newList # <<>> /\ ~ corrupt /\ HeadFits
       => endPc = "SIGNAL" \/ overwritten

-----------------------------------------------------------------------------
Gone(p) == \A t \in Tid : tcb[p][t] = "NULL"
Fresh(p) == tcb[p][0] = "NEW" /\ \A t \in Tid \ {0} : tcb[p][t] = "NULL"

Ends(p) == endPc = "DESTROY" /\ p = ending
Holds(p) == p = hand /\ (Entering \/ lts = "DESTROY")

\* Neither being admitted nor being ended
Settled(p) == p < Len(process) /\ ~ Ends(p) /\ ~ Holds(p)

Stage(p) ==
  /\ p >= pids => Gone(p)
  /\ Len(process) <= p /\ p < pids => Fresh(p)
  /\ Ends(p) => Known(p) /\ Gone(p) /\ ~ Holds(p)
  /\ Holds(p) => Known(p)
  /\ Holds(p) /\ lts = "DESTROY" => Gone(p)
  /\ Holds(p) /\ lts # "DESTROY" => Fresh(p)
  /\ Settled(p) /\ Known(p) => ~ Gone(p) /\ tcb[p][0] # "NEW"
  /\ Settled(p) /\ ~ Known(p) => Gone(p)
  /\ \A t \in Tid : tcb[p][t] # "NULL" => t < tids[p]
  /\ p < pids /\ (p >= Len(process) \/ Holds(p)) => tids[p] = 1

Stages == \A p \in Pid : Stage(p)

LiveThreads(p) == {t \in Tid : tcb[p][t] = "LIVE"}

Count(p) ==
  /\ Settled(p) /\ Known(p) =>
       /\ Slot(p).threads = LiveThreads(p)
       /\ \A t \in LiveThreads(p) : t < Slot(p).count
       /\ (\A t \in Tid : tcb[p][t] # "NEW") => Slot(p).count = tids[p]
  /\ Holds(p) /\ lts \in {"THREAD", "EXIT"} =>
       Slot(p).threads = {} /\ Slot(p).count = 0
  /\ Holds(p) /\ lts = "READY" =>
       Slot(p).threads = {0} /\ Slot(p).count = 1

\* A thread memory has refused
Refused == \E p \in Pid, t \in Tid \ {0} : tcb[p][t] = "NEW"

Counts ==
  /\ corrupt => Refused
  /\ ~ corrupt => \A p \in Pid : Count(p)

IInv == Base /\ Admission /\ Stalls /\ Stages /\ Counts
-----------------------------------------------------------------------------
(* What a request does to the slots of the process table *)

\* Every slot but that of process p, which may be a new one, is kept.
KeepsOthers(p) ==
  \A q \in Nat : q # p => /\ Known(q)' <=> Known(q)
                          /\ Known(q) => Slot(q)' = Slot(q)

LEMMA CreateSlots ==
  ASSUME MemoryTypeOK, NEW p \in Pid, p = Len(process),
         NEW size \in Sizes, ProcessCreate(p, size)
  PROVE  /\ corrupt = FALSE /\ corrupt' = FALSE
         /\ Len(process') = Len(process) + 1 /\ KeepsOthers(p)
         /\ Known(p)' /\ Slot(p)'.pid = p
         /\ Slot(p)'.count = 0 /\ Slot(p)'.threads = {}
<1>1. PICK i \in DOMAIN table :
        /\ corrupt = FALSE /\ corrupt' = FALSE
        /\ process' = Append(process, [pid |-> p, size |-> size,
                                       partition |-> table[i].id,
                                       count |-> 0, threads |-> {}])
  BY DEF ProcessCreate, configVars, MemoryTypeOK
<1> DEFINE new == [pid |-> p, size |-> size, partition |-> table[i].id,
                   count |-> 0, threads |-> {}]
<1>2. new \in MemoryProcess
  <2>1. table \in Seq(Part)
    BY DEF MemoryTypeOK, Part
  <2>2. i \in 1 .. Len(table)
    BY <1>1, <2>1
  <2>3. table[i] \in Part
    BY <2>1, <2>2, ElementOfSeq
  <2>4. table[i].id \in Nat
    BY <2>3, PartFields
  <2>5. QED
    BY <2>4 DEF MemoryProcess
<1>3. new # NoProcess /\ new.pid = p /\ new.count = 0 /\ new.threads = {}
  BY <1>2, NoProcessAssumption
<1> HIDE DEF new
<1>4. process' = Append(process, new)
  BY <1>1 DEF new
<1>5. /\ Len(process') = p + 1 /\ p \in Nat /\ process'[p + 1] = new
      /\ \A j \in 1 .. p : process'[j] = process[j]
  BY <1>2, <1>4 DEF MemoryTypeOK
<1>6. KeepsOthers(p)
  <2>1. SUFFICES ASSUME NEW q \in Nat, q # p
                 PROVE  /\ Known(q)' <=> Known(q)
                        /\ Known(q) => Slot(q)' = Slot(q)
    BY DEF KeepsOthers
  <2>2. q < p <=> q < p + 1
    BY <1>5, <2>1
  <2>3. CASE q < p
    <3>1. q + 1 \in 1 .. p
      BY <1>5, <2>3
    <3>2. QED
      BY <1>5, <2>2, <2>3, <3>1 DEF Known, Slot
  <2>4. CASE ~ (q < p)
    BY <1>5, <2>2, <2>4 DEF Known
  <2>5. QED
    BY <2>3, <2>4
<1>7. Known(p)' /\ Slot(p)' = new
  BY <1>3, <1>5 DEF Known, Slot
<1>8. QED
  BY <1>1, <1>3, <1>5, <1>6, <1>7

\* One slot of the table is overwritten.
LEMMA SlotWritten ==
  ASSUME MemoryTypeOK, NEW p \in Nat, Known(p), NEW new,
         process' = [process EXCEPT ![p + 1] = new]
  PROVE  /\ Len(process') = Len(process) /\ KeepsOthers(p)
         /\ Known(p)' <=> new # NoProcess
         /\ Slot(p)' = new
<1>1. /\ DOMAIN process = 1 .. Len(process) /\ Len(process) \in Nat
      /\ p + 1 \in 1 .. Len(process)
  BY DEF MemoryTypeOK, Known
<1>2. /\ Len(process') = Len(process) /\ process'[p + 1] = new
      /\ \A j \in 1 .. Len(process) : j # p + 1 => process'[j] = process[j]
  BY <1>1
<1>3. KeepsOthers(p)
  <2>1. SUFFICES ASSUME NEW q \in Nat, q # p
                 PROVE  /\ Known(q)' <=> Known(q)
                        /\ Known(q) => Slot(q)' = Slot(q)
    BY DEF KeepsOthers
  <2>2. CASE q < Len(process)
    <3>1. q + 1 \in 1 .. Len(process) /\ q + 1 # p + 1
      BY <1>1, <2>1, <2>2
    <3>2. QED
      BY <1>2, <2>2, <3>1 DEF Known, Slot
  <2>3. CASE ~ (q < Len(process))
    BY <1>2, <2>3 DEF Known
  <2>4. QED
    BY <2>2, <2>3
<1>4. QED
  BY <1>1, <1>2, <1>3 DEF Known, Slot

LEMMA DestroySlots ==
  ASSUME MemoryTypeOK, NEW p \in Nat, ProcessDestroy(p)
  PROVE  /\ corrupt = FALSE /\ corrupt' = FALSE
         /\ Len(process') = Len(process) /\ KeepsOthers(p)
         /\ Known(p) /\ ~ Known(p)'
<1>1. /\ corrupt = FALSE /\ corrupt' = FALSE /\ Known(p)
      /\ process' = [process EXCEPT ![p + 1] = NoProcess]
  BY DEF ProcessDestroy, MemoryTypeOK
<1>2. QED
  BY <1>1, SlotWritten

LEMMA SlotIsProcess ==
  ASSUME MemoryTypeOK, NEW p \in Nat, Known(p)
  PROVE  Slot(p) \in MemoryProcess /\ p + 1 \in Live
<1>1. p + 1 \in Live
  BY DEF Known, Live, MemoryTypeOK
<1>2. QED
  BY <1>1, LiveFacts DEF Slot

LEMMA ThreadCreateSlots ==
  ASSUME MemoryTypeOK, NEW p \in Nat, NEW t \in Tid, ThreadCreate(p, t)
  PROVE  /\ corrupt = FALSE /\ corrupt' = (t > Slot(p).count)
         /\ Len(process') = Len(process) /\ KeepsOthers(p)
         /\ Known(p) /\ Known(p)' /\ Slot(p)'.pid = Slot(p).pid
         /\ Slot(p)'.count = Slot(p).count + 1
         /\ Slot(p)'.threads = Slot(p).threads \cup {t}
<1> DEFINE old == Slot(p)
           count == old.count + 1
           threads == old.threads \cup {t}
           new == [old EXCEPT !.count = count, !.threads = threads]
<1>1. /\ corrupt = FALSE /\ corrupt' = (t > Slot(p).count) /\ Known(p)
  BY DEF ThreadCreate, MemoryTypeOK
<1>2. old \in MemoryProcess
  BY <1>1, SlotIsProcess
<1>3. process' = [process EXCEPT ![p + 1] = new]
  BY <1>1, <1>2 DEF ThreadCreate, Slot, MemoryProcess
<1>4. new \in MemoryProcess
  <2>1. count \in Nat /\ threads \in SUBSET Tid
    BY <1>2 DEF MemoryProcess
  <2> HIDE DEF old, count, threads
  <2>2. QED
    BY <1>2, <2>1 DEF MemoryProcess
<1>5. new.count = count /\ new.threads = threads /\ new.pid = old.pid
  <2> HIDE DEF old, count, threads
  <2>1. QED
    BY <1>2 DEF MemoryProcess
<1>6. new # NoProcess
  BY <1>4, NoProcessAssumption
<1> HIDE DEF new
<1>7. /\ Len(process') = Len(process) /\ KeepsOthers(p) /\ Known(p)'
      /\ Slot(p)' = new
  BY <1>1, <1>3, <1>6, SlotWritten
<1>8. QED
  BY <1>1, <1>5, <1>7

LEMMA ThreadDestroySlots ==
  ASSUME MemoryTypeOK, NEW p \in Nat, NEW t \in Tid, ThreadDestroy(p, t)
  PROVE  /\ corrupt = FALSE /\ corrupt' = FALSE
         /\ Len(process') = Len(process) /\ KeepsOthers(p)
         /\ Known(p)' <=> Known(p)
         /\ Known(p) => /\ Slot(p)'.pid = Slot(p).pid
                        /\ Slot(p)'.count = Slot(p).count
                        /\ t < Slot(p).count =>
                             Slot(p)'.threads = Slot(p).threads \ {t}
<1>1. corrupt = FALSE /\ corrupt' = FALSE
  BY DEF ThreadDestroy, MemoryTypeOK
<1>2. CASE Known(p) /\ t < Slot(p).count
  <2> DEFINE old == Slot(p)
             new == [old EXCEPT !.threads = @ \ {t}]
  <2>1. old \in MemoryProcess
    BY <1>2, SlotIsProcess
  <2>2. /\ new \in MemoryProcess /\ new.count = old.count
        /\ new.threads = old.threads \ {t} /\ new.pid = old.pid
    BY <2>1 DEF MemoryProcess
  <2>3. new # NoProcess
    BY <2>2, NoProcessAssumption
  <2>4. process' = [process EXCEPT ![p + 1] = new]
    BY <1>2 DEF ThreadDestroy, Slot
  <2> HIDE DEF new
  <2>5. /\ Len(process') = Len(process) /\ KeepsOthers(p) /\ Known(p)'
        /\ Slot(p)' = new
    BY <1>2, <2>3, <2>4, SlotWritten
  <2>6. QED
    BY <1>1, <1>2, <2>2, <2>5
<1>3. CASE ~ (Known(p) /\ t < Slot(p).count)
  <2>1. process' = process
    BY <1>3 DEF ThreadDestroy
  <2>2. QED
    BY <1>1, <1>3, <2>1 DEF KeepsOthers, Known, Slot
<1>4. QED
  BY <1>2, <1>3

-----------------------------------------------------------------------------
(* Base *)

\* One entry of the TCBs of one process changes.
LEMMA TcbWritten ==
  ASSUME NEW f, NEW S, f \in [Pid -> [Tid -> S]], NEW p \in Pid, NEW t \in Tid,
         NEW v \in S, NEW g, g = [f EXCEPT ![p][t] = v]
  PROVE  /\ g \in [Pid -> [Tid -> S]] /\ g[p][t] = v
         /\ \A u \in Tid : u # t => g[p][u] = f[p][u]
         /\ \A q \in Pid : q # p => g[q] = f[q]
OBVIOUS

LEMMA MemoryStays == MemoryInv /\ UNCHANGED memVars => MemoryInv'
BY DEF MemoryInv, MemoryTypeOK, Tiling, Owned, Coalesced, UserSpace, Live,
       memVars, configVars

\* The process in the scheduler's hand, and what is known of it.
LEMMA InHand ==
  ASSUME Base, Order
  PROVE  /\ Pid \subseteq Nat /\ Tid \subseteq Nat /\ 0 \in Tid
         /\ Len(process) \in Nat /\ Len(newList) \in Nat /\ pids \in Nat
         /\ lts \notin {"WAIT", "SEM", "GET"} => hand \in Pid
         /\ Waiting => hand = Len(process) /\ need[hand] \in Sizes
         /\ newList # <<>> => /\ Head(newList) \in Pid /\ Tail(newList) \in Seq(Pid)
                              /\ Head(newList) = Len(process) + Ahead
<1>1. /\ Pid \subseteq Nat /\ Tid \subseteq Nat /\ 0 \in Tid /\ pids \in Nat
      /\ newList \in Seq(Pid) /\ Len(newList) \in Nat
  BY MemoryAssumption DEF Base, TypeOK, Pid, Tid
<1>2. Len(process) \in Nat
  BY DEF Base, TypeOK, MemoryTypeOK
<1>3. lts \notin {"WAIT", "SEM", "GET"} => hand \in Pid
  BY DEF Base, Held
<1>4. Waiting => hand = Len(process) /\ need[hand] \in Sizes
  <2>1. SUFFICES ASSUME Waiting PROVE hand = Len(process) /\ need[hand] \in Sizes
    OBVIOUS
  <2>2. hand = Len(process) /\ hand < pids
    BY <1>1, <1>2, <2>1 DEF Order, Ahead
  <2>3. hand \in Pid
    BY <1>3, <2>1 DEF Waiting
  <2>4. QED
    BY <2>2, <2>3 DEF Base, Needs
<1>5. newList # <<>> => /\ Head(newList) \in Pid /\ Tail(newList) \in Seq(Pid)
                        /\ Head(newList) = Len(process) + Ahead
  <2>1. SUFFICES ASSUME newList # <<>>
                 PROVE  /\ Head(newList) \in Pid /\ Tail(newList) \in Seq(Pid)
                        /\ Head(newList) = Len(process) + Ahead
    OBVIOUS
  <2>2. Head(newList) \in Pid /\ Tail(newList) \in Seq(Pid) /\ 1 \in 1 .. Len(newList)
        /\ Head(newList) = newList[1]
    BY <1>1, <2>1
  <2>3. newList[1] = Len(process) + Ahead + (1 - 1)
    BY <2>2 DEF Order
  <2>4. QED
    BY <1>2, <2>2, <2>3 DEF Ahead
<1>6. QED
  BY <1>1, <1>2, <1>3, <1>4, <1>5

LEMMA BaseKept == Base /\ Admission /\ Next => Base'
<1> SUFFICES ASSUME Base, Admission, Next PROVE Base'
  OBVIOUS
<1>1. /\ Pid \subseteq Nat /\ Tid \subseteq Nat /\ 0 \in Tid
      /\ lts \notin {"WAIT", "SEM", "GET"} => hand \in Pid
      /\ Waiting => need[hand] \in Sizes
      /\ newList # <<>> => Head(newList) \in Pid /\ Tail(newList) \in Seq(Pid)
  BY InHand DEF Admission
<1>2. TypeOK /\ MemoryInv /\ Held /\ Needs
  BY DEF Base
<1>3. MemoryInv'
  <2>1. ASSUME NEW p \in Pid, ThreadCreated(p)
        PROVE  MemoryInv'
    <3>1. tids[p] \in Tid
      BY <1>2, <2>1 DEF ThreadCreated, TypeOK, Tid
    <3>2. PICK t \in Tid : t = tids[p]
      BY <3>1
    <3>3. ThreadCreate(p, t)
      BY <2>1, <3>2 DEF ThreadCreated
    <3>4. QED
      BY <1>1, <1>2, <3>3, ThreadCreateKeeps
  <2>2. ASSUME NEW p \in Pid, NEW t \in Tid, NEW writes \in BOOLEAN,
               ThreadExits(p, t, writes)
        PROVE  MemoryInv'
    BY <1>1, <1>2, <2>2, ThreadDestroyKeeps DEF ThreadExits
  <2>3. ASSUME EndDestroy PROVE MemoryInv'
    <3>1. PICK p \in Pid : p = ending
      BY <1>2, <2>3 DEF EndDestroy, Held
    <3>2. ProcessDestroy(p)
      BY <2>3, <3>1 DEF EndDestroy
    <3>3. QED
      BY <1>1, <1>2, <3>2, ProcessDestroyKeeps
  <2>4. ASSUME LtsAccepted PROVE MemoryInv'
    <3>1. hand \in Pid /\ need[hand] \in Sizes
      BY <1>1, <2>4 DEF LtsAccepted, LtsGoes, Waiting
    <3>2. PICK p \in Pid, size \in Sizes : p = hand /\ size = need[hand]
      BY <3>1
    <3>3. ProcessCreate(p, size)
      BY <2>4, <3>2 DEF LtsAccepted
    <3>4. QED
      BY <1>2, <3>3, ProcessCreateKeeps
  <2>5. ASSUME LtsThread \/ LtsExit \/ LtsDestroy PROVE MemoryInv'
    <3>1. hand \in Pid
      BY <1>1, <2>5 DEF LtsThread, LtsExit, LtsDestroy, LtsGoes
    <3>2. PICK p \in Pid : p = hand
      BY <3>1
    <3>3. ThreadCreate(p, 0) \/ ThreadDestroy(p, 0) \/ ProcessDestroy(p)
      BY <2>5, <3>2 DEF LtsThread, LtsExit, LtsDestroy
    <3>4. QED
      BY <1>1, <1>2, <3>3, ThreadCreateKeeps, ThreadDestroyKeeps, ProcessDestroyKeeps
  <2>6. CASE UNCHANGED memVars
    BY <1>2, <2>6, MemoryStays
  <2>7. QED
    BY <2>1, <2>2, <2>3, <2>4, <2>5, <2>6
       DEF Next, LtsStep, EndStep, LtsWait, LtsSem, LtsGet, LtsRefused, LtsFull,
           LtsReinsert, LtsThreadRefused, LtsReady, LtsSignal, EndSignal, NewProcess,
           ThreadRefused
<1>4. TypeOK' /\ Held' /\ Needs'
  <2>1. MemoryTypeOK'
    BY <1>3 DEF MemoryInv
  <2>2. CASE LtsWait
    BY <1>1, <1>2, <2>1, <2>2
       DEF LtsWait, LtsGoes, TypeOK, Held, Needs, memVars, pcbVars, newVars, ltsVars, endVars
  <2>3. CASE LtsSem
    BY <1>1, <1>2, <2>1, <2>3
       DEF LtsSem, LtsGoes, TypeOK, Held, Needs, memVars, pcbVars, newVars, ltsVars, endVars
  <2>4. CASE LtsGet
    BY <1>1, <1>2, <2>1, <2>4
       DEF LtsGet, LtsGoes, TypeOK, Held, Needs, memVars, pcbVars, newVars, ltsVars, endVars
  <2>5. CASE LtsAccepted
    BY <1>1, <1>2, <2>1, <2>5
       DEF LtsAccepted, LtsGoes, TypeOK, Held, Needs, memVars, pcbVars, newVars,
           ltsVars, endVars
  <2>6. CASE LtsRefused
    BY <1>1, <1>2, <2>1, <2>6
       DEF LtsRefused, LtsGoes, TypeOK, Held, Needs, memVars, pcbVars, newVars,
           ltsVars, endVars
  <2>7. CASE LtsFull
    BY <1>1, <1>2, <2>1, <2>7
       DEF LtsFull, LtsGoes, Full, TypeOK, Held, Needs, memVars, pcbVars, newVars,
           ltsVars, endVars
  <2>8. CASE LtsReinsert
    BY <1>1, <1>2, <2>1, <2>8
       DEF LtsReinsert, LtsGoes, Reinserted, TypeOK, Held, Needs, memVars, pcbVars,
           newVars, ltsVars, endVars
  <2>9. CASE LtsThread
    BY <1>1, <1>2, <2>1, <2>9
       DEF LtsThread, LtsGoes, TypeOK, Held, Needs, memVars, pcbVars, newVars,
           ltsVars, endVars
  <2>10. CASE LtsThreadRefused
    BY <1>1, <1>2, <2>1, <2>10
       DEF LtsThreadRefused, LtsGoes, TypeOK, Held, Needs, memVars, pcbVars,
           newVars, ltsVars, endVars
  <2>11. CASE LtsReady
    BY <1>1, <1>2, <2>1, <2>11
       DEF LtsReady, LtsGoes, TypeOK, Held, Needs, memVars, pcbVars, newVars, ltsVars, endVars
  <2>12. CASE LtsExit
    BY <1>1, <1>2, <2>1, <2>12
       DEF LtsExit, LtsGoes, TypeOK, Held, Needs, memVars, pcbVars, newVars, ltsVars, endVars
  <2>13. CASE LtsDestroy
    BY <1>1, <1>2, <2>1, <2>13
       DEF LtsDestroy, LtsGoes, TypeOK, Held, Needs, memVars, pcbVars, newVars,
           ltsVars, endVars
  <2>14. CASE LtsSignal
    BY <1>1, <1>2, <2>1, <2>14
       DEF LtsSignal, LtsGoes, SignalFreeMemory, TypeOK, Held, Needs, memVars,
           pcbVars, newVars, ltsVars, endVars
  <2>15. CASE EndDestroy
    BY <1>1, <1>2, <2>1, <2>15
       DEF EndDestroy, LtsGoes, TypeOK, Held, Needs, memVars, pcbVars, newVars,
           ltsVars, endVars
  <2>16. CASE EndSignal
    BY <1>1, <1>2, <2>1, <2>16
       DEF EndSignal, LtsGoes, SignalFreeMemory, TypeOK, Held, Needs, memVars,
           pcbVars, newVars, ltsVars, endVars
  <2>17. ASSUME NEW size \in Sizes, NewProcess(size)
        PROVE  TypeOK' /\ Held' /\ Needs'
    <3>1. pids \in Pid /\ pids + 1 \in 0 .. MaxProcesses /\ size \in Sizes \cup {0}
          /\ 1 \in 0 .. MaxTid + 1
      BY <1>2, <2>17, MemoryAssumption DEF NewProcess, TypeOK, Pid
    <3>2. tcb' \in [Pid -> [Tid -> {"NULL", "NEW", "LIVE"}]]
      BY <1>1, <1>2, <2>17, <3>1, TcbWritten DEF NewProcess, TypeOK
    <3>3. TypeOK'
      BY <1>2, <2>1, <2>17, <3>1, <3>2 DEF NewProcess, TypeOK, ltsVars, endVars
    <3>4. Held'
      BY <1>2, <2>17 DEF NewProcess, Held, ltsVars, endVars
    <3>5. Needs'
      BY <1>1, <1>2, <2>17, <3>1 DEF NewProcess, Needs, TypeOK
    <3>6. QED
      BY <3>3, <3>4, <3>5
  <2>18. ASSUME NEW p \in Pid, ThreadCreated(p)
        PROVE  TypeOK' /\ Held' /\ Needs'
    <3>1. tids[p] \in Tid /\ tids[p] + 1 \in 0 .. MaxTid + 1
      BY <1>2, <2>18, MemoryAssumption DEF ThreadCreated, TypeOK, Tid
    <3>2. tcb' \in [Pid -> [Tid -> {"NULL", "NEW", "LIVE"}]]
      BY <1>2, <2>18, <3>1, TcbWritten DEF ThreadCreated, TypeOK
    <3>3. TypeOK'
      BY <1>2, <2>1, <2>18, <3>1, <3>2
         DEF ThreadCreated, TypeOK, newVars, ltsVars, endVars
    <3>4. Held' /\ Needs'
      BY <1>2, <2>18 DEF ThreadCreated, Held, Needs, ltsVars, endVars
    <3>5. QED
      BY <3>3, <3>4
  <2>19. ASSUME NEW p \in Pid, ThreadRefused(p)
        PROVE  TypeOK' /\ Held' /\ Needs'
    <3>1. tids[p] \in Tid /\ tids[p] + 1 \in 0 .. MaxTid + 1
      BY <1>2, <2>19, MemoryAssumption DEF ThreadRefused, TypeOK, Tid
    <3>2. tcb' \in [Pid -> [Tid -> {"NULL", "NEW", "LIVE"}]]
      BY <1>2, <2>19, <3>1, TcbWritten DEF ThreadRefused, TypeOK
    <3>3. TypeOK'
      BY <1>2, <2>1, <2>19, <3>1, <3>2
         DEF ThreadRefused, TypeOK, newVars, ltsVars, endVars
    <3>4. Held' /\ Needs'
      BY <1>2, <2>19 DEF ThreadRefused, Held, Needs, ltsVars, endVars
    <3>5. QED
      BY <3>3, <3>4
  <2>20. ASSUME NEW p \in Pid, NEW t \in Tid, NEW writes \in BOOLEAN,
               ThreadExits(p, t, writes)
        PROVE  TypeOK' /\ Held' /\ Needs'
    BY <1>1, <1>2, <2>1, <2>20
       DEF ThreadExits, TypeOK, Held, Needs, memVars, pcbVars, newVars, ltsVars, endVars
  <2>21. QED
    BY <2>2, <2>3, <2>4, <2>5, <2>6, <2>7, <2>8, <2>9, <2>10, <2>11, <2>12, <2>13,
       <2>14, <2>15, <2>16, <2>17, <2>18, <2>19, <2>20 DEF Next, LtsStep, EndStep
<1>5. QED
  BY <1>3, <1>4 DEF Base

-----------------------------------------------------------------------------
(* Admission *)

PidsAre == \A q \in Nat : Known(q) => Slot(q).pid = q

LEMMA PidsIs == MemoryTypeOK => (SlotIsPid <=> PidsAre)
<1> SUFFICES ASSUME MemoryTypeOK PROVE SlotIsPid <=> PidsAre
  OBVIOUS
<1>1. ASSUME SlotIsPid, NEW q \in Nat, Known(q) PROVE Slot(q).pid = q
  <2>1. q + 1 \in Live
    BY <1>1, SlotIsProcess
  <2>2. QED
    BY <1>1, <2>1 DEF SlotIsPid, Slot
<1>2. ASSUME PidsAre, NEW i \in Live PROVE process[i].pid = i - 1
  <2>1. i \in 1 .. Len(process) /\ Len(process) \in Nat /\ process[i] # NoProcess
    BY LiveFacts DEF Live
  <2>2. PICK q \in Nat : q + 1 = i /\ q = i - 1
    BY <2>1
  <2>3. Known(q)
    BY <2>1, <2>2 DEF Known
  <2>4. QED
    BY <1>2, <2>2, <2>3 DEF PidsAre, Slot
<1>3. QED
  BY <1>1, <1>2 DEF PidsAre, SlotIsPid

\* Only the admission of a process makes the array longer, and only there a
\* slot gets its PID.
LEMMA SlotsKept ==
  ASSUME Base, Order, PidsAre, Next, MemoryTypeOK'
  PROVE  /\ LtsAccepted \/ Len(process') = Len(process)
         /\ LtsAccepted => Len(process') = Len(process) + 1
         /\ PidsAre'
<1>1. /\ Pid \subseteq Nat /\ Tid \subseteq Nat /\ 0 \in Tid /\ Len(process) \in Nat
      /\ lts \notin {"WAIT", "SEM", "GET"} => hand \in Pid
      /\ Waiting => hand = Len(process) /\ need[hand] \in Sizes
      /\ MemoryTypeOK
  BY InHand DEF Base, TypeOK
<1>2. ASSUME NEW p \in Nat, KeepsOthers(p), Known(p)' => Slot(p)'.pid = p
      PROVE  PidsAre'
  <2>1. ASSUME NEW q \in Nat, Known(q)' PROVE Slot(q)'.pid = q
    BY <1>2, <2>1 DEF KeepsOthers, PidsAre
  <2>2. QED
    BY <2>1 DEF PidsAre
<1>3. ASSUME NEW p \in Pid, NEW t \in Tid, ThreadCreate(p, t) \/ ThreadDestroy(p, t)
      PROVE  Len(process') = Len(process) /\ PidsAre'
  BY <1>1, <1>2, <1>3, ThreadCreateSlots, ThreadDestroySlots DEF PidsAre
<1>4. ASSUME NEW p \in Pid, ProcessDestroy(p)
      PROVE  Len(process') = Len(process) /\ PidsAre'
  BY <1>1, <1>2, <1>4, DestroySlots
<1>5. ASSUME LtsAccepted
      PROVE  Len(process') = Len(process) + 1 /\ PidsAre'
  <2>1. PICK p \in Pid, size \in Sizes : p = hand /\ size = need[hand]
    BY <1>1, <1>5 DEF LtsAccepted, LtsGoes, Waiting
  <2>2. ProcessCreate(p, size) /\ p = Len(process)
    BY <1>1, <1>5, <2>1 DEF LtsAccepted, LtsGoes, Waiting
  <2>3. QED
    BY <1>1, <1>2, <2>2, CreateSlots
<1>6. ASSUME NEW p \in Pid, ThreadCreated(p)
      PROVE  Len(process') = Len(process) /\ PidsAre'
  <2>1. PICK t \in Tid : t = tids[p]
    BY <1>6 DEF ThreadCreated, Base, TypeOK, Tid
  <2>2. QED
    BY <1>3, <1>6, <2>1 DEF ThreadCreated
<1>7. ASSUME LtsThread \/ LtsExit \/ LtsDestroy \/ EndDestroy
      PROVE  Len(process') = Len(process) /\ PidsAre'
  <2>1. PICK p \in Pid : ThreadCreate(p, 0) \/ ThreadDestroy(p, 0) \/ ProcessDestroy(p)
    BY <1>1, <1>7 DEF LtsThread, LtsExit, LtsDestroy, EndDestroy, LtsGoes, Base, Held
  <2>2. QED
    BY <1>1, <1>3, <1>4, <2>1
<1>8. ASSUME UNCHANGED memVars
      PROVE  Len(process') = Len(process) /\ PidsAre'
  BY <1>8 DEF memVars, PidsAre, Known, Slot
<1>9. QED
  BY <1>3, <1>5, <1>6, <1>7, <1>8
     DEF Next, LtsStep, EndStep, LtsWait, LtsSem, LtsGet, LtsRefused, LtsFull,
         LtsReinsert, LtsThreadRefused, LtsReady, LtsSignal, EndSignal, NewProcess,
         ThreadRefused, ThreadExits

LEMMA OrderKept ==
  ASSUME Base, Order, Next,
         LtsAccepted \/ Len(process') = Len(process),
         LtsAccepted => Len(process') = Len(process) + 1
  PROVE  Order'
<1>1. /\ Len(process) \in Nat /\ Len(newList) \in Nat /\ pids \in Nat
      /\ newList \in Seq(Pid)
      /\ Waiting => hand = Len(process)
      /\ newList # <<>> => Head(newList) = Len(process) + Ahead
      /\ lts \notin {"WAIT", "SEM", "GET"} => hand \in Pid
  BY InHand DEF Base, TypeOK
<1>2. /\ \A i \in 1 .. Len(newList) : newList[i] = Len(process) + Ahead + (i - 1)
      /\ Len(process) + Ahead + Len(newList) = pids
      /\ Ahead \in {0, 1}
  BY DEF Order, Ahead
<1>3. CASE LtsGet
  <2>1. /\ ~ Waiting /\ Waiting' /\ hand' = Head(newList) /\ newList' = Tail(newList)
        /\ newList # <<>> /\ pids' = pids /\ Len(process') = Len(process)
    BY <1>3 DEF LtsGet, LtsGoes, Waiting, LtsAccepted, pcbVars
  <2>2. /\ Ahead = 0 /\ Ahead' = 1
    BY <2>1 DEF Ahead
  <2>3. /\ Len(newList') = Len(newList) - 1
        /\ \A i \in 1 .. Len(newList') : newList'[i] = newList[i + 1] /\ i + 1 \in 1 .. Len(newList)
    BY <1>1, <2>1
  <2>4. \A i \in 1 .. Len(newList') : newList'[i] = Len(process') + Ahead' + (i - 1)
    BY <1>1, <1>2, <2>1, <2>2, <2>3
  <2>5. hand' = Len(process')
    <3>1. Head(newList) = Len(process) + 0
      BY <1>1, <2>1, <2>2
    <3>2. QED
      BY <1>1, <2>1, <3>1
  <2>6. Len(process') + Ahead' + Len(newList') = pids'
    BY <1>1, <1>2, <2>1, <2>2, <2>3
  <2>7. QED
    BY <2>4, <2>5, <2>6 DEF Order
<1>4. CASE LtsReinsert
  <2>1. /\ Waiting /\ ~ Waiting' /\ newList' = <<hand>> \o newList /\ hand \in Pid
        /\ pids' = pids /\ Len(process') = Len(process)
    BY <1>1, <1>4 DEF LtsReinsert, LtsGoes, Waiting, LtsAccepted, Reinserted, pcbVars
  <2>2. Ahead = 1 /\ Ahead' = 0
    BY <2>1 DEF Ahead
  <2>3. /\ Len(newList') = Len(newList) + 1 /\ newList'[1] = hand
        /\ \A i \in 1 .. Len(newList') : i # 1 =>
             newList'[i] = newList[i - 1] /\ i - 1 \in 1 .. Len(newList)
    BY <1>1, <2>1
  <2>4. ASSUME NEW i \in 1 .. Len(newList')
        PROVE  newList'[i] = Len(process') + Ahead' + (i - 1)
    <3>1. CASE i = 1
      <4>1. newList'[i] = Len(process')
        <5>1. hand = Len(process)
          BY <1>1, <2>1
        <5>2. QED
          BY <2>1, <2>3, <3>1, <5>1
      <4>2. Len(process') + 0 + (1 - 1) = Len(process')
        BY <1>1, <2>1
      <4>3. QED
        BY <2>2, <3>1, <4>1, <4>2
    <3>2. CASE i # 1
      <4>1. newList'[i] = newList[i - 1] /\ i - 1 \in 1 .. Len(newList)
        BY <2>3, <2>4, <3>2
      <4>2. newList[i - 1] = Len(process) + 1 + ((i - 1) - 1)
        BY <1>2, <2>2, <4>1
      <4>3. i \in Nat
        BY <1>1, <2>3, <2>4
      <4>4. QED
        BY <1>1, <2>1, <2>2, <4>1, <4>2, <4>3
    <3>3. QED
      BY <3>1, <3>2
  <2>5. Len(process') + Ahead' + Len(newList') = pids'
    BY <1>1, <1>2, <2>1, <2>2, <2>3
  <2>6. QED
    BY <2>1, <2>4, <2>5 DEF Order
<1>5. ASSUME NEW size \in Sizes, NewProcess(size)
      PROVE  Order'
  <2>1. /\ newList' = Append(newList, pids) /\ pids' = pids + 1
        /\ UNCHANGED <<process, lts, hand>>
    BY <1>5 DEF NewProcess, memVars, ltsVars
  <2>2. pids \in Pid
    BY <1>1, <1>5, MemoryAssumption DEF NewProcess, Pid
  <2>3. /\ Len(newList') = Len(newList) + 1 /\ newList'[Len(newList) + 1] = pids
        /\ \A i \in 1 .. Len(newList) : newList'[i] = newList[i]
    BY <1>1, <2>1, <2>2
  <2>4. Ahead' = Ahead /\ (Waiting' <=> Waiting)
    BY <2>1 DEF Ahead, Waiting
  <2>5. ASSUME NEW i \in 1 .. Len(newList')
        PROVE  newList'[i] = Len(process') + Ahead' + (i - 1)
    <3>1. CASE i = Len(newList) + 1
      <4>1. newList'[i] = pids
        BY <2>3, <3>1
      <4>2. pids = Len(process) + Ahead + (i - 1)
        BY <1>1, <1>2, <3>1
      <4>3. QED
        BY <2>1, <2>4, <4>1, <4>2
    <3>2. CASE i # Len(newList) + 1
      <4>1. i \in 1 .. Len(newList)
        BY <1>1, <2>3, <2>5, <3>2
      <4>2. QED
        BY <1>2, <2>1, <2>3, <2>4, <4>1
    <3>3. QED
      BY <3>1, <3>2
  <2>6. Len(process') + Ahead' + Len(newList') = pids'
    BY <1>1, <1>2, <2>1, <2>3, <2>4
  <2>7. Waiting' => hand' = Len(process')
    <3>1. Waiting => hand = Len(process)
      BY <1>1
    <3>2. hand' = hand /\ Len(process') = Len(process)
      BY <2>1
    <3>3. QED
      BY <2>4, <3>1, <3>2
  <2>8. QED
    BY <2>5, <2>6, <2>7 DEF Order
<1>6. CASE LtsAccepted
  <2>1. /\ Waiting /\ ~ Waiting' /\ UNCHANGED <<newList, pids>>
        /\ Len(process') = Len(process) + 1
    BY <1>6 DEF LtsAccepted, LtsGoes, Waiting, newVars, pcbVars
  <2>2. Ahead = 1 /\ Ahead' = 0
    BY <2>1 DEF Ahead
  <2>3. QED
    BY <1>1, <1>2, <2>1, <2>2 DEF Order
<1>7. CASE LtsRefused \/ LtsFull
  <2>1. UNCHANGED <<newList, pids, hand>> /\ Len(process') = Len(process)
        /\ Waiting /\ Waiting'
    BY <1>7 DEF LtsRefused, LtsFull, LtsGoes, LtsAccepted, Waiting, newVars, pcbVars
  <2>2. Ahead' = Ahead
    BY <2>1 DEF Ahead
  <2>3. QED
    BY <2>1, <2>2 DEF Order
<1>8. CASE ~ Waiting /\ ~ Waiting' /\ UNCHANGED <<newList, pids>> /\ Len(process') = Len(process)
  <2>1. Ahead = 0 /\ Ahead' = 0
    BY <1>8 DEF Ahead
  <2>2. QED
    BY <1>8, <2>1 DEF Order
<1>9. CASE UNCHANGED <<newList, pids, lts, hand>> /\ Len(process') = Len(process)
  <2>1. Ahead' = Ahead /\ (Waiting' <=> Waiting)
    BY <1>9 DEF Ahead, Waiting
  <2>2. QED
    BY <1>9, <2>1 DEF Order
<1>10. CASE \/ LtsWait \/ LtsSem \/ LtsThread \/ LtsThreadRefused \/ LtsReady
            \/ LtsExit \/ LtsDestroy \/ LtsSignal
  <2>1. ~ Waiting /\ ~ Waiting' /\ UNCHANGED <<newList, pids>> /\ Len(process') = Len(process)
    BY <1>10 DEF LtsWait, LtsSem, LtsThread, LtsThreadRefused, LtsReady, LtsExit,
                 LtsDestroy, LtsSignal, LtsGoes, LtsAccepted, Waiting, newVars,
                 pcbVars
  <2>2. QED
    BY <1>8, <2>1
<1>11. CASE \/ EndStep \/ \E p \in Pid : ThreadCreated(p) \/ ThreadRefused(p)
            \/ \E p \in Pid, t \in Tid, writes \in BOOLEAN : ThreadExits(p, t, writes)
  <2>1. UNCHANGED <<newList, pids, lts, hand>>
    BY <1>11 DEF EndStep, EndDestroy, EndSignal, ThreadCreated, ThreadRefused,
                 ThreadExits, newVars, pcbVars, ltsVars
  <2>2. ~ LtsAccepted
    BY <1>1, <2>1 DEF LtsAccepted, LtsGoes
  <2>3. QED
    BY <1>9, <2>1, <2>2
<1>12. QED
  BY <1>3, <1>4, <1>5, <1>6, <1>7, <1>10, <1>11 DEF Next, LtsStep

LEMMA NewCountedKept == Base /\ NewCounted /\ Next => NewCounted'
<1> SUFFICES ASSUME Base, NewCounted, Next PROVE NewCounted'
  OBVIOUS
<1>1. /\ newList \in Seq(Pid) /\ Len(newList) \in Nat /\ semNew \in Nat /\ pids \in Nat
      /\ lts \notin {"WAIT", "SEM", "GET"} => hand \in Pid
  BY DEF Base, TypeOK, Held
<1>2. CASE LtsGet
  <2>1. Len(newList') = Len(newList) - 1
    BY <1>1, <1>2 DEF LtsGet
  <2>2. QED
    BY <1>1, <1>2, <2>1 DEF LtsGet, LtsGoes, NewCounted
<1>3. CASE LtsReinsert
  <2>1. Len(newList') = Len(newList) + 1
    BY <1>1, <1>3 DEF LtsReinsert, LtsGoes, Reinserted
  <2>2. QED
    BY <1>1, <1>3, <2>1 DEF LtsReinsert, LtsGoes, NewCounted
<1>4. ASSUME NEW size \in Sizes, NewProcess(size) PROVE NewCounted'
  <2>1. pids \in Pid
    <3>1. pids < MaxProcesses
      BY <1>4 DEF NewProcess
    <3>2. MaxProcesses \in Nat
      BY MemoryAssumption
    <3>3. QED
      BY <1>1, <3>1, <3>2 DEF Pid
  <2>2. Len(newList') = Len(newList) + 1 /\ UNCHANGED lts /\ semNew' = semNew + 1
    BY <1>1, <1>4, <2>1 DEF NewProcess, ltsVars
  <2>3. QED
    BY <1>1, <2>2 DEF NewCounted
<1>5. CASE LtsSem \/ LtsFull
  <2>1. newList' = newList
    BY <1>5 DEF LtsSem, LtsFull
  <2>2. CASE LtsSem
    <3>1. /\ lts = "SEM" /\ lts' = "GET" /\ semNew' = semNew - 1
          /\ semNew = Len(newList) - 0 + 0
      BY <2>2 DEF LtsSem, LtsGoes, NewCounted
    <3>2. QED
      BY <1>1, <2>1, <3>1 DEF NewCounted
  <2>3. CASE LtsFull
    <3>1. /\ lts = "FULL" /\ lts' = "REINSERT" /\ semNew' = semNew + 1
          /\ semNew = Len(newList) - 0 + 0
      BY <2>3 DEF LtsFull, Full, LtsGoes, NewCounted
    <3>2. QED
      BY <1>1, <2>1, <3>1 DEF NewCounted
  <2>4. QED
    BY <1>5, <2>2, <2>3
<1>6. CASE \/ LtsWait \/ LtsAccepted \/ LtsRefused \/ LtsThread \/ LtsThreadRefused
           \/ LtsReady \/ LtsExit \/ LtsDestroy \/ LtsSignal
  BY <1>1, <1>6 DEF LtsWait, LtsAccepted, LtsRefused, LtsThread, LtsThreadRefused,
       LtsReady, LtsExit, LtsDestroy, LtsSignal, LtsGoes, NewCounted, newVars
<1>7. CASE UNCHANGED <<newList, semNew, lts>>
  BY <1>7 DEF NewCounted
<1>8. QED
  BY <1>2, <1>3, <1>4, <1>5, <1>6, <1>7
     DEF Next, LtsStep, EndStep, EndDestroy, EndSignal, ThreadCreated, ThreadRefused,
         ThreadExits, newVars, ltsVars

LEMMA AdmissionKept == Base /\ Admission /\ Next /\ Base' => Admission'
<1> SUFFICES ASSUME Base, Admission, Next, Base' PROVE Admission'
  OBVIOUS
<1>1. MemoryTypeOK /\ MemoryTypeOK'
  BY DEF Base, TypeOK
<1>2. PidsAre
  BY <1>1, PidsIs DEF Admission
<1>3. /\ LtsAccepted \/ Len(process') = Len(process)
      /\ LtsAccepted => Len(process') = Len(process) + 1
      /\ PidsAre'
  BY <1>1, <1>2, SlotsKept DEF Admission
<1>4. SlotIsPid'
  BY <1>1, <1>3, PidsIs, PTL
<1>5. Order' /\ NewCounted'
  BY <1>3, OrderKept, NewCountedKept DEF Admission
<1>6. QED
  BY <1>4, <1>5 DEF Admission

-----------------------------------------------------------------------------
(* The stalls of the scheduler *)

LEMMA StallsExplain == Stalls => StallExplained
BY DEF Stalls, StallExplained, HeadFits, FirstFits

LEMMA StallsKept == Base /\ Admission /\ Stalls /\ Next => Stalls'
<1> SUFFICES ASSUME Base, Admission, Stalls, Next PROVE Stalls'
  OBVIOUS
<1>1. /\ Pid \subseteq Nat /\ newList \in Seq(Pid) /\ pids \in Nat
      /\ lts \notin {"WAIT", "SEM", "GET"} => hand \in Pid
      /\ Waiting => hand = Len(process) /\ hand # pids
      /\ newList # <<>> => Head(newList) \in Pid /\ Head(newList) # pids
      /\ freeMemory \in BOOLEAN /\ corrupt \in BOOLEAN /\ overwritten \in BOOLEAN
  <2>1. /\ Pid \subseteq Nat /\ newList \in Seq(Pid) /\ pids \in Nat
        /\ lts \notin {"WAIT", "SEM", "GET"} => hand \in Pid
        /\ Waiting => hand = Len(process)
        /\ newList # <<>> => /\ Head(newList) \in Pid
                             /\ Head(newList) = Len(process) + Ahead
        /\ Len(process) \in Nat /\ Len(newList) \in Nat /\ Ahead \in {0, 1}
        /\ Len(process) + Ahead + Len(newList) = pids
        /\ freeMemory \in BOOLEAN /\ corrupt \in BOOLEAN /\ overwritten \in BOOLEAN
    BY InHand DEF Admission, Order, Ahead, Base, TypeOK, MemoryTypeOK
  <2>2. Waiting => hand # pids
    BY <2>1 DEF Ahead
  <2>3. newList # <<>> => Head(newList) # pids
    <3>1. newList # <<>> => Len(newList) > 0
      BY <2>1
    <3>2. QED
      BY <2>1, <3>1
  <2>4. QED
    BY <2>1, <2>2, <2>3
<1>2. ASSUME UNCHANGED <<table, newList, hand, lts, freeMemory, overwritten>>,
             \A p \in Pid : p # pids => need'[p] = need[p],
             ~ corrupt' => ~ corrupt, endPc = "SIGNAL" => endPc' = "SIGNAL"
      PROVE  Stalls'
  <2>1. Waiting => hand \in Pid
    BY <1>1 DEF Waiting
  <2>2. Waiting /\ HandFits' => HandFits
    BY <1>1, <1>2, <2>1 DEF HandFits, FirstFits, Candidates
  <2>3. newList # <<>> /\ HeadFits' => HeadFits
    BY <1>1, <1>2 DEF HeadFits, FirstFits, Candidates
  <2>4. QED
    BY <1>2, <2>2, <2>3 DEF Stalls, Waiting
<1>3. ASSUME NEW p \in Pid, ThreadCreated(p) \/ ThreadRefused(p)
      PROVE  Stalls'
  BY <1>1, <1>2, <1>3
     DEF ThreadCreated, ThreadRefused, ThreadCreate, memVars, newVars,
                          ltsVars, endVars, configVars
<1>4. ASSUME NEW p \in Pid, NEW t \in Tid, NEW writes \in BOOLEAN,
             ThreadExits(p, t, writes)
      PROVE  Stalls'
  BY <1>1, <1>2, <1>4
     DEF ThreadExits, Handling, ThreadDestroy, newVars, ltsVars, endVars,
                          configVars
<1>5. ASSUME NEW size \in Sizes, NewProcess(size)
      PROVE  Stalls'
  <2>1. /\ UNCHANGED <<table, corrupt, hand, lts, freeMemory, overwritten, endPc>>
        /\ newList' = Append(newList, pids)
        /\ \A p \in Pid : p # pids => need'[p] = need[p]
    BY <1>5 DEF NewProcess, memVars, ltsVars, endVars, Base, TypeOK
  <2>2. pids \in Pid
    <3>1. pids < MaxProcesses
      BY <1>5 DEF NewProcess
    <3>2. MaxProcesses \in Nat
      BY MemoryAssumption
    <3>3. QED
      BY <1>1, <3>1, <3>2 DEF Pid
  <2>3. newList' # <<>> /\ (newList # <<>> => Head(newList') = Head(newList))
    BY <1>1, <2>1, <2>2
  <2>4. Waiting => hand \in Pid
    BY <1>1 DEF Waiting
  <2>5. Waiting /\ HandFits' => HandFits
    BY <1>1, <2>1, <2>4 DEF HandFits, FirstFits, Candidates
  <2>6. newList # <<>> /\ HeadFits' => HeadFits
    BY <1>1, <2>1, <2>3 DEF HeadFits, FirstFits, Candidates
  <2>7. QED
    BY <2>1, <2>3, <2>5, <2>6 DEF Stalls, Waiting
<1>6. CASE EndStep
  <2>1. UNCHANGED <<lts, newList>>
    BY <1>6 DEF EndStep, EndDestroy, EndSignal, newVars, ltsVars
  <2>2. CASE EndDestroy
    BY <2>1, <2>2 DEF EndDestroy, Stalls
  <2>3. CASE EndSignal
    BY <2>1, <2>3 DEF EndSignal, SignalFreeMemory, Stalls
  <2>4. QED
    BY <1>6, <2>2, <2>3 DEF EndStep
<1>7. CASE \/ LtsWait \/ LtsSem \/ LtsGet \/ LtsAccepted \/ LtsThread
           \/ LtsThreadRefused \/ LtsReady \/ LtsExit \/ LtsDestroy \/ LtsSignal
  <2>1. freeMemory' = TRUE /\ lts' \notin {"FULL", "REINSERT"}
    <3>1. CASE LtsWait
      BY <1>1, <3>1 DEF LtsWait, LtsGoes
    <3>2. CASE LtsSignal
      BY <3>2 DEF LtsSignal, LtsGoes, SignalFreeMemory
    <3>3. CASE \/ LtsSem \/ LtsGet \/ LtsAccepted \/ LtsThread
               \/ LtsThreadRefused \/ LtsReady \/ LtsExit \/ LtsDestroy
      BY <1>1, <3>3 DEF LtsSem, LtsGet, LtsAccepted, LtsThread, LtsThreadRefused,
                        LtsReady, LtsExit, LtsDestroy, LtsGoes, Stalls
    <3>4. QED
      BY <1>7, <3>1, <3>2, <3>3
  <2>2. QED
    BY <2>1 DEF Stalls
<1>8. CASE LtsRefused
  <2>1. Waiting /\ freeMemory' = TRUE /\ lts' = "FULL"
    BY <1>1, <1>8 DEF LtsRefused, LtsGoes, Waiting, Stalls
  <2>2. ~ Known(hand)
    <3>1. hand = Len(process) /\ Len(process) \in Nat
      BY <1>1, <2>1 DEF Base, TypeOK, MemoryTypeOK
    <3>2. QED
      BY <3>1 DEF Known
  <2>3. Candidates(need[hand]) = {}
    BY <1>8, <2>2 DEF LtsRefused, AcceptsProcess
  <2>4. ~ HandFits'
    BY <1>8, <2>3 DEF LtsRefused, HandFits, FirstFits, Candidates, memVars, pcbVars
  <2>5. QED
    BY <2>1, <2>4 DEF Stalls
<1>9. CASE LtsFull
  <2>1. HandFits' <=> HandFits
    BY <1>9 DEF LtsFull, HandFits, FirstFits, Candidates, memVars, pcbVars
  <2>2. lts = "FULL" /\ lts' = "REINSERT" /\ UNCHANGED <<endPc, overwritten, corrupt>>
    BY <1>9 DEF LtsFull, LtsGoes, memVars, endVars
  <2>3. QED
    BY <2>1, <2>2 DEF Stalls
<1>10. CASE LtsReinsert
  <2>1. /\ lts = "REINSERT" /\ lts' = "WAIT" /\ newList' = <<hand>> \o newList
        /\ UNCHANGED <<endPc, overwritten, corrupt, freeMemory>>
    BY <1>10 DEF LtsReinsert, LtsGoes, Reinserted, memVars, endVars
  <2>2. newList' # <<>> /\ Head(newList') = hand
    BY <1>1, <2>1
  <2>3. HeadFits' <=> HandFits
    BY <1>10, <2>2
       DEF LtsReinsert, HeadFits, HandFits, FirstFits, Candidates, memVars,
                       pcbVars
  <2>4. QED
    BY <1>1, <2>1, <2>2, <2>3 DEF Stalls
<1>11. QED
  BY <1>3, <1>4, <1>5, <1>6, <1>7, <1>8, <1>9, <1>10 DEF Next, LtsStep

-----------------------------------------------------------------------------
(* Stages and Counts *)

\* What a step leaves alone that says nothing of process q.
Untouched(q) ==
  /\ tcb'[q] = tcb[q] /\ tids'[q] = tids[q]
  /\ q < pids' <=> q < pids
  /\ q < Len(process') <=> q < Len(process)
  /\ Known(q)' <=> Known(q)
  /\ Known(q) => Slot(q)' = Slot(q)
  /\ Ends(q)' <=> Ends(q)
  /\ Holds(q)' <=> Holds(q)
  /\ Holds(q) => lts' = lts

Numbers ==
  /\ pids \in Nat /\ Len(process) \in Nat
  /\ \A q \in Pid : q \in Nat /\ tids[q] \in Nat
  /\ \A t \in Tid : t \in Nat
  /\ 0 \in Tid

LEMMA AreNumbers == Base => Numbers
<1> SUFFICES ASSUME Base PROVE Numbers
  OBVIOUS
<1>1. MaxTid \in Nat /\ MaxProcesses \in Nat
  BY MemoryAssumption
<1>2. /\ pids \in 0 .. MaxProcesses
      /\ tids \in [Pid -> 0 .. MaxTid + 1]
      /\ process \in Seq(MemoryProcess \cup {NoProcess})
  BY DEF Base, TypeOK, MemoryTypeOK
<1>3. Len(process) \in Nat
  BY <1>2
<1>4. /\ \A t \in Tid : t \in Nat
      /\ 0 \in Tid
  BY <1>1 DEF Tid
<1>5. ASSUME NEW q \in Pid PROVE q \in Nat /\ tids[q] \in Nat
  BY <1>1, <1>2 DEF Pid
<1>6. QED
  BY <1>1, <1>2, <1>3, <1>4, <1>5 DEF Numbers

LEMMA AreNumbersNext == Base' => Numbers'
BY AreNumbers, PTL

LEMMA UntouchedKept ==
  ASSUME Base, Base', NEW q \in Pid, Untouched(q), Stage(q)
  PROVE  Stage(q)' /\ (Count(q) => Count(q)')
<1>1. /\ q \in Nat /\ pids \in Nat /\ pids' \in Nat
      /\ Len(process) \in Nat /\ Len(process') \in Nat
  BY AreNumbers, AreNumbersNext DEF Numbers
<1>2. /\ q >= pids' <=> q >= pids
      /\ q >= Len(process') <=> q >= Len(process)
      /\ Len(process') <= q <=> Len(process) <= q
  BY <1>1 DEF Untouched
<1>3. /\ Gone(q)' <=> Gone(q)
      /\ Fresh(q)' <=> Fresh(q)
      /\ Settled(q)' <=> Settled(q)
      /\ LiveThreads(q)' = LiveThreads(q)
  BY DEF Untouched, Gone, Fresh, Settled, LiveThreads
<1>4. Stage(q)'
  BY <1>2, <1>3 DEF Stage, Untouched
<1>5. ASSUME Count(q) PROVE Count(q)'
  <2>1. Settled(q)' /\ Known(q)' =>
          /\ Slot(q)'.threads = LiveThreads(q)'
          /\ \A t \in LiveThreads(q)' : t < Slot(q)'.count
          /\ (\A t \in Tid : tcb'[q][t] # "NEW") => Slot(q)'.count = tids'[q]
    BY <1>3, <1>5 DEF Count, Untouched
  <2>2. Holds(q)' => Holds(q) /\ lts' = lts /\ Slot(q)' = Slot(q)
    BY DEF Untouched, Stage
  <2>3. QED
    BY <1>5, <2>1, <2>2 DEF Count
<1>6. QED
  BY <1>4, <1>5

Touches(p) == /\ \A q \in Pid : q # p => Untouched(q)
              /\ Stage(p)' /\ (~ corrupt' => ~ corrupt /\ Count(p)')

LEMMA TouchesKeeps ==
  ASSUME Base, Base', Stages, Counts, corrupt' => Refused',
         NEW p \in Pid, Touches(p)
  PROVE  Stages' /\ Counts'
<1>1. ASSUME NEW q \in Pid
      PROVE  Stage(q)' /\ (~ corrupt' => Count(q)')
  BY UntouchedKept DEF Touches, Stages, Counts
<1>2. QED
  BY <1>1 DEF Stages, Counts

LEMMA UntouchedKeeps ==
  ASSUME Base, Base', Stages, Counts, corrupt' = corrupt,
         Refused => Refused', \A q \in Pid : Untouched(q)
  PROVE  Stages' /\ Counts'
<1>1. ASSUME NEW q \in Pid
      PROVE  Stage(q)' /\ (~ corrupt' => Count(q)')
  BY UntouchedKept DEF Stages, Counts
<1>2. QED
  BY <1>1 DEF Stages, Counts

\* What t_TID_Manager's counter says of the other threads of a process.
LEMMA CounterIs ==
  ASSUME NEW p \in Pid, NEW t \in Tid, tcb[p][t] # "NULL"
  PROVE  /\ Counter(p) \in Nat /\ Counter(p) > 0
         /\ Counter(p) = 1 => \A u \in Tid : u # t => tcb[p][u] = "NULL"
         /\ Counter(p) # 1 => \E u \in Tid : u # t /\ tcb[p][u] # "NULL"
<1> DEFINE S == {u \in Tid : tcb[p][u] # "NULL"}
<1>1. IsFiniteSet(Tid)
  BY MemoryAssumption, FS_Interval DEF Tid
<1>2. IsFiniteSet(S) /\ t \in S
  BY <1>1, FS_Subset
<1>3. Counter(p) = Cardinality(S)
  BY DEF Counter
<1>4. /\ Cardinality(S) \in Nat
      /\ IsFiniteSet(S \ {t}) /\ Cardinality(S \ {t}) = Cardinality(S) - 1
      /\ Cardinality(S \ {t}) \in Nat
  BY <1>2, FS_RemoveElement, FS_CardinalityType
<1>5. Cardinality(S \ {t}) = 0 <=> S \ {t} = {}
  BY <1>4, FS_EmptySet
<1>6. S \ {t} = {} <=> \A u \in Tid : u # t => tcb[p][u] = "NULL"
  OBVIOUS
<1> HIDE DEF S
<1>7. Counter(p) \in Nat /\ Counter(p) > 0
  BY <1>3, <1>4
<1>8. Counter(p) = 1 <=> S \ {t} = {}
  BY <1>3, <1>4, <1>5
<1>9. QED
  BY <1>6, <1>7, <1>8

\* A process of which a thread runs is neither being admitted nor being ended.
LEMMA RunsSettled ==
  ASSUME Base, NEW p \in Pid, Stage(p), Runs(p)
  PROVE  /\ p < Len(process) /\ p < pids /\ ~ Ends(p) /\ ~ Holds(p)
         /\ Known(p) /\ tcb[p][0] # "NEW" /\ tids[p] > 0
<1>1. PICK t \in Tid : tcb[p][t] = "LIVE"
  BY DEF Runs
<1>2. ~ Gone(p) /\ ~ Fresh(p)
  BY <1>1 DEF Gone, Fresh
<1>3. /\ p \in Nat /\ pids \in Nat /\ Len(process) \in Nat /\ t \in Nat
      /\ tids[p] \in Nat
  BY AreNumbers DEF Numbers
<1>4. p < pids /\ p < Len(process) /\ ~ Ends(p) /\ ~ Holds(p)
  BY <1>2, <1>3 DEF Stage
<1>5. Known(p) /\ tcb[p][0] # "NEW"
  BY <1>2, <1>4 DEF Stage, Settled
<1>6. t < tids[p]
  BY <1>1 DEF Stage
<1>7. QED
  BY <1>3, <1>4, <1>5, <1>6

Before == Base /\ Order /\ Stages /\ Counts /\ Base'

LEMMA BeforeFacts ==
  ASSUME Before
  PROVE  /\ Base /\ Base' /\ Order /\ Stages /\ Counts /\ Numbers
         /\ MemoryTypeOK
         /\ tcb \in [Pid -> [Tid -> {"NULL", "NEW", "LIVE"}]]
         /\ tids \in [Pid -> 0 .. MaxTid + 1]
         /\ lts \notin {"WAIT", "SEM", "GET"} => hand \in Pid
         /\ endPc = "DESTROY" => ending \in Pid
         /\ Len(process) <= pids
         /\ \A p \in Pid : Stage(p) /\ (~ corrupt => Count(p))
<1>1. Base /\ Base' /\ Order /\ Stages /\ Counts
  BY DEF Before
<1>2. Numbers
  BY <1>1, AreNumbers
<1>3. Len(newList) \in Nat /\ Ahead \in {0, 1}
  BY <1>1 DEF Base, TypeOK, Ahead
<1>4. Len(process) <= pids
  <2>1. Len(process) + Ahead + Len(newList) = pids
    BY <1>1 DEF Order
  <2>2. QED
    BY <1>2, <1>3, <2>1 DEF Numbers
<1>5. QED
  BY <1>1, <1>2, <1>4 DEF Base, TypeOK, Held, Stages, Counts

\* A TCB that memory refused stays.
LEMMA RefusedStays == Before /\ Next /\ Refused => Refused'
<1> SUFFICES ASSUME Before, Next, Refused PROVE Refused'
  OBVIOUS
<1>1. PICK p \in Pid, t \in Tid \ {0} : tcb[p][t] = "NEW"
  BY DEF Refused
<1>2. /\ tcb \in [Pid -> [Tid -> {"NULL", "NEW", "LIVE"}]] /\ 0 \in Tid
      /\ tids[p] \in Nat /\ t < tids[p] /\ t \in Nat
      /\ lts \notin {"WAIT", "SEM", "GET"} => hand \in Pid
  BY <1>1, BeforeFacts DEF Numbers, Stage
<1>3. ASSUME NEW q \in Pid, NEW u \in Tid, q # p \/ u # t,
             NEW v \in {"NULL", "NEW", "LIVE"}, tcb' = [tcb EXCEPT ![q][u] = v]
      PROVE  Refused'
  <2>1. tcb'[p][t] = "NEW"
    BY <1>1, <1>2, <1>3, TcbWritten
  <2>2. QED
    BY <2>1 DEF Refused
<1>4. ASSUME NEW size \in Sizes, NewProcess(size) PROVE Refused'
  <2>1. pids \in Pid
    <3>1. pids < MaxProcesses /\ pids \in Nat
      BY <1>4, BeforeFacts DEF NewProcess, Numbers
    <3>2. MaxProcesses \in Nat
      BY MemoryAssumption
    <3>3. QED
      BY <3>1, <3>2 DEF Pid
  <2>2. tcb' = [tcb EXCEPT ![pids][0] = "NEW"] /\ t # 0
    BY <1>1, <1>4 DEF NewProcess
  <2>3. QED
    BY <1>2, <1>3, <2>1, <2>2
<1>5. ASSUME NEW q \in Pid, ThreadCreated(q) \/ ThreadRefused(q) PROVE Refused'
  <2>1. tids[q] \in Tid
    BY <1>5, BeforeFacts DEF ThreadCreated, ThreadRefused, Tid
  <2>2. q # p \/ tids[q] # t
    BY <1>2
  <2>3. \E v \in {"NEW", "LIVE"} : tcb' = [tcb EXCEPT ![q][tids[q]] = v]
    BY <1>5 DEF ThreadCreated, ThreadRefused
  <2>4. QED
    BY <1>3, <2>1, <2>2, <2>3
<1>6. ASSUME NEW q \in Pid, NEW u \in Tid, NEW writes \in BOOLEAN,
             ThreadExits(q, u, writes)
      PROVE  Refused'
  <2>1. /\ tcb' = [tcb EXCEPT ![q][u] = "NULL"]
        /\ q # p \/ u # t
    BY <1>1, <1>6 DEF ThreadExits
  <2>2. QED
    BY <1>3, <2>1
<1>7. CASE LtsReady \/ LtsExit
  <2>1. hand \in Pid /\ t # 0
    BY <1>1, <1>2, <1>7 DEF LtsReady, LtsExit, LtsGoes
  <2>2. \E v \in {"NULL", "LIVE"} : tcb' = [tcb EXCEPT ![hand][0] = v]
    BY <1>7 DEF LtsReady, LtsExit
  <2>3. QED
    BY <1>2, <1>3, <2>1, <2>2
<1>8. CASE UNCHANGED tcb
  BY <1>8 DEF Refused
<1>9. QED
  BY <1>4, <1>5, <1>6, <1>7, <1>8
     DEF Next, LtsStep, EndStep, LtsWait, LtsSem, LtsGet, LtsAccepted, LtsRefused,
         LtsFull, LtsReinsert, LtsThread, LtsThreadRefused, LtsDestroy, LtsSignal,
         EndDestroy, EndSignal, pcbVars

LEMMA PlainSteps ==
  ASSUME Before,
         \/ LtsWait \/ LtsSem \/ LtsGet \/ LtsRefused \/ LtsFull \/ LtsReinsert
         \/ LtsSignal \/ EndSignal
  PROVE  corrupt' = corrupt /\ \A q \in Pid : Untouched(q)
<1>1. UNCHANGED <<process, corrupt, tcb, tids, pids>>
  BY DEF LtsWait, LtsSem, LtsGet, LtsRefused, LtsFull, LtsReinsert, LtsSignal,
         EndSignal, pcbVars, memVars
<1>2. ASSUME NEW q \in Pid
      PROVE  (Ends(q)' <=> Ends(q)) /\ (Holds(q)' <=> Holds(q))
             /\ (Holds(q) => lts' = lts)
  <2>1. CASE EndSignal
    BY <2>1 DEF EndSignal, ltsVars, Ends, Holds, Entering
  <2>2. CASE \/ LtsWait \/ LtsSem \/ LtsGet \/ LtsRefused \/ LtsFull \/ LtsReinsert
             \/ LtsSignal
    BY <2>2 DEF LtsWait, LtsSem, LtsGet, LtsRefused, LtsFull, LtsReinsert, LtsSignal,
                LtsGoes, endVars, Ends, Holds, Entering
  <2>3. QED
    BY <2>1, <2>2
<1>3. QED
  BY <1>1, <1>2 DEF Untouched, Known, Slot

\* The scheduler's steps concern the process in its hand alone.
LEMMA HandTouches ==
  ASSUME Before, NEW p \in Pid, p = hand,
         hand' = hand \/ lts' = "WAIT", UNCHANGED <<endPc, ending, pids, tids>>,
         \A q \in Pid : q # p => tcb'[q] = tcb[q],
         KeepsOthers(p),
         \/ Len(process') = Len(process)
         \/ Len(process') = p + 1 /\ Len(process) = p
  PROVE  \A q \in Pid : q # p => Untouched(q)
<1>1. SUFFICES ASSUME NEW q \in Pid, q # p PROVE Untouched(q)
  OBVIOUS
<1>2. Numbers /\ q \in Nat /\ p \in Nat
  BY BeforeFacts DEF Numbers
<1>3. q < Len(process') <=> q < Len(process)
  BY <1>1, <1>2
<1>4. /\ Known(q)' <=> Known(q)
      /\ Known(q) => Slot(q)' = Slot(q)
  BY <1>1, <1>2 DEF KeepsOthers
<1>5. ~ Holds(q) /\ ~ Holds(q)'
  BY <1>1 DEF Holds, Entering
<1>6. Ends(q)' <=> Ends(q)
  BY DEF Ends
<1>7. QED
  BY <1>1, <1>3, <1>4, <1>5, <1>6 DEF Untouched

LEMMA AcceptedTouches ==
  ASSUME Before, NEW p \in Pid, p = hand, LtsAccepted
  PROVE  Touches(p)
<1>1. /\ lts = "CREATE" /\ lts' = "THREAD" /\ ProcessCreate(p, need[p])
      /\ UNCHANGED <<hand, endPc, ending, pids, tids, tcb>>
  BY DEF LtsAccepted, LtsGoes, pcbVars, endVars
<1>2. p = Len(process) /\ need[p] \in Sizes /\ p \in Nat /\ p < pids /\ Numbers
  <2>1. Waiting
    BY <1>1 DEF Waiting
  <2>2. p = Len(process) /\ need[p] \in Sizes
    BY <2>1, BeforeFacts, InHand
  <2>3. Len(process) + 1 + Len(newList) = pids
    BY <2>1, BeforeFacts DEF Order, Ahead
  <2>4. Len(newList) \in Nat
    BY BeforeFacts, InHand
  <2>5. QED
    BY <2>2, <2>3, <2>4, BeforeFacts DEF Numbers
<1>3. PICK size \in Sizes : size = need[p]
  BY <1>2
<1>4. /\ corrupt = FALSE /\ corrupt' = FALSE
      /\ Len(process') = p + 1 /\ KeepsOthers(p)
      /\ Known(p)' /\ Slot(p)'.count = 0 /\ Slot(p)'.threads = {}
  BY <1>1, <1>2, <1>3, BeforeFacts, CreateSlots
<1>5. \A q \in Pid : q # p => Untouched(q)
  BY <1>1, <1>2, <1>4, HandTouches
<1>6. Stage(p) /\ Fresh(p) /\ Fresh(p)' /\ tids[p] = 1
  <2>1. Stage(p) /\ p >= Len(process)
    BY <1>2, BeforeFacts
  <2>2. Fresh(p) /\ tids[p] = 1
    BY <1>2, <2>1 DEF Stage
  <2>3. QED
    BY <1>1, <2>1, <2>2 DEF Fresh
<1>7. ~ Known(p)
  BY <1>2 DEF Known
<1>8. ~ Ends(p) /\ ~ Ends(p)' /\ Holds(p)' /\ ~ Settled(p)'
  <2>1. ~ Ends(p)
    BY <1>6, <1>7 DEF Stage
  <2>2. QED
    BY <1>1, <2>1 DEF Ends, Holds, Entering, Settled
<1>9. Stage(p)'
  <2>1. ~ (p >= pids') /\ ~ (Len(process') <= p)
    BY <1>1, <1>2, <1>4 DEF Numbers
  <2>2. \A t \in Tid : tcb'[p][t] # "NULL" => t < tids'[p]
    BY <1>1, <1>6 DEF Stage
  <2>3. QED
    BY <1>1, <1>4, <1>6, <1>8, <2>1, <2>2 DEF Stage
<1>10. Count(p)'
  BY <1>1, <1>4, <1>8 DEF Count
<1>11. QED
  BY <1>4, <1>5, <1>9, <1>10 DEF Touches

\* Before the first thread of the process in hand is in READY, or its end.
LEMMA HeldProcess ==
  ASSUME Before, NEW p \in Pid, Holds(p)
  PROVE  /\ Stage(p)
         /\ ~ corrupt => Count(p)
         /\ Known(p) /\ ~ Ends(p) /\ p < Len(process) /\ p < pids
         /\ tids[p] = 1 /\ p \in Nat
         /\ lts = "DESTROY" => Gone(p)
         /\ lts # "DESTROY" => Fresh(p)
<1>1. Stage(p) /\ (~ corrupt => Count(p)) /\ p \in Nat /\ Numbers
      /\ Len(process) <= pids
  BY BeforeFacts DEF Numbers
<1>2. Known(p) /\ ~ Ends(p)
  BY <1>1 DEF Stage
<1>3. p < Len(process) /\ p < pids
  BY <1>1, <1>2 DEF Known, Numbers
<1>4. QED
  BY <1>1, <1>2, <1>3 DEF Stage

LEMMA ThreadTouches ==
  ASSUME Before, NEW p \in Pid, p = hand, LtsThread \/ LtsThreadRefused
  PROVE  Touches(p) /\ (corrupt' => corrupt)
<1>1. /\ lts = "THREAD" /\ lts' \in {"READY", "EXIT"}
      /\ UNCHANGED <<hand, endPc, ending, pids, tids, tcb>>
  BY DEF LtsThread, LtsThreadRefused, LtsGoes, pcbVars, endVars
<1>2. Holds(p) /\ Holds(p)'
  BY <1>1 DEF Holds, Entering
<1>3. /\ Stage(p) /\ Known(p) /\ ~ Ends(p) /\ p < Len(process) /\ p < pids
      /\ tids[p] = 1 /\ p \in Nat /\ Fresh(p) /\ Numbers /\ MemoryTypeOK
      /\ ~ corrupt => Count(p)
  BY <1>1, <1>2, HeldProcess, BeforeFacts
<1>4. /\ Len(process') = Len(process) /\ KeepsOthers(p) /\ Known(p)'
      /\ ~ corrupt' => ~ corrupt /\ Count(p)'
      /\ corrupt' => corrupt
  <2>1. ~ Settled(p)'
    BY <1>2 DEF Settled
  <2>2. CASE LtsThread
    <3>1. lts' = "READY" /\ ThreadCreate(p, 0)
      BY <2>2 DEF LtsThread, LtsGoes
    <3>2. /\ corrupt = FALSE /\ corrupt' = (0 > Slot(p).count)
          /\ Len(process') = Len(process) /\ KeepsOthers(p) /\ Known(p)'
          /\ Slot(p)'.count = Slot(p).count + 1
          /\ Slot(p)'.threads = Slot(p).threads \cup {0}
      BY <1>3, <3>1, ThreadCreateSlots DEF Numbers
    <3>3. Slot(p).count = 0 /\ Slot(p).threads = {}
      BY <1>1, <1>2, <1>3, <3>2 DEF Count
    <3>4. Slot(p)'.count = 1 /\ Slot(p)'.threads = {0} /\ ~ corrupt'
      <4>1. 0 + 1 = 1 /\ {} \cup {0} = {0} /\ ~ (0 > 0)
        OBVIOUS
      <4>2. QED
        BY <3>2, <3>3, <4>1
    <3>5. Count(p)'
      BY <2>1, <3>1, <3>4 DEF Count
    <3>6. QED
      BY <3>2, <3>4, <3>5
  <2>3. CASE LtsThreadRefused
    <3>1. lts' = "EXIT" /\ UNCHANGED <<process, corrupt>>
      BY <2>3 DEF LtsThreadRefused, LtsGoes, memVars
    <3>2. Slot(p)' = Slot(p) /\ Known(p)' /\ KeepsOthers(p)
      BY <1>3, <3>1 DEF Slot, Known, KeepsOthers
    <3>3. ~ corrupt => Count(p)'
      BY <1>1, <1>2, <1>3, <2>1, <3>1, <3>2 DEF Count
    <3>4. QED
      BY <3>1, <3>2, <3>3
  <2>4. QED
    BY <2>2, <2>3
<1>5. \A q \in Pid : q # p => Untouched(q)
  <2>1. KeepsOthers(p) /\ Len(process') = Len(process)
    BY <1>4
  <2>2. QED
    BY <1>1, <2>1, HandTouches
<1>6. Stage(p)'
  <2>1. Fresh(p)' /\ ~ Ends(p)' /\ ~ Settled(p)'
    BY <1>1, <1>2, <1>3 DEF Fresh, Ends, Settled
  <2>2. ~ (p >= pids') /\ ~ (Len(process') <= p)
    BY <1>1, <1>3, <1>4 DEF Numbers
  <2>3. \A t \in Tid : tcb'[p][t] # "NULL" => t < tids'[p]
    BY <1>1, <1>3 DEF Stage
  <2>4. QED
    BY <1>1, <1>2, <1>3, <1>4, <2>1, <2>2, <2>3 DEF Stage
<1>7. QED
  BY <1>4, <1>5, <1>6 DEF Touches

LEMMA ReadyTouches ==
  ASSUME Before, NEW p \in Pid, p = hand, LtsReady
  PROVE  Touches(p) /\ corrupt' = corrupt
<1>1. /\ lts = "READY" /\ lts' = "WAIT" /\ tcb' = [tcb EXCEPT ![p][0] = "LIVE"]
      /\ UNCHANGED <<process, corrupt, endPc, ending, pids, tids>>
  BY DEF LtsReady, LtsGoes, memVars, endVars
<1>2. Holds(p) /\ ~ Holds(p)'
  BY <1>1 DEF Holds, Entering
<1>3. /\ Stage(p) /\ Known(p) /\ ~ Ends(p) /\ p < Len(process) /\ p < pids
      /\ tids[p] = 1 /\ p \in Nat /\ Fresh(p) /\ Numbers
      /\ tcb \in [Pid -> [Tid -> {"NULL", "NEW", "LIVE"}]]
      /\ ~ corrupt => Count(p)
  BY <1>1, <1>2, HeldProcess, BeforeFacts
<1>4. /\ tcb'[p][0] = "LIVE"
      /\ \A u \in Tid : u # 0 => tcb'[p][u] = "NULL"
      /\ \A q \in Pid : q # p => tcb'[q] = tcb[q]
  BY <1>1, <1>3, TcbWritten DEF Numbers, Fresh
<1>5. /\ Known(p)' /\ KeepsOthers(p) /\ ~ Ends(p)' /\ Slot(p)' = Slot(p)
      /\ Settled(p)'
  BY <1>1, <1>2, <1>3 DEF Known, Slot, KeepsOthers, Ends, Settled
<1>6. \A q \in Pid : q # p => Untouched(q)
  BY <1>1, <1>4, <1>5, HandTouches
<1>7. Stage(p)'
  <2>1. ~ Gone(p)' /\ tcb'[p][0] # "NEW"
    BY <1>3, <1>4 DEF Gone, Numbers
  <2>2. ~ (p >= pids') /\ ~ (Len(process') <= p) /\ ~ (p >= Len(process'))
    BY <1>1, <1>3 DEF Numbers
  <2>3. \A t \in Tid : tcb'[p][t] # "NULL" => t < tids'[p]
    BY <1>1, <1>3, <1>4
  <2>4. QED
    BY <1>2, <1>5, <2>1, <2>2, <2>3 DEF Stage
<1>8. ASSUME ~ corrupt PROVE Count(p)'
  <2>1. Slot(p)'.threads = {0} /\ Slot(p)'.count = 1 /\ tids'[p] = 1
    BY <1>1, <1>2, <1>3, <1>5, <1>8 DEF Count
  <2>2. LiveThreads(p)' = {0}
    BY <1>3, <1>4 DEF LiveThreads, Numbers
  <2>3. \A t \in LiveThreads(p)' : t < Slot(p)'.count
    BY <2>1, <2>2
  <2>4. QED
    BY <1>2, <2>1, <2>2, <2>3 DEF Count
<1>9. QED
  BY <1>1, <1>6, <1>7, <1>8 DEF Touches

LEMMA ExitTouches ==
  ASSUME Before, NEW p \in Pid, p = hand, LtsExit
  PROVE  Touches(p) /\ corrupt' = corrupt
<1>1. /\ lts = "EXIT" /\ lts' = "DESTROY" /\ tcb' = [tcb EXCEPT ![p][0] = "NULL"]
      /\ ThreadDestroy(p, 0) /\ UNCHANGED <<hand, endPc, ending, pids, tids>>
  BY DEF LtsExit, LtsGoes, endVars
<1>2. Holds(p) /\ Holds(p)'
  BY <1>1 DEF Holds, Entering
<1>3. /\ Stage(p) /\ Known(p) /\ ~ Ends(p) /\ p < Len(process) /\ p < pids
      /\ tids[p] = 1 /\ p \in Nat /\ Fresh(p) /\ Numbers /\ MemoryTypeOK
      /\ tcb \in [Pid -> [Tid -> {"NULL", "NEW", "LIVE"}]]
  BY <1>1, <1>2, HeldProcess, BeforeFacts
<1>4. /\ Gone(p)'
      /\ \A q \in Pid : q # p => tcb'[q] = tcb[q]
  <2>1. /\ tcb'[p][0] = "NULL"
        /\ \A u \in Tid : u # 0 => tcb'[p][u] = "NULL"
        /\ \A q \in Pid : q # p => tcb'[q] = tcb[q]
    BY <1>1, <1>3, TcbWritten DEF Numbers, Fresh
  <2>2. QED
    BY <2>1 DEF Gone
<1>5. /\ corrupt = FALSE /\ corrupt' = FALSE
      /\ Len(process') = Len(process) /\ KeepsOthers(p) /\ Known(p)'
  BY <1>1, <1>3, ThreadDestroySlots DEF Numbers
<1>6. \A q \in Pid : q # p => Untouched(q)
  BY <1>1, <1>4, <1>5, HandTouches
<1>7. Stage(p)'
  <2>1. ~ Ends(p)' /\ ~ Settled(p)'
    BY <1>1, <1>2, <1>3 DEF Ends, Settled
  <2>2. ~ (p >= pids') /\ ~ (Len(process') <= p)
    BY <1>1, <1>3, <1>5 DEF Numbers
  <2>3. \A t \in Tid : tcb'[p][t] # "NULL" => t < tids'[p]
    BY <1>4 DEF Gone
  <2>4. QED
    BY <1>1, <1>2, <1>3, <1>4, <1>5, <2>1, <2>2, <2>3 DEF Stage
<1>8. Count(p)'
  BY <1>1, <1>2 DEF Count, Settled
<1>9. QED
  BY <1>5, <1>6, <1>7, <1>8 DEF Touches

\* The last step of the end of a process whose thread 0 was refused.
LEMMA DestroyTouches ==
  ASSUME Before, NEW p \in Pid, p = hand, LtsDestroy
  PROVE  Touches(p) /\ corrupt' = corrupt
<1>1. /\ lts = "DESTROY" /\ lts' = "SIGNAL" /\ ProcessDestroy(p)
      /\ UNCHANGED <<hand, endPc, ending, pids, tids, tcb>>
  BY DEF LtsDestroy, LtsGoes, pcbVars, endVars
<1>2. Holds(p) /\ ~ Holds(p)'
  BY <1>1 DEF Holds, Entering
<1>3. /\ Stage(p) /\ ~ Ends(p) /\ p < Len(process) /\ p < pids
      /\ p \in Nat /\ Gone(p) /\ Numbers /\ MemoryTypeOK
  BY <1>1, <1>2, HeldProcess, BeforeFacts
<1>4. /\ corrupt = FALSE /\ corrupt' = FALSE
      /\ Len(process') = Len(process) /\ KeepsOthers(p) /\ ~ Known(p)'
  BY <1>1, <1>3, DestroySlots
<1>5. \A q \in Pid : q # p => Untouched(q)
  BY <1>1, <1>4, HandTouches
<1>6. Gone(p)' /\ ~ Ends(p)'
  BY <1>1, <1>3 DEF Gone, Ends
<1>7. Stage(p)'
  <2>1. ~ (Len(process') <= p) /\ ~ (p >= Len(process'))
    BY <1>3, <1>4 DEF Numbers
  <2>2. \A t \in Tid : tcb'[p][t] # "NULL" => t < tids'[p]
    BY <1>6 DEF Gone
  <2>3. QED
    BY <1>2, <1>4, <1>6, <2>1, <2>2 DEF Stage
<1>8. Count(p)'
  BY <1>2, <1>4 DEF Count
<1>9. QED
  BY <1>4, <1>5, <1>7, <1>8 DEF Touches

LEMMA EndTouches ==
  ASSUME Before, NEW p \in Pid, p = ending, EndDestroy
  PROVE  Touches(p) /\ corrupt' = corrupt
<1>1. /\ endPc = "DESTROY" /\ endPc' = "SIGNAL" /\ ProcessDestroy(p)
      /\ UNCHANGED <<hand, lts, pids, tids, tcb>>
  BY DEF EndDestroy, pcbVars, ltsVars
<1>2. /\ Stage(p) /\ Ends(p) /\ Numbers /\ MemoryTypeOK /\ p \in Nat
      /\ Len(process) <= pids
  BY <1>1, BeforeFacts DEF Ends, Numbers
<1>3. Gone(p) /\ ~ Holds(p) /\ Known(p)
  BY <1>2 DEF Stage
<1>4. /\ corrupt = FALSE /\ corrupt' = FALSE
      /\ Len(process') = Len(process) /\ KeepsOthers(p) /\ ~ Known(p)'
  BY <1>1, <1>2, DestroySlots
<1>5. \A q \in Pid : Holds(q)' <=> Holds(q)
  BY <1>1 DEF Holds, Entering
<1>6. ASSUME NEW q \in Pid, q # p PROVE Untouched(q)
  <2>1. ~ Ends(q) /\ ~ Ends(q)'
    BY <1>1, <1>6 DEF Ends
  <2>2. q \in Nat
    BY <1>2 DEF Numbers
  <2>3. /\ Known(q)' <=> Known(q)
        /\ Known(q) => Slot(q)' = Slot(q)
    BY <1>4, <1>6, <2>2 DEF KeepsOthers
  <2>4. QED
    BY <1>1, <1>4, <1>5, <2>1, <2>3 DEF Untouched
<1>7. Stage(p)'
  <2>1. Gone(p)' /\ ~ Ends(p)' /\ ~ Holds(p)'
    BY <1>1, <1>3, <1>5 DEF Gone, Ends
  <2>2. ~ (Len(process') <= p) /\ ~ (p >= Len(process'))
    BY <1>2, <1>3, <1>4 DEF Known, Numbers
  <2>3. \A t \in Tid : tcb'[p][t] # "NULL" => t < tids'[p]
    BY <2>1 DEF Gone
  <2>4. QED
    BY <1>4, <2>1, <2>2, <2>3 DEF Stage
<1>8. Count(p)'
  BY <1>3, <1>4, <1>5 DEF Count
<1>9. QED
  BY <1>4, <1>6, <1>7, <1>8 DEF Touches

LEMMA NewTouches ==
  ASSUME Before, NEW p \in Pid, p = pids, NEW size \in Sizes, NewProcess(size)
  PROVE  Touches(p) /\ corrupt' = corrupt
<1>1. /\ pids' = p + 1 /\ tids' = [tids EXCEPT ![p] = 1]
      /\ tcb' = [tcb EXCEPT ![p][0] = "NEW"]
      /\ UNCHANGED <<process, corrupt, lts, hand, endPc, ending>>
  BY DEF NewProcess, memVars, ltsVars, endVars
<1>2. /\ Stage(p) /\ Numbers /\ p \in Nat /\ Len(process) <= p
      /\ tcb \in [Pid -> [Tid -> {"NULL", "NEW", "LIVE"}]]
      /\ tids \in [Pid -> 0 .. MaxTid + 1]
  BY BeforeFacts DEF Numbers
<1>3. ~ Known(p) /\ ~ Ends(p) /\ ~ Holds(p) /\ Gone(p)
  BY <1>2 DEF Stage, Known, Numbers
<1>4. /\ tcb'[p][0] = "NEW" /\ tids'[p] = 1
      /\ \A u \in Tid : u # 0 => tcb'[p][u] = "NULL"
      /\ \A q \in Pid : q # p => tcb'[q] = tcb[q] /\ tids'[q] = tids[q]
  BY <1>1, <1>2, <1>3, TcbWritten DEF Numbers, Gone
<1>5. \A q \in Pid : /\ Known(q)' <=> Known(q)
                     /\ Slot(q)' = Slot(q)
                     /\ Ends(q)' <=> Ends(q)
                     /\ Holds(q)' <=> Holds(q)
  BY <1>1 DEF Known, Slot, Ends, Holds, Entering
<1>6. ASSUME NEW q \in Pid, q # p PROVE Untouched(q)
  <2>1. q < pids' <=> q < pids
    BY <1>1, <1>2, <1>6 DEF Numbers
  <2>2. QED
    BY <1>1, <1>4, <1>5, <1>6, <2>1 DEF Untouched
<1>7. Stage(p)'
  <2>1. Fresh(p)'
    BY <1>4 DEF Fresh
  <2>2. ~ (p >= pids') /\ ~ Settled(p)'
    BY <1>1, <1>2 DEF Settled, Numbers
  <2>3. \A t \in Tid : tcb'[p][t] # "NULL" => t < tids'[p]
    BY <1>4
  <2>4. QED
    BY <1>3, <1>4, <1>5, <2>1, <2>2, <2>3 DEF Stage
<1>8. Count(p)'
  BY <1>3, <1>5 DEF Count
<1>9. QED
  BY <1>1, <1>6, <1>7, <1>8 DEF Touches

\* The calls of a running process concern that process alone.
LEMMA CallTouches ==
  ASSUME Before, NEW p \in Pid,
         UNCHANGED <<pids, lts, hand>>, endPc = "IDLE",
         endPc' = "DESTROY" => ending' = p,
         Len(process') = Len(process), KeepsOthers(p),
         \A q \in Pid : q # p => tcb'[q] = tcb[q] /\ tids'[q] = tids[q]
  PROVE  \A q \in Pid : /\ Holds(q)' <=> Holds(q)
                        /\ q # p => Untouched(q)
<1>1. SUFFICES ASSUME NEW q \in Pid
               PROVE  /\ Holds(q)' <=> Holds(q)
                      /\ q # p => Untouched(q)
  OBVIOUS
<1>2. Holds(q)' <=> Holds(q)
  BY DEF Holds, Entering
<1>3. ASSUME q # p PROVE Untouched(q)
  <2>1. ~ Ends(q) /\ ~ Ends(q)'
    BY <1>3 DEF Ends
  <2>2. q \in Nat
    BY BeforeFacts DEF Numbers
  <2>3. /\ Known(q)' <=> Known(q)
        /\ Known(q) => Slot(q)' = Slot(q)
    BY <1>3, <2>2 DEF KeepsOthers
  <2>4. QED
    BY <1>2, <1>3, <2>1, <2>3 DEF Untouched
<1>4. QED
  BY <1>2, <1>3

\* The process whose thread runs, and its slot.
LEMMA Caller ==
  ASSUME Before, NEW p \in Pid, Runs(p)
  PROVE  /\ Stage(p) /\ p < Len(process) /\ p < pids /\ ~ Ends(p) /\ ~ Holds(p)
         /\ Known(p) /\ tcb[p][0] # "NEW" /\ tids[p] > 0 /\ p \in Nat
         /\ Settled(p) /\ Numbers /\ MemoryTypeOK
         /\ tcb \in [Pid -> [Tid -> {"NULL", "NEW", "LIVE"}]]
         /\ tids \in [Pid -> 0 .. MaxTid + 1]
         /\ Slot(p).count \in Nat
         /\ \A t \in Tid : tcb[p][t] # "NULL" => t < tids[p]
         /\ ~ corrupt =>
              /\ Slot(p).threads = LiveThreads(p)
              /\ \A t \in LiveThreads(p) : t < Slot(p).count
              /\ (\A t \in Tid : tcb[p][t] # "NEW") => Slot(p).count = tids[p]
<1>1. Base /\ Stage(p) /\ (~ corrupt => Count(p)) /\ Numbers /\ MemoryTypeOK
      /\ tcb \in [Pid -> [Tid -> {"NULL", "NEW", "LIVE"}]]
      /\ tids \in [Pid -> 0 .. MaxTid + 1] /\ p \in Nat
  BY BeforeFacts DEF Numbers
<1>2. /\ p < Len(process) /\ p < pids /\ ~ Ends(p) /\ ~ Holds(p)
      /\ Known(p) /\ tcb[p][0] # "NEW" /\ tids[p] > 0 /\ Settled(p)
  BY <1>1, RunsSettled DEF Settled
<1>3. Slot(p).count \in Nat
  <2>1. Slot(p) \in MemoryProcess
    BY <1>1, <1>2, SlotIsProcess
  <2>2. QED
    BY <2>1 DEF MemoryProcess
<1>4. QED
  BY <1>1, <1>2, <1>3 DEF Stage, Count

LEMMA CreatedTouches ==
  ASSUME Before, NEW p \in Pid, ThreadCreated(p)
  PROVE  Touches(p) /\ (corrupt' => Refused')
<1>1. /\ Runs(p) /\ tids[p] <= MaxTid /\ endPc = "IDLE"
      /\ tids' = [tids EXCEPT ![p] = @ + 1]
      /\ tcb' = [tcb EXCEPT ![p][tids[p]] = "LIVE"]
      /\ ThreadCreate(p, tids[p])
      /\ UNCHANGED <<pids, lts, hand, endPc, ending>>
  BY DEF ThreadCreated, Handling, ltsVars, endVars
<1>2. /\ Stage(p) /\ p < Len(process) /\ p < pids /\ ~ Ends(p) /\ ~ Holds(p)
      /\ Known(p) /\ tcb[p][0] # "NEW" /\ tids[p] > 0 /\ p \in Nat
      /\ Settled(p) /\ Numbers /\ MemoryTypeOK
      /\ tcb \in [Pid -> [Tid -> {"NULL", "NEW", "LIVE"}]]
      /\ tids \in [Pid -> 0 .. MaxTid + 1]
      /\ Slot(p).count \in Nat
      /\ \A t \in Tid : tcb[p][t] # "NULL" => t < tids[p]
  BY <1>1, Caller
<1>3. PICK n \in Tid : n = tids[p]
  BY <1>1, <1>2 DEF Tid
<1>4. /\ corrupt = FALSE /\ corrupt' = (n > Slot(p).count)
      /\ Len(process') = Len(process) /\ KeepsOthers(p) /\ Known(p)'
      /\ Slot(p)'.count = Slot(p).count + 1
      /\ Slot(p)'.threads = Slot(p).threads \cup {n}
  BY <1>1, <1>2, <1>3, ThreadCreateSlots
<1>5. /\ Slot(p).threads = LiveThreads(p)
      /\ \A t \in LiveThreads(p) : t < Slot(p).count
      /\ (\A t \in Tid : tcb[p][t] # "NEW") => Slot(p).count = n
  BY <1>1, <1>3, <1>4, Caller
<1>6. /\ tids'[p] = n + 1 /\ tcb'[p][n] = "LIVE" /\ n # 0 /\ n \in Nat
      /\ tcb[p][n] = "NULL"
      /\ \A u \in Tid : u # n => tcb'[p][u] = tcb[p][u]
      /\ \A q \in Pid : q # p => tcb'[q] = tcb[q] /\ tids'[q] = tids[q]
  BY <1>1, <1>2, <1>3, TcbWritten DEF Numbers
<1>7. \A q \in Pid : /\ Holds(q)' <=> Holds(q)
                     /\ q # p => Untouched(q)
  BY <1>1, <1>4, <1>6, CallTouches
<1>8. ~ Ends(p)' /\ ~ Holds(p)' /\ Settled(p)'
  BY <1>1, <1>2, <1>4, <1>7 DEF Ends, Settled
<1>9. Stage(p)'
  <2>1. ~ Gone(p)' /\ tcb'[p][0] # "NEW"
    BY <1>2, <1>6 DEF Gone, Numbers
  <2>2. ~ (p >= pids') /\ ~ (Len(process') <= p) /\ ~ (p >= Len(process'))
    BY <1>1, <1>2, <1>4 DEF Numbers
  <2>3. \A t \in Tid : tcb'[p][t] # "NULL" => t < tids'[p]
    <3>1. SUFFICES ASSUME NEW t \in Tid, tcb'[p][t] # "NULL"
                   PROVE  t < n + 1
      BY <1>6
    <3>2. t = n \/ t < n
      BY <1>2, <1>3, <1>6, <3>1
    <3>3. t \in Nat
      BY <1>2 DEF Numbers
    <3>4. QED
      BY <1>6, <3>2, <3>3
  <2>4. QED
    BY <1>4, <1>8, <2>1, <2>2, <2>3 DEF Stage
<1>10. LiveThreads(p)' = LiveThreads(p) \cup {n}
  BY <1>6 DEF LiveThreads
<1>11. ASSUME ~ corrupt' PROVE Count(p)'
  <2>1. n < Slot(p)'.count
    <3>1. ~ (n > Slot(p).count)
      BY <1>4, <1>11
    <3>2. n < Slot(p).count + 1
      BY <1>2, <1>6, <3>1
    <3>3. QED
      BY <1>4, <3>2
  <2>2. \A t \in LiveThreads(p)' : t < Slot(p)'.count
    <3>1. SUFFICES ASSUME NEW t \in LiveThreads(p), t < Slot(p).count
                   PROVE  t < Slot(p).count + 1
      BY <1>4, <1>5, <1>10, <2>1
    <3>2. t \in Nat
      BY <1>2 DEF LiveThreads, Numbers
    <3>3. QED
      BY <1>2, <3>1, <3>2
  <2>3. ASSUME \A t \in Tid : tcb'[p][t] # "NEW"
        PROVE  Slot(p)'.count = tids'[p]
    <3>1. \A t \in Tid : tcb[p][t] # "NEW"
      BY <1>6, <2>3
    <3>2. QED
      BY <1>4, <1>5, <1>6, <3>1
  <2>4. QED
    BY <1>4, <1>5, <1>8, <1>10, <2>2, <2>3 DEF Count
<1>12. ASSUME corrupt' PROVE Refused'
  <2>1. Slot(p).count # n
    <3>1. n > Slot(p).count
      BY <1>4, <1>12
    <3>2. QED
      BY <1>2, <1>6, <3>1
  <2>2. PICK t \in Tid : tcb[p][t] = "NEW"
    BY <1>5, <2>1
  <2>3. t # 0 /\ tcb'[p][t] = "NEW"
    BY <1>2, <1>6, <2>2
  <2>4. QED
    BY <2>3 DEF Refused
<1>13. QED
  BY <1>4, <1>7, <1>9, <1>11, <1>12 DEF Touches

LEMMA RefusedTouches ==
  ASSUME Before, NEW p \in Pid, ThreadRefused(p)
  PROVE  Touches(p) /\ corrupt' = corrupt
<1>1. /\ Runs(p) /\ tids[p] <= MaxTid /\ endPc = "IDLE"
      /\ tids' = [tids EXCEPT ![p] = @ + 1]
      /\ tcb' = [tcb EXCEPT ![p][tids[p]] = "NEW"]
      /\ UNCHANGED <<process, corrupt, pids, lts, hand, endPc, ending>>
  BY DEF ThreadRefused, Handling, memVars, ltsVars, endVars
<1>2. /\ Stage(p) /\ p < Len(process) /\ p < pids /\ ~ Ends(p) /\ ~ Holds(p)
      /\ Known(p) /\ tcb[p][0] # "NEW" /\ tids[p] > 0 /\ p \in Nat
      /\ Settled(p) /\ Numbers
      /\ tcb \in [Pid -> [Tid -> {"NULL", "NEW", "LIVE"}]]
      /\ tids \in [Pid -> 0 .. MaxTid + 1]
      /\ \A t \in Tid : tcb[p][t] # "NULL" => t < tids[p]
  BY <1>1, Caller
<1>3. PICK n \in Tid : n = tids[p]
  BY <1>1, <1>2 DEF Tid
<1>4. /\ tids'[p] = n + 1 /\ tcb'[p][n] = "NEW" /\ n # 0 /\ n \in Nat
      /\ tcb[p][n] = "NULL"
      /\ \A u \in Tid : u # n => tcb'[p][u] = tcb[p][u]
      /\ \A q \in Pid : q # p => tcb'[q] = tcb[q] /\ tids'[q] = tids[q]
  BY <1>1, <1>2, <1>3, TcbWritten DEF Numbers
<1>5. Known(p)' /\ Slot(p)' = Slot(p) /\ KeepsOthers(p)
  BY <1>1, <1>2 DEF Known, Slot, KeepsOthers
<1>6. \A q \in Pid : /\ Holds(q)' <=> Holds(q)
                     /\ q # p => Untouched(q)
  BY <1>1, <1>4, <1>5, CallTouches
<1>7. ~ Ends(p)' /\ ~ Holds(p)' /\ Settled(p)'
  BY <1>1, <1>2, <1>6 DEF Ends, Settled
<1>8. Stage(p)'
  <2>1. ~ Gone(p)' /\ tcb'[p][0] # "NEW"
    BY <1>2, <1>4 DEF Gone, Numbers
  <2>2. ~ (p >= pids') /\ ~ (Len(process') <= p) /\ ~ (p >= Len(process'))
    BY <1>1, <1>2 DEF Numbers
  <2>3. \A t \in Tid : tcb'[p][t] # "NULL" => t < tids'[p]
    BY <1>2, <1>3, <1>4 DEF Numbers
  <2>4. QED
    BY <1>5, <1>7, <2>1, <2>2, <2>3 DEF Stage
<1>9. ASSUME ~ corrupt PROVE Count(p)'
  <2>1. LiveThreads(p)' = LiveThreads(p)
    BY <1>4 DEF LiveThreads
  <2>2. /\ Slot(p).threads = LiveThreads(p)
        /\ \A t \in LiveThreads(p) : t < Slot(p).count
    BY <1>1, <1>9, Caller
  <2>3. QED
    BY <1>4, <1>5, <1>7, <2>1, <2>2 DEF Count
<1>10. QED
  BY <1>1, <1>6, <1>8, <1>9 DEF Touches

LEMMA ExitsTouches ==
  ASSUME Before, NEW p \in Pid, NEW t \in Tid, NEW writes \in BOOLEAN,
         ThreadExits(p, t, writes)
  PROVE  Touches(p) /\ corrupt' = corrupt
<1>1. /\ tcb[p][t] = "LIVE" /\ endPc = "IDLE"
      /\ tcb' = [tcb EXCEPT ![p][t] = "NULL"] /\ ThreadDestroy(p, t)
      /\ UNCHANGED <<pids, tids, lts, hand>>
      /\ Counter(p) = 1 => ending' = p /\ endPc' = "DESTROY"
      /\ Counter(p) # 1 => ending' = ending /\ endPc' = endPc
  BY DEF ThreadExits, Handling, LastThread, ltsVars, endVars
<1>2. Runs(p)
  BY <1>1 DEF Runs
<1>3. /\ Stage(p) /\ p < Len(process) /\ p < pids /\ ~ Ends(p) /\ ~ Holds(p)
      /\ Known(p) /\ tcb[p][0] # "NEW" /\ p \in Nat
      /\ Settled(p) /\ Numbers /\ MemoryTypeOK
      /\ tcb \in [Pid -> [Tid -> {"NULL", "NEW", "LIVE"}]]
      /\ \A u \in Tid : tcb[p][u] # "NULL" => u < tids[p]
  BY <1>2, Caller
<1>4. /\ tcb'[p][t] = "NULL"
      /\ \A u \in Tid : u # t => tcb'[p][u] = tcb[p][u]
      /\ \A q \in Pid : q # p => tcb'[q] = tcb[q]
  BY <1>1, <1>3, TcbWritten
<1>5. /\ corrupt = FALSE /\ corrupt' = FALSE
      /\ Len(process') = Len(process) /\ KeepsOthers(p) /\ Known(p)'
      /\ Slot(p)'.count = Slot(p).count
      /\ t < Slot(p).count => Slot(p)'.threads = Slot(p).threads \ {t}
  BY <1>1, <1>3, ThreadDestroySlots
<1>6. \A q \in Pid : /\ Holds(q)' <=> Holds(q)
                     /\ q # p => Untouched(q)
  <2>1. endPc' = "DESTROY" => ending' = p
    BY <1>1
  <2>2. QED
    BY <1>1, <1>4, <1>5, <2>1, CallTouches
<1>7. ~ Holds(p)' /\ ~ (p >= pids') /\ ~ (Len(process') <= p)
      /\ ~ (p >= Len(process')) /\ p < Len(process')
  BY <1>1, <1>3, <1>5, <1>6 DEF Numbers
<1>8. \A u \in Tid : tcb'[p][u] # "NULL" => u < tids'[p]
  BY <1>1, <1>3, <1>4
<1>9. CASE Counter(p) = 1
  <2>1. Gone(p)'
    BY <1>1, <1>4, <1>9, CounterIs DEF Gone
  <2>2. Ends(p)' /\ ~ Settled(p)'
    BY <1>1, <1>9 DEF Ends, Settled
  <2>3. Stage(p)'
    BY <1>5, <1>7, <1>8, <2>1, <2>2 DEF Stage
  <2>4. Count(p)'
    BY <1>7, <2>2 DEF Count
  <2>5. QED
    BY <1>5, <1>6, <2>3, <2>4 DEF Touches
<1>10. CASE Counter(p) # 1
  <2>1. ~ Gone(p)' /\ tcb'[p][0] # "NEW"
    <3>1. PICK u \in Tid : u # t /\ tcb[p][u] # "NULL"
      BY <1>1, <1>10, CounterIs
    <3>2. tcb'[p][u] # "NULL"
      BY <1>4, <3>1
    <3>3. tcb'[p][0] # "NEW"
      BY <1>3, <1>4 DEF Numbers
    <3>4. QED
      BY <3>2, <3>3 DEF Gone
  <2>2. ~ Ends(p)' /\ Settled(p)'
    BY <1>1, <1>7, <1>10 DEF Ends, Settled
  <2>3. Stage(p)'
    BY <1>5, <1>7, <1>8, <2>1, <2>2 DEF Stage
  <2>4. Count(p)'
    <3>1. /\ Slot(p).threads = LiveThreads(p)
          /\ \A u \in LiveThreads(p) : u < Slot(p).count
          /\ (\A u \in Tid : tcb[p][u] # "NEW") => Slot(p).count = tids[p]
      BY <1>2, <1>5, Caller
    <3>2. LiveThreads(p)' = LiveThreads(p) \ {t} /\ t \in LiveThreads(p)
      BY <1>1, <1>4 DEF LiveThreads
    <3>3. Slot(p)'.threads = LiveThreads(p)'
      BY <1>5, <3>1, <3>2
    <3>4. \A u \in LiveThreads(p)' : u < Slot(p)'.count
      BY <1>5, <3>1, <3>2
    <3>5. (\A u \in Tid : tcb'[p][u] # "NEW") => Slot(p)'.count = tids'[p]
      <4>1. (\A u \in Tid : tcb'[p][u] # "NEW") => \A u \in Tid : tcb[p][u] # "NEW"
        BY <1>1, <1>4
      <4>2. QED
        BY <1>1, <1>5, <3>1, <4>1
    <3>6. QED
      BY <1>7, <3>3, <3>4, <3>5 DEF Count
  <2>5. QED
    BY <1>5, <1>6, <2>3, <2>4 DEF Touches
<1>11. QED
  BY <1>5, <1>9, <1>10

LEMMA StagesKept == Before /\ Next => Stages' /\ Counts'
<1> SUFFICES ASSUME Before, Next PROVE Stages' /\ Counts'
  OBVIOUS
<1>1. /\ Base /\ Base' /\ Stages /\ Counts /\ Numbers
      /\ lts \notin {"WAIT", "SEM", "GET"} => hand \in Pid
      /\ endPc = "DESTROY" => ending \in Pid
  BY BeforeFacts
<1>2. /\ corrupt => Refused
      /\ Refused => Refused'
  BY <1>1, RefusedStays DEF Counts
<1>3. ASSUME NEW p \in Pid, Touches(p), corrupt' => corrupt \/ Refused'
      PROVE  Stages' /\ Counts'
  BY <1>1, <1>2, <1>3, TouchesKeeps
<1>4. CASE \/ LtsWait \/ LtsSem \/ LtsGet \/ LtsRefused \/ LtsFull \/ LtsReinsert
           \/ LtsSignal \/ EndSignal
  <2>1. corrupt' = corrupt /\ \A q \in Pid : Untouched(q)
    BY <1>4, PlainSteps
  <2>2. QED
    BY <1>1, <1>2, <2>1, UntouchedKeeps
<1>5. CASE \/ LtsAccepted \/ LtsThread \/ LtsThreadRefused \/ LtsReady \/ LtsExit
           \/ LtsDestroy
  <2>1. hand \in Pid
    BY <1>1, <1>5 DEF LtsAccepted, LtsThread, LtsThreadRefused, LtsReady, LtsExit,
                      LtsDestroy, LtsGoes
  <2>2. PICK p \in Pid : p = hand
    BY <2>1
  <2>3. Touches(p)
    BY <1>5, <2>2, AcceptedTouches, ThreadTouches, ReadyTouches, ExitTouches,
       DestroyTouches
  <2>4. corrupt' => corrupt
    <3>1. CASE LtsAccepted
      BY <3>1 DEF LtsAccepted, ProcessCreate
    <3>2. CASE ~ LtsAccepted
      BY <1>5, <2>2, <3>2, ThreadTouches, ReadyTouches, ExitTouches, DestroyTouches
    <3>3. QED
      BY <3>1, <3>2
  <2>5. QED
    BY <1>3, <2>3, <2>4
<1>6. CASE EndDestroy
  <2>1. PICK p \in Pid : p = ending
    BY <1>1, <1>6 DEF EndDestroy
  <2>2. QED
    BY <1>3, <1>6, <2>1, EndTouches
<1>7. ASSUME NEW size \in Sizes, NewProcess(size)
      PROVE  Stages' /\ Counts'
  <2>1. pids \in Pid
    <3>1. pids < MaxProcesses /\ pids \in Nat
      BY <1>1, <1>7 DEF NewProcess, Numbers
    <3>2. MaxProcesses \in Nat
      BY MemoryAssumption
    <3>3. QED
      BY <3>1, <3>2 DEF Pid
  <2>2. PICK p \in Pid : p = pids
    BY <2>1
  <2>3. QED
    BY <1>3, <1>7, <2>2, NewTouches
<1>8. ASSUME NEW p \in Pid, ThreadCreated(p) \/ ThreadRefused(p)
      PROVE  Stages' /\ Counts'
  BY <1>3, <1>8, CreatedTouches, RefusedTouches
<1>9. ASSUME NEW p \in Pid, NEW t \in Tid, NEW writes \in BOOLEAN,
             ThreadExits(p, t, writes)
      PROVE  Stages' /\ Counts'
  BY <1>3, <1>9, ExitsTouches
<1>10. QED
  BY <1>4, <1>5, <1>6, <1>7, <1>8, <1>9 DEF Next, LtsStep, EndStep

-----------------------------------------------------------------------------
(* The theorems *)

LEMMA InitInv == Init => IInv
<1> SUFFICES ASSUME Init PROVE IInv
  OBVIOUS
<1>1. /\ MemoryInv /\ MemoryTypeOK /\ process = <<>> /\ corrupt = FALSE
      /\ pids = 0 /\ newList = <<>> /\ semNew = 0 /\ freeMemory = TRUE
      /\ lts = "WAIT" /\ hand = NoPid /\ ending = NoPid /\ endPc = "IDLE"
      /\ need = [p \in Pid |-> 0] /\ tids = [p \in Pid |-> 0]
      /\ tcb = [p \in Pid |-> [t \in Tid |-> "NULL"]]
      /\ endWrites = FALSE /\ overwritten = FALSE
  BY MemoryInitInv DEF Init, MemoryInit, MemoryInv
<1>2. MaxProcesses \in Nat /\ MaxTid \in Nat /\ \A p \in Pid : p \in Nat
  BY MemoryAssumption DEF Pid
<1>3. TypeOK
  <2>1. newList \in Seq(Pid)
    BY <1>1, EmptySeq
  <2>2. 0 \in 0 .. MaxProcesses /\ 0 \in 0 .. MaxTid + 1
    BY <1>2
  <2>3. QED
    BY <1>1, <2>1, <2>2 DEF TypeOK
<1>4. Base
  BY <1>1, <1>2, <1>3 DEF Base, Held, Needs
<1>5. Len(process) = 0 /\ Len(newList) = 0 /\ 1 .. 0 = {}
  BY <1>1
<1>6. Admission
  <2>1. Live = {}
    BY <1>1 DEF Live
  <2>2. NewCounted
    BY <1>1, <1>5 DEF NewCounted
  <2>3. ~ Waiting /\ Ahead = 0
    BY <1>1 DEF Waiting, Ahead
  <2>4. Order
    BY <1>1, <1>5, <2>3 DEF Order
  <2>5. QED
    BY <2>1, <2>2, <2>4 DEF Admission, SlotIsPid
<1>7. Stalls
  BY <1>1 DEF Stalls
<1>8. ASSUME NEW p \in Pid
      PROVE  /\ Gone(p) /\ ~ Known(p) /\ ~ Ends(p) /\ ~ Holds(p) /\ ~ Settled(p)
             /\ ~ (p < pids) /\ p \in Nat
  BY <1>1, <1>2, <1>5 DEF Gone, Known, Ends, Holds, Entering, Settled
<1>9. Stages
  <2>1. ASSUME NEW p \in Pid PROVE Stage(p)
    BY <1>8 DEF Stage, Gone
  <2>2. QED
    BY <2>1 DEF Stages
<1>10. Counts
  BY <1>1, <1>8 DEF Counts, Count
<1>11. QED
  BY <1>4, <1>6, <1>7, <1>9, <1>10 DEF IInv

LEMMA NextInv == IInv /\ [Next]_vars => IInv'
<1> SUFFICES ASSUME IInv, [Next]_vars PROVE IInv'
  OBVIOUS
<1>1. CASE Next
  <2>1. Base'
    BY <1>1, BaseKept DEF IInv
  <2>2. Admission'
    BY <1>1, <2>1, AdmissionKept DEF IInv
  <2>3. Stalls'
    BY <1>1, StallsKept DEF IInv
  <2>4. Stages' /\ Counts'
    <3>1. Before
      BY <2>1 DEF Before, IInv, Admission
    <3>2. QED
      BY <1>1, <3>1, StagesKept
  <2>5. QED
    BY <2>1, <2>2, <2>3, <2>4 DEF IInv
<1>2. CASE UNCHANGED vars
  <2>1. UNCHANGED <<scheme, fit, table, process, corrupt, pids, need, tids, tcb, newList,
                    semNew, freeMemory, lts, hand, ending, endPc, endWrites,
                    overwritten>>
    BY <1>2 DEF vars, memVars, configVars, pcbVars, newVars, ltsVars, endVars
  <2>2. Base'
    <3>1. MemoryInv'
      BY <2>1, MemoryStays DEF IInv, Base, memVars, configVars
    <3>2. TypeOK' /\ Held' /\ Needs'
      BY <2>1, <3>1 DEF IInv, Base, MemoryInv, TypeOK, Held, Needs
    <3>3. QED
      BY <3>1, <3>2 DEF Base
  <2>3. Admission' /\ Stalls'
    BY <2>1 DEF IInv, Admission, Order, Ahead, Waiting, SlotIsPid, Live, NewCounted,
                Stalls, HandFits, HeadFits, FirstFits, Candidates
  <2>4. Stages' /\ Counts'
    <3>1. \A q \in Pid : Untouched(q)
      BY <2>1 DEF Untouched, Known, Slot, Ends, Holds, Entering
    <3>2. corrupt' = corrupt /\ (Refused => Refused')
      BY <2>1 DEF Refused
    <3>3. QED
      BY <2>2, <3>1, <3>2, UntouchedKeeps DEF IInv
  <2>5. QED
    BY <2>2, <2>3, <2>4 DEF IInv
<1>3. QED
  BY <1>1, <1>2

\* In every behaviour kernel and memory agree as IInv says.
THEOREM Invariance == Spec => []IInv
BY InitInv, NextInv, PTL DEF Spec

\* The fields of both modules stay in their ranges: PIDs and TIDs never
\* exceed the tables that are indexed by them.
THEOREM TypeCorrect == Spec => []TypeOK
<1>1. IInv => TypeOK
  BY DEF IInv, Base
<1>2. QED
  BY Invariance, <1>1, PTL

\* After any requests of the kernel, in any order, the partitions cover the
\* user space without gap or overlap, for any scheme and fit.
THEOREM PartitionsTile == Spec => []Tiling
<1>1. IInv => Tiling
  BY DEF IInv, Base, MemoryInv
<1>2. QED
  BY Invariance, <1>1, PTL

\* Every process has an occupied partition of its own that is large enough,
\* and every occupied partition has its process.
THEOREM PartitionsOwned == Spec => []Owned
<1>1. IInv => Owned
  BY DEF IInv, Base, MemoryInv
<1>2. QED
  BY Invariance, <1>1, PTL

\* With dynamic partitions no two neighbours are ever free.
THEOREM NeighboursCoalesced == Spec => []Coalesced
<1>1. IInv => Coalesced
  BY DEF IInv, Base, MemoryInv
<1>2. QED
  BY Invariance, <1>1, PTL

\* The processes are admitted in the order of their PIDs, although a refused
\* one goes back to NEW and others arrive meanwhile, so that the slot memory
\* finds by PID is that of the process.
THEOREM SlotsArePids == Spec => []SlotIsPid
<1>1. IInv => SlotIsPid
  BY DEF IInv, Admission
<1>2. QED
  BY Invariance, <1>1, PTL

\* The semaphore of the long-term scheduler counts the processes in NEW.
THEOREM NewIsCounted == Spec => []NewCounted
<1>1. IInv => NewCounted
  BY DEF IInv, Admission
<1>2. QED
  BY Invariance, <1>1, PTL

\* The long-term scheduler sleeps although the first process would fit only
\* before a signal or after the one that was overwritten.
THEOREM StallsAreExplained == Spec => []StallExplained
<1>1. IInv => StallExplained
  BY StallsExplain DEF IInv
<1>2. QED
  BY Invariance, <1>1, PTL

LEMMA AgreeFromInv == IInv => TablesAgree
<1> SUFFICES ASSUME IInv PROVE TablesAgree
  OBVIOUS
<1>0. corrupt \in BOOLEAN
  BY DEF IInv, Base, TypeOK, MemoryTypeOK
<1> SUFFICES ASSUME corrupt = FALSE, NEW p \in Pid
             PROVE  /\ Runs(p) => Known(p)
                    /\ Known(p) => \/ Counter(p) > 0 /\ p \notin Range(newList)
                                   \/ p = ending /\ endPc = "DESTROY"
                                   \/ p = hand /\ lts = "DESTROY"
                    /\ Runs(p) => Slot(p).threads = {t \in Tid : tcb[p][t] = "LIVE"}
  BY <1>0 DEF TablesAgree
<1>1. Base /\ Order /\ Stage(p) /\ Count(p) /\ Numbers /\ p \in Nat
  <2>1. Base /\ Order /\ Stage(p) /\ Count(p)
    BY DEF IInv, Admission, Stages, Counts
  <2>2. QED
    BY <2>1, AreNumbers DEF Numbers
<1>2. ASSUME Runs(p)
      PROVE  Known(p) /\ Slot(p).threads = {t \in Tid : tcb[p][t] = "LIVE"}
  BY <1>1, <1>2, RunsSettled DEF Settled, Count, LiveThreads
<1>3. ASSUME Known(p), ~ Ends(p), ~ (p = hand /\ lts = "DESTROY")
      PROVE  Counter(p) > 0 /\ p \notin Range(newList)
  <2>1. p < Len(process)
    BY <1>3 DEF Known
  <2>2. p \notin Range(newList)
    <3>1. SUFFICES ASSUME p \in Range(newList) PROVE FALSE
      OBVIOUS
    <3>2. newList \in Seq(Pid) /\ Ahead \in {0, 1}
      BY <1>1 DEF Base, TypeOK, Ahead
    <3>3. PICK i \in 1 .. Len(newList) : p = newList[i]
      BY <3>1, <3>2 DEF Range
    <3>4. p = Len(process) + Ahead + (i - 1)
      BY <1>1, <3>3 DEF Order
    <3>5. i \in Nat /\ i >= 1 /\ Len(process) \in Nat
      BY <1>1, <3>2 DEF Numbers
    <3>6. QED
      BY <2>1, <3>2, <3>4, <3>5
  <2>3. ~ Gone(p)
    <3>1. CASE Holds(p)
      BY <1>1, <1>3, <3>1 DEF Stage, Holds, Fresh, Gone, Numbers
    <3>2. CASE ~ Holds(p)
      BY <1>1, <1>3, <2>1, <3>2 DEF Stage, Settled
    <3>3. QED
      BY <3>1, <3>2
  <2>4. PICK t \in Tid : tcb[p][t] # "NULL"
    BY <2>3 DEF Gone
  <2>5. QED
    BY <2>2, <2>4, CounterIs
<1>4. QED
  BY <1>2, <1>3 DEF Ends

\* Kernel and memory hold the same processes and threads, but for the process
\* that is being admitted or ended.
THEOREM TablesDoAgree == Spec => []TablesAgree
BY Invariance, AgreeFromInv, PTL

LEMMA CountedFromInv == IInv => ThreadsCounted
<1> SUFFICES ASSUME IInv PROVE ThreadsCounted
  OBVIOUS
<1>1. Base /\ Counts /\ \A p \in Pid : Stage(p)
  BY DEF IInv, Stages
<1>2. ASSUME NEW p \in Pid, Runs(p), \A t \in Tid : tcb[p][t] # "NEW", ~ corrupt
      PROVE  Slot(p).count = tids[p]
  BY <1>1, <1>2, RunsSettled DEF Counts, Count, Settled
<1>3. QED
  BY <1>1, <1>2 DEF ThreadsCounted, Counts, Refused

\* Memory counts the threads the kernel's manager counts, and writes past
\* array_memory_threads only after it refused a thread.
THEOREM ThreadsAreCounted == Spec => []ThreadsCounted
BY Invariance, CountedFromInv, PTL

=============================================================================
