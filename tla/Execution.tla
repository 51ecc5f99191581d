----------------------------- MODULE Execution -----------------------------
(***************************************************************************)
(* Programs on the CPU: the instruction cycle, the interrupt handler and   *)
(* mmu (cpu.c), the requests that the CPU makes to the memory module       *)
(* (client_cpu.c), and the user space that these and the dumps             *)
(* (client_kernel.c) share with the partitions of Memory.                  *)
(*                                                                         *)
(* The kernel is the one of KernelThreads and Dispatcher reduced to what   *)
(* memory and CPU see of it: it dispatches one thread at a time, waits for *)
(* its eviction, sends it interrupts, creates threads for a system call,   *)
(* and destroys threads and processes that are not on the CPU.             *)
(***************************************************************************)
EXTENDS Memory, Opcodes

CONSTANTS
  Program,       \* the pseudocodes threads are created with
  MaxCommands,   \* bound: processes created, dispatches and interrupts sent
  Null

ASSUME ExecutionAssumption ==
  /\ Null \notin Pid \X Tid
  /\ Program \subseteq Seq(Instruction)
  /\ MaxCommands \in Nat
  /\ "FIJAS" \in Schemes =>
       Fixed[Len(Fixed)].base + Fixed[Len(Fixed)].size <= MemorySize

Thread == Pid \X Tid

\* The registers and the code of a thread; what the eviction of one says; a dump
Context == [code : Program, regs : [Register -> Word]]
Eviction == [reason : {"EXIT", "KILL", "QUANTUM", "SYSCALL", "SEGFAULT", "ERROR"},
             call : Instruction \cup {Null}]
Dump == [thread : Thread, read : Nat, byte : Byte]

\* NULL is none of what it stands for the absence of
ASSUME NullAssumption ==
  /\ Null \notin Context /\ Null \notin Eviction /\ Null \notin Dump
  /\ Null \notin [pid : Pid, read : Nat, byte : Byte]
  /\ Null \notin [size : Nat, bytes : Seq(Byte)]

VARIABLES
  mainMemory,    \* MAIN_MEMORY
  context,       \* t_Memory_Thread: code and registers of each thread
  dump,          \* a DUMP_MEMORY that holds the locks: how many bytes it has
                 \* read, and the last one
  petition,      \* a DUMP_MEMORY that memory has not attended yet
  tids,          \* the kernel's TID_MANAGERs
  exec,          \* TCB_EXEC, from the dispatch to the eviction
  dispatch,      \* THREAD_DISPATCH in the socket
  eviction,      \* THREAD_EVICTION in the socket
  sent,          \* KERNEL_INTERRUPT in the socket; bound: one at a time
  commands,      \* how many dispatches and interrupts were sent
  cpu,           \* where instruction_cycle is
  PID, TID,
  EXEC_CONTEXT,  \* registers, base and limit
  opcode,            \* cpu_opcode, until the check
  EXECUTING, KERNEL_INTERRUPT, SYSCALL_CALLED,
  SYSCALL_INSTRUCTION,
  EVICTION_REASON,
  meant          \* the thread the accepted interrupt was sent for

userVars == <<mainMemory, context, dump, petition>>
kernelVars == <<tids, exec, dispatch, eviction, sent, commands>>
cycleVars == <<cpu, PID, TID, EXEC_CONTEXT, opcode, SYSCALL_CALLED,
               SYSCALL_INSTRUCTION, EVICTION_REASON>>
flagVars == <<EXECUTING, KERNEL_INTERRUPT, meant>>
vars == <<memVars, userVars, kernelVars, cycleVars, flagVars>>

Init ==
  /\ MemoryInit
  /\ mainMemory = [a \in 0 .. MemorySize - 1 |-> 0]
  /\ context = [x \in Thread |-> Null]
  /\ dump = Null /\ petition = Null
  /\ tids = [p \in Pid |-> 0]
  /\ exec = Null /\ dispatch = Null /\ eviction = Null /\ sent = Null
  /\ commands = 0
  /\ cpu = "RECEIVE" /\ PID = 0 /\ TID = 0
  /\ EXEC_CONTEXT = [regs |-> ZeroRegisters, base |-> 0, limit |-> 0]
  /\ opcode = "NONE"
  /\ EXECUTING = FALSE /\ KERNEL_INTERRUPT = "NONE" /\ meant = Null
  /\ SYSCALL_CALLED = FALSE /\ SYSCALL_INSTRUCTION = Null
  /\ EVICTION_REASON = "ERROR"

-----------------------------------------------------------------------------
(* The user space                                                          *)

\* The partition of a process that memory knows
PartitionOf(p) ==
  table[CHOOSE i \in DOMAIN table : table[i].id = Slot(p).partition]

\* (pid >= PID_COUNT || ...) || (tid >= tid_count || ...)
Has(p, t) == Known(p) /\ t < Slot(p).count /\ t \in Slot(p).threads

Affordable == Len(process) + commands < MaxCommands

\* RWLOCK_PARTITIONS_AND_PROCESSES for writing, and the threads of a process
CanWritePartitions == dump = Null
CanWriteThreads(p) == dump # Null => dump.thread[1] # p

CreateProcess(p, size) ==
  /\ CanWritePartitions
  /\ p = Len(process) /\ Affordable
  /\ ProcessCreate(p, size)
  /\ UNCHANGED <<userVars, kernelVars, cycleVars, flagVars>>

\* When its last TCB is gone; one that memory refused stays for ever
DestroyProcess(p) ==
  /\ CanWritePartitions
  /\ Known(p) /\ Slot(p).threads = {} /\ tids[p] = Slot(p).count
  /\ ProcessDestroy(p)
  /\ UNCHANGED <<userVars, kernelVars, cycleVars, flagVars>>

CreateThread(p, t) ==
  /\ CanWriteThreads(p)
  /\ ThreadCreate(p, t)
  /\ \E code \in Program :
       context' = [context EXCEPT ![<<p, t>>] =
                     [code |-> code, regs |-> ZeroRegisters]]
  /\ tids' = [tids EXCEPT ![p] = t + 1]
  /\ UNCHANGED <<mainMemory, dump, petition, dispatch, sent, commands,
                 cycleVars, flagVars>>

DestroyThread(x) ==
  /\ CanWriteThreads(x[1]) /\ ThreadDestroy(x[1], x[2])
  /\ context' = [context EXCEPT ![x] = Null]
  /\ UNCHANGED <<mainMemory, dump, petition, tids, dispatch, sent, commands,
                 cycleVars, flagVars>>

\* attend_dump_memory, under the locks but for the partition's own
BeginDump ==
  /\ petition # Null /\ dump = Null
  /\ petition' = Null
  /\ dump' = IF Has(petition[1], petition[2])
             THEN [thread |-> petition, read |-> 0, byte |-> 0] ELSE Null
  /\ UNCHANGED <<memVars, mainMemory, context, kernelVars, cycleVars, flagVars>>

DumpByte ==
  /\ dump # Null /\ dump.read < Slot(dump.thread[1]).size
  /\ dump' = [dump EXCEPT !.read = @ + 1,
       !.byte = mainMemory[PartitionOf(dump.thread[1]).base + dump.read]]
  /\ UNCHANGED <<memVars, mainMemory, context, petition, kernelVars, cycleVars,
                 flagVars>>

EndDump ==
  /\ dump # Null /\ dump.read = Slot(dump.thread[1]).size
  /\ dump' = Null
  /\ UNCHANGED <<memVars, mainMemory, context, petition, kernelVars, cycleVars,
                 flagVars>>

DumpStep == BeginDump \/ DumpByte \/ EndDump

-----------------------------------------------------------------------------
(* The kernel                                                              *)

FirstThread(p) ==
  /\ Known(p) /\ tids[p] = 0
  /\ CreateThread(p, 0)
  /\ UNCHANGED <<exec, eviction>>

Dispatch(x) ==
  /\ exec = Null /\ context[x] # Null
  /\ petition # x /\ (dump # Null => dump.thread # x)
  /\ Affordable /\ commands' = commands + 1
  /\ exec' = x /\ dispatch' = x
  /\ UNCHANGED <<memVars, userVars, tids, eviction, sent, cycleVars, flagVars>>

\* A kill or the end of a quantum, after the confirmation of the dispatch
SendInterrupt(kind) ==
  /\ exec # Null /\ dispatch = Null /\ cpu \notin {"TID", "RESET"}
  /\ Affordable /\ commands' = commands + 1
  /\ sent = Null /\ sent' = [kind |-> kind, thread |-> exec]
  /\ UNCHANGED <<memVars, userVars, tids, exec, dispatch, eviction, cycleVars,
                 flagVars>>

Handled == eviction # Null /\ exec' = Null /\ eviction' = Null

\* THREAD_CREATE
HandleCreate(p) ==
  /\ Handled /\ eviction.reason = "SYSCALL" /\ exec[1] = p
  /\ tids[p] <= MaxTid
  /\ CreateThread(p, tids[p])

HandleRefused(p) ==
  /\ Handled /\ eviction.reason = "SYSCALL" /\ exec[1] = p
  /\ tids[p] <= MaxTid
  /\ tids' = [tids EXCEPT ![p] = @ + 1]
  /\ UNCHANGED <<memVars, userVars, dispatch, sent, commands, cycleVars,
                 flagVars>>

\* DUMP_MEMORY; bound: one petition at a time
HandleDump ==
  /\ Handled /\ eviction.reason = "SYSCALL"
  /\ petition = Null /\ petition' = exec
  /\ UNCHANGED <<memVars, mainMemory, context, dump, tids, dispatch, sent,
                 commands, cycleVars, flagVars>>

\* Any other call, or the end of a quantum
HandleOther ==
  /\ Handled /\ eviction.reason \in {"SYSCALL", "QUANTUM"}
  /\ UNCHANGED <<memVars, userVars, tids, dispatch, sent, commands, cycleVars,
                 flagVars>>

HandleExit ==
  /\ Handled /\ eviction.reason \in {"EXIT", "KILL", "SEGFAULT", "ERROR"}
  /\ DestroyThread(exec)

\* kill_thread and kill_process of threads that are not in EXEC
Kill(x) ==
  /\ exec # x /\ context[x] # Null
  /\ DestroyThread(x)
  /\ UNCHANGED <<exec, eviction>>

KernelStep ==
  \/ \E p \in Pid, size \in Sizes : CreateProcess(p, size)
  \/ \E p \in Pid : DestroyProcess(p) \/ FirstThread(p) \/ HandleCreate(p)
                      \/ HandleRefused(p)
  \/ \E x \in Thread : Dispatch(x) \/ Kill(x)
  \/ \E kind \in {"QUANTUM", "KILL"} : SendInterrupt(kind)
  \/ HandleDump \/ HandleOther \/ HandleExit

-----------------------------------------------------------------------------
(* instruction_cycle                                                       *)

Goes(from, to) == cpu = from /\ cpu' = to

\* The PID and the TID are written one after the other, without the mutex
ReceivePid ==
  /\ Goes("RECEIVE", "TID") /\ dispatch # Null
  /\ PID' = dispatch[1]
  /\ SYSCALL_INSTRUCTION' = Null
  /\ UNCHANGED <<memVars, userVars, kernelVars, flagVars, TID, EXEC_CONTEXT,
                 opcode, SYSCALL_CALLED, EVICTION_REASON>>

ReceiveTid ==
  /\ Goes("TID", "RESET")
  /\ TID' = dispatch[2] /\ dispatch' = Null
  /\ UNCHANGED <<memVars, userVars, tids, exec, eviction, sent, commands,
                 flagVars, PID,
                 EXEC_CONTEXT, opcode, SYSCALL_CALLED, SYSCALL_INSTRUCTION,
                 EVICTION_REASON>>

ResetExecutingOnly ==
  EXECUTING' = TRUE /\ UNCHANGED <<KERNEL_INTERRUPT, meant>>
ResetInterrupt ==
  EXECUTING' = TRUE /\ KERNEL_INTERRUPT' = "NONE" /\ meant' = Null

\* ... and the confirmation of the dispatch
Reset ==
  /\ Goes("RESET", "CONTEXT")
  /\ ResetInterrupt
  /\ UNCHANGED <<memVars, userVars, kernelVars, PID, TID, EXEC_CONTEXT, opcode,
                 SYSCALL_CALLED, SYSCALL_INSTRUCTION, EVICTION_REASON>>

\* seek_cpu_context
SeekContext ==
  /\ Goes("CONTEXT", "EXECUTE") /\ Has(PID, TID)
  /\ EXEC_CONTEXT' = [regs |-> context[<<PID, TID>>].regs,
                      base |-> PartitionOf(PID).base,
                      limit |-> PartitionOf(PID).size]
  /\ UNCHANGED <<memVars, userVars, kernelVars, flagVars, PID, TID, opcode,
                 SYSCALL_CALLED, SYSCALL_INSTRUCTION, EVICTION_REASON>>

\* Memory refuses: the CPU waits for the next dispatch
ContextRefused ==
  /\ Goes("CONTEXT", "RECEIVE") /\ ~Has(PID, TID)
  /\ UNCHANGED <<memVars, userVars, kernelVars, flagVars, PID, TID,
                 EXEC_CONTEXT, opcode, SYSCALL_CALLED, SYSCALL_INSTRUCTION,
                 EVICTION_REASON>>

regs == EXEC_CONTEXT.regs
Code == context[<<PID, TID>>].code

\* cpu_fetch_next_instruction, answered by seek_instruccion: an instruction is
\* fetched and executed in one step, for the code of a thread never changes
Fetches == Has(PID, TID) /\ regs["PC"] < Len(Code)
Fetched == Code[regs["PC"] + 1]
Executing(op) == cpu = "EXECUTE" /\ Fetches /\ Fetched.op \in op

\* Every failure leads to the eviction, past the check of interrupts
Fails(reason) == cpu' = "UPDATE" /\ EVICTION_REASON' = reason

\* The jump to the eviction passes over a pthread_cleanup_push into its
\* pthread_cleanup_pop(1), which is undefined: the eviction, or anything else.
\* "ABORTED" is anything else; nothing is promised of the CPU from there on
FetchFails ==
  /\ cpu = "EXECUTE" /\ ~Fetches
  /\ EVICTION_REASON' = "ERROR" /\ cpu' \in {"UPDATE", "ABORTED"}
  /\ UNCHANGED <<memVars, userVars, kernelVars, flagVars, PID, TID,
                 EXEC_CONTEXT, opcode, SYSCALL_CALLED, SYSCALL_INSTRUCTION>>

\* The success of an instruction, a system call or not
Succeeds(newRegs, call) ==
  /\ cpu' = "CHECK"
  /\ opcode' = Fetched.op
  /\ EXEC_CONTEXT' = [EXEC_CONTEXT EXCEPT !.regs = newRegs]
  /\ SYSCALL_CALLED' = call
  /\ UNCHANGED EVICTION_REASON

ExecuteRegisters ==
  /\ Executing({"SET", "SUM", "SUB", "JNZ", "LOG"})
  /\ Succeeds(Computed(regs, Fetched), FALSE)
  /\ UNCHANGED <<memVars, userVars, kernelVars, flagVars, PID, TID,
                 SYSCALL_INSTRUCTION>>

ExecuteCall ==
  /\ Executing({"CALL", "EXIT"})
  /\ Succeeds(Computed(regs, Fetched), TRUE)
  /\ SYSCALL_INSTRUCTION' = Fetched
  /\ UNCHANGED <<memVars, userVars, kernelVars, flagVars, PID, TID>>

\* An argument that does not parse, with the PC moved on and the payload begun
ExecuteBadCall ==
  /\ Executing({"BADCALL"}) /\ Fails("ERROR")
  /\ EXEC_CONTEXT' = [EXEC_CONTEXT EXCEPT !.regs = Computed(regs, Fetched)]
  /\ SYSCALL_INSTRUCTION' = Fetched
  /\ UNCHANGED <<memVars, userVars, kernelVars, flagVars, PID, TID, opcode,
                 SYSCALL_CALLED>>

ExecuteBad ==
  /\ Executing({"BAD"}) /\ Fails("ERROR")
  /\ UNCHANGED <<memVars, userVars, kernelVars, flagVars, PID, TID,
                 EXEC_CONTEXT, opcode, SYSCALL_CALLED, SYSCALL_INSTRUCTION>>

\* mmu; its test for overflow cannot fail with 32 bit addresses
Faults(address) ==
  EXEC_CONTEXT.base + address + RegisterBytes
    >= EXEC_CONTEXT.base + EXEC_CONTEXT.limit
Untranslated(address) == address
Physical(address) == EXEC_CONTEXT.base + address

AddressOf(i) == IF i.op = "READ_MEM" THEN regs[i.b] ELSE regs[i.a]

\* read_memory: the address is not looked at
ExecuteRead ==
  /\ Executing({"READ_MEM"}) /\ ~Faults(AddressOf(Fetched))
  /\ Succeeds(Put(regs, Fetched.a,
                  WordOf([k \in 1 .. RegisterBytes |->
                     mainMemory[Physical(AddressOf(Fetched)) + k - 1]])),
              FALSE)
  /\ UNCHANGED <<memVars, userVars, kernelVars, flagVars, PID, TID,
                 SYSCALL_INSTRUCTION>>

\* write_memory: neither is it here
Overwritten(address, bytes) ==
  [a \in DOMAIN mainMemory |->
     IF a - address + 1 \in DOMAIN bytes THEN bytes[a - address + 1]
     ELSE mainMemory[a]]

ExecuteWrite ==
  /\ Executing({"WRITE_MEM"}) /\ ~Faults(AddressOf(Fetched))
  /\ mainMemory' = Overwritten(Physical(AddressOf(Fetched)),
                               BytesOf(regs[Fetched.b]))
  /\ Succeeds(Advanced(regs), FALSE)
  /\ UNCHANGED <<memVars, context, dump, petition, kernelVars, flagVars, PID,
                 TID, SYSCALL_INSTRUCTION>>

ExecuteFaults ==
  /\ Executing({"READ_MEM", "WRITE_MEM"}) /\ Faults(AddressOf(Fetched))
  /\ Fails("SEGFAULT")
  /\ UNCHANGED <<memVars, userVars, kernelVars, flagVars, PID, TID,
                 EXEC_CONTEXT, opcode, SYSCALL_CALLED, SYSCALL_INSTRUCTION>>

\* Check Interrupts: what the CPU does after an instruction that succeeded
QuantumFirst ==
  IF opcode = "EXIT" THEN "EXIT"
  ELSE IF KERNEL_INTERRUPT # "NONE" THEN KERNEL_INTERRUPT
  ELSE IF SYSCALL_CALLED THEN "SYSCALL"
  ELSE "NONE"
Verdict ==
  IF opcode = "EXIT" THEN "EXIT"
  ELSE IF KERNEL_INTERRUPT = "KILL" THEN "KILL"
  ELSE IF SYSCALL_CALLED THEN "SYSCALL"
  ELSE KERNEL_INTERRUPT

Check ==
  /\ cpu = "CHECK"
  /\ EXECUTING' = (KERNEL_INTERRUPT = "NONE" /\ ~SYSCALL_CALLED)
  /\ IF Verdict = "NONE"
     THEN cpu' = "EXECUTE" /\ UNCHANGED EVICTION_REASON
     ELSE Fails(Verdict)
  /\ opcode' = "NONE"
  /\ UNCHANGED <<memVars, userVars, kernelVars, PID, TID, EXEC_CONTEXT,
                 SYSCALL_CALLED, SYSCALL_INSTRUCTION, KERNEL_INTERRUPT, meant>>

\* update_cpu_context; the CPU does not look at the result
Update ==
  /\ Goes("UPDATE", "EVICT")
  /\ context' = IF Has(PID, TID)
                THEN [context EXCEPT ![<<PID, TID>>].regs = regs] ELSE context
  /\ UNCHANGED <<memVars, mainMemory, dump, petition, kernelVars, flagVars, PID,
                 TID, EXEC_CONTEXT, opcode, SYSCALL_CALLED, SYSCALL_INSTRUCTION,
                 EVICTION_REASON>>

Evict ==
  /\ Goes("EVICT", "RECEIVE")
  /\ eviction' = [reason |-> EVICTION_REASON, call |-> SYSCALL_INSTRUCTION]
  /\ SYSCALL_INSTRUCTION' = Null
  /\ UNCHANGED <<memVars, userVars, tids, exec, dispatch, sent, commands,
                 flagVars, PID, TID, EXEC_CONTEXT, opcode, SYSCALL_CALLED,
                 EVICTION_REASON>>

\* kernel_cpu_interrupt_handler
Rank(kind) == CASE kind = "NONE" -> 0 [] kind = "QUANTUM" -> 1 [] OTHER -> 2

ReceiveInterrupt ==
  /\ cpu # "ABORTED"
  /\ sent # Null /\ sent' = Null
  /\ IF /\ EXECUTING /\ sent.thread = <<PID, TID>>
        /\ Rank(KERNEL_INTERRUPT) < Rank(sent.kind)
     THEN KERNEL_INTERRUPT' = sent.kind /\ meant' = sent.thread
     ELSE UNCHANGED <<KERNEL_INTERRUPT, meant>>
  /\ UNCHANGED <<memVars, userVars, tids, exec, dispatch, eviction, commands,
                 cycleVars, EXECUTING>>

CpuStep ==
  \/ ReceivePid \/ ReceiveTid \/ Reset \/ SeekContext \/ ContextRefused
  \/ FetchFails \/ ExecuteRegisters \/ ExecuteCall \/ ExecuteBadCall
  \/ ExecuteBad \/ ExecuteRead \/ ExecuteWrite \/ ExecuteFaults
  \/ Check \/ Update \/ Evict \/ ReceiveInterrupt

Next == KernelStep \/ DumpStep \/ CpuStep

Spec == Init /\ [][Next]_vars
-----------------------------------------------------------------------------
(* Properties *)

\* The type invariant.
TypeOK ==
  /\ MemoryTypeOK
  /\ mainMemory \in [0 .. MemorySize - 1 -> Byte]
  /\ context \in [Thread -> Context \cup {Null}]
  /\ petition \in Thread \cup {Null}
  /\ dump \in Dump \cup {Null}
  /\ tids \in [Pid -> Nat]
  /\ exec \in Thread \cup {Null} /\ dispatch \in {exec, Null}
  /\ cpu \in {"RECEIVE", "TID", "RESET", "CONTEXT", "EXECUTE",
              "CHECK", "UPDATE", "EVICT", "ABORTED"}
  /\ EXEC_CONTEXT \in [regs : [Register -> Word], base : Nat, limit : Nat]
  /\ eviction \in Eviction \cup {Null}
  /\ KERNEL_INTERRUPT \in {"NONE", "QUANTUM", "KILL"}

\* The thread whose registers the CPU holds
OnCpu(x) == /\ cpu \in {"EXECUTE", "CHECK", "UPDATE", "ABORTED"}
            /\ x = <<PID, TID>>

BytesOfPartition(part) ==
  [k \in 1 .. part.size |-> mainMemory[part.base + k - 1]]

SpaceOf(p) ==
  IF Known(p)
  THEN [size |-> Slot(p).size, bytes |-> BytesOfPartition(PartitionOf(p))]
  ELSE Null

ThreadOf(x) ==
  IF context[x] # Null /\ OnCpu(x) THEN [context[x] EXCEPT !.regs = regs]
  ELSE context[x]

DumpOf == IF dump = Null THEN Null
          ELSE [pid |-> dump.thread[1], read |-> dump.read, byte |-> dump.byte]

Abstract == INSTANCE Machine WITH
  MaxSize <- MemorySize,
  space   <- [p \in Pid |-> SpaceOf(p)],
  thread  <- [x \in Thread |-> ThreadOf(x)],
  dump    <- DumpOf

\* CPU, memory and their tables implement the machine that programs see: an
\* access that mmu lets pass stays in the process's partition, which nobody
\* else writes and which joins and splits of its neighbours leave alone, and
\* a thread goes on where it was, with the registers it had.
Implements == Abstract!Spec

\* The CPU acts on an interrupt only if the kernel sent it to the thread that
\* is running, although the PID and the TID of a dispatch are written without
\* the mutex of the handler, which may accept an interrupt for the thread that
\* has just failed.
InterruptAddressed ==
  /\ (cpu \in {"CONTEXT", "EXECUTE", "CHECK"}
        /\ KERNEL_INTERRUPT # "NONE") => meant = exec
  /\ (eviction # Null /\ eviction.reason \in {"QUANTUM", "KILL"})
        => meant = exec

\* A system call is delivered with the registers that memory keeps already past
\* it, so that it is made once: the flag SYSCALL_CALLED that an earlier thread
\* left set never delivers anything, and the end of a quantum loses no call.
CallDelivered ==
  eviction # Null =>
    /\ eviction.reason \in {"SYSCALL", "EXIT"} =>
         LET x == context[exec] IN
         eviction.call = x.code[((x.regs["PC"] - 1) % Modulus) + 1]
    /\ eviction.reason = "QUANTUM" => eviction.call = Null

\* A dispatch is only left without an eviction (memory refuses the context, and
\* the kernel waits for ever) once memory's array of threads was written out
\* of its bounds, which takes a THREAD_CREATE that was refused.  (A CPU that
\* FetchFails has ended answers nothing either; that is not asked here.)
Unanswered ==
  exec # Null /\ dispatch = Null /\ eviction = Null /\ cpu = "RECEIVE"
    => corrupt /\ tids[exec[1]] > Slot(exec[1]).count
=============================================================================
