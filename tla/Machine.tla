------------------------------- MODULE Machine -------------------------------
(***************************************************************************)
(* What CPU and memory together promise to programs and to the kernel: a   *)
(* process has a memory of its own, a thread has registers of its own and  *)
(* executes its instructions one after the other, and none of them can     *)
(* tell that it shares a CPU and a user space with others.                 *)
(*                                                                         *)
(* Neither dispatches, evictions, contexts, partitions nor addresses exist *)
(* here; a thread may stop at any time.                                    *)
(***************************************************************************)
EXTENDS Opcodes

CONSTANTS
  Pid, Tid,
  Program,       \* the pseudocodes threads are created with
  MaxSize,       \* the largest memory of a process
  Null           \* no process, no thread, no dump

VARIABLES
  space,         \* the memory of each process, and the size it asked for
  thread,        \* the code and the registers of each thread
  dump           \* the dump under way, how far it is and its last byte

machineVars == <<space, thread, dump>>

Thread == Pid \X Tid

Init ==
  /\ space = [p \in Pid |-> Null]
  /\ thread = [x \in Thread |-> Null]
  /\ dump = Null

\* A process gets what it asks for or more, and may find anything in it
CreateProcess(p) ==
  /\ space[p] = Null /\ space'[p] # Null
  /\ space'[p] \in [size : 0 .. MaxSize, bytes : Seq(Byte)]
  /\ Len(space'[p].bytes) \in space'[p].size .. MaxSize
  /\ space' = [space EXCEPT ![p] = space'[p]]
  /\ UNCHANGED <<thread, dump>>

DestroyProcess(p) ==
  /\ space[p] # Null /\ \A t \in Tid : thread[<<p, t>>] = Null
  /\ dump # Null => dump.pid # p
  /\ space' = [space EXCEPT ![p] = Null]
  /\ UNCHANGED <<thread, dump>>

CreateThread(p, t) ==
  /\ space[p] # Null /\ thread[<<p, t>>] = Null
  /\ \E code \in Program :
       thread' = [thread EXCEPT ![<<p, t>>] =
                    [code |-> code, regs |-> ZeroRegisters]]
  /\ UNCHANGED <<space, dump>>

DestroyThread(x) ==
  /\ thread[x] # Null
  /\ thread' = [thread EXCEPT ![x] = Null]
  /\ UNCHANGED <<space, dump>>

-----------------------------------------------------------------------------
\* The instruction the PC is at, if any
InstructionOf(x) == thread[x].code[thread[x].regs["PC"] + 1]
CanExecute(x) == thread[x] # Null /\ thread[x].regs["PC"] < Len(thread[x].code)

Becomes(x, regs) == thread' = [thread EXCEPT ![x].regs = regs]

Compute(x) ==
  /\ Computes(InstructionOf(x)) \/ Calls(InstructionOf(x))
  /\ Becomes(x, Computed(thread[x].regs, InstructionOf(x)))
  /\ UNCHANGED space

\* The bytes of a register are within the memory of the process
Within(p, address) == address + RegisterBytes <= Len(space[p].bytes)

Load(x) ==
  LET address == thread[x].regs[InstructionOf(x).b] IN
  /\ InstructionOf(x).op = "READ_MEM" /\ Within(x[1], address)
  /\ Becomes(x, Put(thread[x].regs, InstructionOf(x).a,
                    WordOf(SubSeq(space[x[1]].bytes, address + 1,
                                  address + RegisterBytes))))
  /\ UNCHANGED space

Store(x) ==
  LET address == thread[x].regs[InstructionOf(x).a]
      bytes == BytesOf(thread[x].regs[InstructionOf(x).b])
  IN
  /\ InstructionOf(x).op = "WRITE_MEM" /\ Within(x[1], address)
  /\ space' = [space EXCEPT ![x[1]].bytes =
                 [k \in DOMAIN @ |->
                    IF k - address \in 1 .. RegisterBytes
                    THEN bytes[k - address] ELSE @[k]]]
  /\ Becomes(x, Advanced(thread[x].regs))

Execute(x) ==
  /\ CanExecute(x)
  /\ Compute(x) \/ Load(x) \/ Store(x)
  /\ UNCHANGED dump

-----------------------------------------------------------------------------
\* A dump reads its process byte by byte, while other threads may write
BeginDump(p) ==
  /\ dump = Null /\ space[p] # Null
  /\ dump' = [pid |-> p, read |-> 0, byte |-> 0]
  /\ UNCHANGED <<space, thread>>

DumpByte ==
  /\ dump # Null /\ dump.read < space[dump.pid].size
  /\ dump' = [dump EXCEPT !.read = @ + 1,
                          !.byte = space[dump.pid].bytes[dump.read + 1]]
  /\ UNCHANGED <<space, thread>>

\* Every byte the process asked for was read
EndDump ==
  /\ dump # Null /\ dump.read = space[dump.pid].size
  /\ dump' = Null
  /\ UNCHANGED <<space, thread>>

Next ==
  \/ \E p \in Pid : CreateProcess(p) \/ DestroyProcess(p) \/ BeginDump(p)
  \/ \E p \in Pid, t \in Tid : CreateThread(p, t)
  \/ \E x \in Thread : DestroyThread(x) \/ Execute(x)
  \/ DumpByte \/ EndDump

Spec == Init /\ [][Next]_machineVars
=============================================================================
