------------------------------- MODULE Opcodes -------------------------------
(***************************************************************************)
(* What the instructions do to the registers of a thread (opcodes.c,       *)
(* registers.c): pure functions, shared by the machine a program sees      *)
(* (Machine) and by the CPU that implements it (Execution).                *)
(*                                                                         *)
(* An instruction is a record of its name, two registers and a value, of   *)
(* which it uses what it needs; the system calls are one, for what tells   *)
(* them apart is up to the kernel.  Names that do not decode, wrong counts *)
(* of arguments and values that do not parse are the operation "BAD"       *)
(* before the execution, and "BADCALL" in the middle of a system call.     *)
(***************************************************************************)
EXTENDS Integers, Sequences

CONSTANTS
  Register,      \* CPU_REGISTERS
  ByteValues,    \* how many values a byte has
  RegisterBytes  \* get_register_size

ASSUME OpcodesAssumption ==
  /\ "PC" \in Register
  /\ ByteValues \in Nat \ {0, 1} /\ RegisterBytes \in Nat \ {0}

\* What a power is, which proofs cannot know: no fact about the code
ASSUME PowerAssumption ==
  /\ ByteValues ^ 0 = 1
  /\ \A k \in 0 .. RegisterBytes - 1 :
       ByteValues ^ (k + 1) = ByteValues * ByteValues ^ k

Byte == 0 .. ByteValues - 1
Modulus == ByteValues ^ RegisterBytes
Word == 0 .. Modulus - 1

Operation == {"SET", "SUM", "SUB", "JNZ", "LOG", "READ_MEM", "WRITE_MEM",
              "CALL", "EXIT", "BADCALL", "BAD"}
Instruction == [op : Operation, a : Register, b : Register, value : Word]

\* The bytes of a register in memory, the least significant one first
BytesOf(w) == [k \in 1 .. RegisterBytes |->
                 (w \div ByteValues ^ (k - 1)) % ByteValues]
WordOf(bytes) == CHOOSE w \in Word : BytesOf(w) = bytes

\* memory_thread_create
ZeroRegisters == [r \in Register |-> 0]

\* EXEC_CONTEXT.cpu_registers.PC++, of a register that was just set, perhaps
Advanced(regs) == [regs EXCEPT !["PC"] = (@ + 1) % Modulus]
Put(regs, r, w) == Advanced([regs EXCEPT ![r] = w])

Computes(i) == i.op \in {"SET", "SUM", "SUB", "JNZ", "LOG"}

\* PROCESS_EXIT and THREAD_EXIT are calls too; a call moves the PC on before
\* it looks at its arguments
Calls(i) == i.op \in {"CALL", "EXIT", "BADCALL"}

Jumped(regs, i) ==
  IF regs[i.a] # 0 THEN [regs EXCEPT !["PC"] = i.value] ELSE Advanced(regs)

\* The registers after an instruction that does not touch memory
Computed(regs, i) ==
  CASE i.op = "SET" -> Put(regs, i.a, i.value)
    [] i.op = "SUM" -> Put(regs, i.a, (regs[i.a] + regs[i.b]) % Modulus)
    [] i.op = "SUB" -> Put(regs, i.a, (regs[i.a] - regs[i.b]) % Modulus)
    [] i.op = "JNZ" -> Jumped(regs, i)
    [] OTHER        -> Advanced(regs)
=============================================================================
