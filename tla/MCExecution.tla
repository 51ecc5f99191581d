---------------------------- MODULE MCExecution ----------------------------
(* Instances of Execution.  Registers of two bytes of one bit keep words   *)
(* small while an access still has a last byte of its own.                 *)
EXTENDS Execution

Three == <<[base |-> 0, size |-> 1], [base |-> 1, size |-> 3],
           [base |-> 4, size |-> 2]>>
AllSchemes == {"FIJAS", "DINAMICAS"}
AllFits == {"FIRST", "BEST", "WORST"}
SomeSizes == {2, 3}

PcAxBx == {"PC", "AX", "BX"}

I(op, a, b, value) == [op |-> op, a |-> a, b |-> b, value |-> value]

\* Makes a call, writes 1 at address 0 and makes another call
Writer == <<I("CALL", "PC", "PC", 0), I("WRITE_MEM", "BX", "PC", 0),
            I("CALL", "PC", "PC", 0), I("EXIT", "PC", "PC", 0)>>
\* Writes at an address that depends on what it reads, and runs off its end
Reader == <<I("READ_MEM", "AX", "BX", 0), I("SUM", "BX", "AX", 0),
            I("WRITE_MEM", "BX", "PC", 0)>>
\* Fails, in the middle of a call unless it finds something at address 0
Failing == <<I("READ_MEM", "AX", "BX", 0), I("JNZ", "AX", "PC", 3),
             I("BADCALL", "PC", "PC", 0), I("BAD", "PC", "PC", 0)>>
Programs == {Writer, Reader, Failing}
=============================================================================
