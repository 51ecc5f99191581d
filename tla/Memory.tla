------------------------------- MODULE Memory -------------------------------
(***************************************************************************)
(* The tables of the memory module (memoria.c, client_kernel.c): the       *)
(* partition table, which covers the user space, and the process table,    *)
(* whose slots hold the partition and the threads of each process.         *)
(*                                                                         *)
(* Every request of the kernel is handled by a thread of its own that      *)
(* holds RWLOCK_PARTITIONS_AND_PROCESSES, so that one request is one step. *)
(***************************************************************************)
EXTENDS Integers, FiniteSets, SequencesExt

CONSTANTS
  MemorySize,    \* TAM_MEMORIA
  Fixed,         \* PARTICIONES, with the bases read_module_config adds up
  Schemes,       \* the values of ESQUEMA to consider
  Fits,          \* the values of ALGORITMO_BUSQUEDA to consider
  Sizes,         \* the sizes given to PROCESS_CREATE
  MaxProcesses,  \* bound: how many processes are ever created
  MaxTid,        \* bound: the threads of a process are 0 .. MaxTid
  NoProcess      \* a NULL slot of ARRAY_PROCESS_MEMORY

ASSUME MemoryAssumption ==
  /\ MemorySize \in Nat \ {0}
  /\ Fixed \in Seq([base : Nat, size : Nat \ {0}]) /\ Fixed # <<>>
  /\ Fixed[1].base = 0
  /\ \A i \in 1 .. Len(Fixed) - 1 :
       Fixed[i + 1].base = Fixed[i].base + Fixed[i].size
  /\ Schemes \subseteq {"FIJAS", "DINAMICAS"}
  /\ Fits \subseteq {"FIRST", "BEST", "WORST"}
  /\ Sizes \subseteq Nat
  /\ MaxProcesses \in Nat /\ MaxTid \in Nat

Pid == 0 .. MaxProcesses - 1
Tid == 0 .. MaxTid

\* A t_Memory_Process; `partition' is the id of a t_Partition, `count' is
\* tid_count, and `threads' are the TIDs whose entry is not NULL
MemoryProcess == [pid : Pid, size : Sizes, partition : Nat, count : Nat,
                  threads : SUBSET Tid]

ASSUME NoProcessAssumption == NoProcess \notin MemoryProcess

VARIABLES
  scheme,        \* MEMORY_MANAGEMENT_SCHEME
  fit,           \* MEMORY_ALLOCATION_ALGORITHM
  table,         \* PARTITION_TABLE, in the order of the list
  process,       \* ARRAY_PROCESS_MEMORY: PID p has slot p + 1
  corrupt        \* array_memory_threads was written out of its bounds

configVars == <<scheme, fit>>
memVars == <<configVars, table, process, corrupt>>

\* A t_Partition; `id' stands for its address
Partition(id, base, size) ==
  [id |-> id, base |-> base, size |-> size, occupied |-> FALSE]

InitialTable(s) ==
  IF s = "FIJAS"
  THEN [i \in 1 .. Len(Fixed) |->
          Partition(i, Fixed[i].base, Fixed[i].size)]
  ELSE <<Partition(1, 0, MemorySize)>>

MemoryInit ==
  /\ scheme \in Schemes /\ fit \in Fits
  /\ table = InitialTable(scheme)
  /\ process = <<>>
  /\ corrupt = FALSE

-----------------------------------------------------------------------------
(* Partitions *)

AnyFree(size) == {i \in DOMAIN table : ~table[i].occupied}
AnyLarge(size) == {i \in DOMAIN table : table[i].size >= size}
Candidates(size) ==
  {i \in DOMAIN table : ~table[i].occupied /\ table[i].size >= size}

\* allocate_partition keeps i although j is a candidate too
Preferred(i, j) ==
  \/ fit = "BEST" /\ table[i].size < table[j].size
  \/ fit = "WORST" /\ table[i].size > table[j].size
  \/ (fit = "FIRST" \/ table[i].size = table[j].size) /\ i <= j

\* ... and ends with partition i
Chosen(i, size) ==
  i \in Candidates(size) /\ \A j \in Candidates(size) : Preferred(i, j)

NewId == CHOOSE id \in 1 .. Len(table) + 1 :
           \A i \in DOMAIN table : table[i].id # id

\* allocate_partition and split_partition: partition i is given to a process
Allocate(i, size) ==
  LET p == table[i]
      taken == [table EXCEPT ![i].occupied = TRUE]
  IN IF scheme = "FIJAS" \/ p.size = size THEN taken
     ELSE InsertAt([taken EXCEPT ![i].size = size], i + 1,
                   Partition(NewId, p.base + size, p.size - size))

\* verify_and_join_splited_partitions, right neighbour first
JoinRight(t, i) ==
  IF i < Len(t) /\ ~t[i + 1].occupied
  THEN RemoveAt([t EXCEPT ![i].size = @ + t[i + 1].size], i + 1)
  ELSE t

JoinLeftLosing(t, i) ==
  IF i > 1 /\ ~t[i - 1].occupied THEN RemoveAt(t, i) ELSE t
JoinLeft(t, i) ==
  IF i > 1 /\ ~t[i - 1].occupied
  THEN RemoveAt([t EXCEPT ![i - 1].size = @ + t[i].size], i)
  ELSE t

JoinedLeftFirst(i) ==
  JoinRight(JoinLeft([table EXCEPT ![i].occupied = FALSE], i), i)
Joined(i) ==
  JoinLeft(JoinRight([table EXCEPT ![i].occupied = FALSE], i), i)

Released(i) == IF scheme = "FIJAS" THEN [table EXCEPT ![i].occupied = FALSE]
               ELSE Joined(i)

-----------------------------------------------------------------------------
(* Requests.  A refused one changes nothing; once array_memory_threads was  *)
(* written out of bounds nothing more is said.                             *)

\* ARRAY_PROCESS_MEMORY[pid] exists and is not NULL
Known(pid) == pid < Len(process) /\ process[pid + 1] # NoProcess

Slot(pid) == process[pid + 1]

AcceptsProcess(pid, size) == ~Known(pid) /\ Candidates(size) # {}

\* The new process takes the next slot of the array, whatever its PID
ProcessCreate(pid, size) ==
  \E i \in DOMAIN table :
    /\ ~corrupt /\ ~Known(pid) /\ Chosen(i, size)
    /\ table' = Allocate(i, size)
    /\ process' = Append(process, [pid |-> pid, size |-> size,
                                   partition |-> table[i].id,
                                   count |-> 0, threads |-> {}])
    /\ UNCHANGED <<configVars, corrupt>>

ProcessDestroy(pid) ==
  \E i \in DOMAIN table :
    /\ ~corrupt /\ Known(pid) /\ table[i].id = Slot(pid).partition
    /\ table' = Released(i)
    /\ process' = [process EXCEPT ![pid + 1] = NoProcess]
    /\ UNCHANGED <<configVars, corrupt>>

\* array_memory_threads has tid_count entries and grows by one
ThreadCreate(pid, tid) ==
  /\ ~corrupt /\ Known(pid) /\ tid \notin Slot(pid).threads
  /\ process' = [process EXCEPT ![pid + 1].count = @ + 1,
                                ![pid + 1].threads = @ \cup {tid}]
  /\ corrupt' = (tid > Slot(pid).count)
  /\ UNCHANGED <<configVars, table>>

\* A thread whose entry is out of the counted ones is not found
ThreadDestroyUncounting(pid, tid) ==
  /\ ~corrupt
  /\ process' = IF Known(pid) /\ tid < Slot(pid).count
                THEN [process EXCEPT ![pid + 1].threads = @ \ {tid},
                                     ![pid + 1].count = @ - 1]
                ELSE process
  /\ UNCHANGED <<configVars, table, corrupt>>
ThreadDestroy(pid, tid) ==
  /\ ~corrupt
  /\ process' = IF Known(pid) /\ tid < Slot(pid).count
                THEN [process EXCEPT ![pid + 1].threads = @ \ {tid}]
                ELSE process
  /\ UNCHANGED <<configVars, table, corrupt>>

-----------------------------------------------------------------------------
(* Properties *)

Live == {i \in DOMAIN process : process[i] # NoProcess}

\* The type invariant: a t_Partition's and a t_Memory_Process's fields stay in
\* the range the requests give them.
MemoryTypeOK ==
  /\ scheme \in Schemes /\ fit \in Fits
  /\ table \in Seq([id : Nat, base : Nat, size : Nat, occupied : BOOLEAN])
  /\ process \in Seq(MemoryProcess \cup {NoProcess})
  /\ corrupt \in BOOLEAN

UserSpace ==
  IF scheme = "FIJAS" THEN Fixed[Len(Fixed)].base + Fixed[Len(Fixed)].size
  ELSE MemorySize

\* After any sequence of splits and joins (split_partition,
\* verify_and_join_splited_partitions) the table still covers the user space
\* from 0 to its end: partitions neither overlap nor leave a gap.
Tiling ==
  /\ table # <<>> /\ table[1].base = 0
  /\ \A i \in 1 .. Len(table) - 1 :
       table[i + 1].base = table[i].base + table[i].size
  /\ table[Len(table)].base + table[Len(table)].size = UserSpace

\* The partition a process points at is in the table, occupied and large
\* enough; no two processes point at the same one, and every occupied
\* partition has its process: joins never destroy a partition in use, and no
\* memory stays taken once its process is gone.
Owned ==
  /\ \A i, j \in DOMAIN table : table[i].id = table[j].id => i = j
  /\ \A i, j \in Live : process[i].partition = process[j].partition => i = j
  /\ \A i \in Live : \E k \in DOMAIN table :
       /\ table[k].id = process[i].partition
       /\ table[k].occupied
       /\ IF scheme = "FIJAS" THEN table[k].size >= process[i].size
          ELSE table[k].size = process[i].size
  /\ \A k \in DOMAIN table : table[k].occupied =>
       \E i \in Live : process[i].partition = table[k].id

\* With dynamic partitions free memory is never left in two neighbouring
\* pieces: a process that fits in them is not refused.
Coalesced ==
  scheme = "DINAMICAS" =>
    \A i \in 1 .. Len(table) - 1 : table[i].occupied \/ table[i + 1].occupied
=============================================================================
