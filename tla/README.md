# A TLA+ model of "The Last of C"

"The Last of C" is an operating system in four programs that talk over TCP: a **kernel** that
schedules threads, a **CPU** that runs their instructions, a **memory** module that holds the
processes, and a **filesystem** that stores memory dumps. Each is a multi-threaded C program. This
directory models their concurrent core in TLA+ and checks it with TLC on small instances; shows
that CPU and memory implement an abstract machine, and the three programs a DUMP_MEMORY passes
through an abstract store of dumps; and proves with TLAPS, for every instance, each safety property that
the passing runs check: those of the kernel's threads and their lists, of the dispatching protocol, of the
array of READY lists, of the partitions and the admission of processes, of the CPU and of the way of a
dump, with the refinement of the abstract machine and the safety part of that of the store.

Contents: 1 the system, 2 the modules, 3 the runs, 4 fairness, 5 the proofs, 6 what the runs
disagree with the code's own words about, 7 what is not modelled, 8 plan.

Run `tlc -config X.cfg MC<Module>` for a run and `tlapm <Module>Proofs.tla` for the proofs.

## 1. The system

Paths are relative to `src/src/`.

### Kernel (`kernel/src`)

| Part | State | Operations | Correct when |
|---|---|---|---|
| Threads and their lists (`transitions.c`) | `t_TCB.current_state`, `location`; `ARRAY_READY`, `TCB_EXEC`, the lists of joiners, of waiters for a mutex, of dump petitions, of IO | `get_state_*`, `insert_state_*`, `kill_thread`, `kill_process`, `join_threads` | a thread is in the one list its state names; the manager, the TCBs and the PCB die together |
| System calls (`syscalls.c`) | `SHOULD_REDISPATCH` | the calls of the running thread | each leaves the thread in a list, in the CPU, or gone; joins and mutexes are resolved when a thread ends |
| Mutexes (`resources.c`) | `instances`, the waiters, `dictionary_assigned_resources` of each thread | create, lock, unlock, unassign at exit | one holder; the waiters are woken one per release |
| Short-term scheduler (`scheduler.c`) | `TCB_EXEC`, `KILL_EXEC_TCB`, `SEM_SHORT_TERM_SCHEDULER`, `SEM_READY` | pick, dispatch, wait for the eviction, handle it, redispatch or requeue | the CPU runs what the kernel believes it runs; no READY thread waits for ever |
| Quantum interrupter (`scheduler.c`) | `IS_TCB_IN_CPU`, `FINISH_QUANTUM`, `QUANTUM_EXPIRED`, two binary semaphores | time one quantum, interrupt if somebody else is READY | a quantum ends its own thread's turn and no other |
| Long-term scheduler (`scheduler.c`) | `SHARED_LIST_NEW`, `FREE_MEMORY`, its semaphore | ask memory for a process and its first thread, put back when refused, wait for free memory | processes are admitted in order, and as soon as memory has room |
| `ARRAY_READY` (`kernel.c`) | one list per priority, `PRIORITY_COUNT` | grow when a new priority appears | no READY thread is lost |
| IO device (`scheduler.c`) | `SEM_IO_DEVICE`, the thread being served, `CANCEL_IO_OPERATION` | take, sleep, give back | everybody is served, whoever is killed |
| Dump petitioners (`scheduler.c`) | one thread of the kernel per DUMP_MEMORY, `SHARED_LIST_BLOCKED_DUMP_MEMORY` | ask memory, wake the thread or kill its process; be cancelled by a kill or at the shutdown | a thread goes on with its dump stored, or dies with it not stored |

They share `RWLOCK_SCHEDULING`. Nearly everything holds it for reading, so that these threads run
side by side and keep apart only by one mutex per list. PROCESS_EXIT, THREAD_JOIN and THREAD_CANCEL
hold it for writing, for which the scheduler *gives up* its read lock and takes it back, with the
state possibly changed in between; a failed dump holds it for writing too.

### CPU (`cpu/src`), memory (`memoria/src`), filesystem (`filesystem/src`)

| Part | State | Operations | Correct when |
|---|---|---|---|
| Instruction cycle (`cpu.c`) | `PID`, `TID`, `EXEC_CONTEXT`, `EXECUTING`, `KERNEL_INTERRUPT` | receive a dispatch, confirm, run, evict; a second thread receives interrupts | it runs the dispatched thread only; an interrupt hits the run it was sent for |
| Opcodes, mmu (`opcodes.c`, `cpu.c`) | registers | the instructions, address translation | an access stays inside the partition |
| Partitions (`memoria.c`, `client_kernel.c`) | `PARTITION_TABLE` | allocate (first, best, worst fit), split, join | they tile the user space, one process each, no two free neighbours |
| Processes and threads (`client_kernel.c`) | `ARRAY_PROCESS_MEMORY`, `tid_count` | create, destroy | indices are PIDs and TIDs |
| CPU requests (`client_cpu.c`) | contexts, user space | read, write, fetch, save context | processes are isolated, a thread finds its registers again |
| Relay of dumps (`attend_dump_memory`) | the read locks of partitions and threads | connect to the filesystem, send the bytes, pass the result on | every byte of the process, and the filesystem's own answer |
| Dump files (`filesystem.c`) | `bitmap.dat`, `free_blocks`, `bloques.dat`, metadata | reserve, write, save | a saved file reads back; nobody writes another's blocks |

**Interactions.** kernel → CPU: dispatch socket (dispatch, confirmation, eviction) and interrupt
socket (one way, unordered with the first). kernel → memory: a new connection per request. CPU →
memory: one connection. memory → filesystem: one connection per dump.

**What is hard here.** The interrupt socket against the dispatch socket; the timer of a quantum
against system calls; kills of threads in any state, the running one included; the gaps in which
the scheduler holds no lock; counting semaphores that must agree with lists of which members are
removed by kills; the refusal of an admission racing the end of a process; a restart of the
filesystem between a reservation and the file; a dump whose petitioner was cancelled, whose
connection broke or whose message came in parts; an access to the user space by a dump while threads
write; flags of the CPU that outlive the thread that set them. `PROJECT.json` lists each hazard at its line.

## 2. The modules

| Module | Models | Its grain |
|---|---|---|
| `KernelThreads` | the life of the threads, the system calls, mutexes, IO, dumps, kills | a section under `RWLOCK_SCHEDULING` |
| `KernelThreadsProofs` | the theorems about `KernelThreads` | |
| `Dispatcher` | scheduler, interrupter, killer, CPU and their sockets | a critical section, semaphore operation or message |
| `DispatcherProofs` | the theorems about `Dispatcher` | |
| `Memory` | partition table and process table | a request (its handler holds the lock for writing) |
| `MemoryProofs` | what each request keeps of the tables of `Memory`, for the two modules that extend it | |
| `LongTerm` (extends `Memory`) | admission of processes, composed with the memory module | a request with its handling; what the kernel does with the answer is another step |
| `LongTermProofs` (extends `MemoryProofs`) | the theorems about `LongTerm` and, in it, `Memory` | |
| `ReadyArray` | growth of `ARRAY_READY` by its two callers | the check outside the lock, the resize, the insertion |
| `ReadyArrayProofs` | the theorems about `ReadyArray` | |
| `Opcodes` | registers and instructions (`opcodes.c`, `registers.c`), for `Execution` and `Machine` | |
| `Execution` (extends `Memory`, `Opcodes`) | the instruction cycle, the interrupt handler, mmu, the memory module's answers to the CPU, the bytes a dump reads | a message, a request to memory, an instruction, a write of PID or TID |
| `ExecutionProofs` (extends `MemoryProofs`) | the theorems about `Execution`, and that it implements `Machine` | |
| `Machine` | abstract: what programs and kernel may rely on in CPU and memory | an instruction |
| `FileSystem` | the handlers of dumps and restarts of the program | reservation, each block, creation and saving of the metadata |
| `DumpPath` (extends `FileSystem`) | the petitioners of the kernel, kills and the shutdown as they see them, the relay in memory, the connections | a message, or a section under `RWLOCK_SCHEDULING` |
| `DumpPathProofs` | the theorems about `FileSystem` and `DumpPath` | |
| `DumpStore` | abstract: what a thread that calls DUMP_MEMORY may rely on | a dump taken, stored or refused |
| `DumpStoreProofs` (extends `DumpPathProofs`) | that `DumpPath` implements the safety part of `DumpStore` | |

The `MC*` modules only define values for constants. Operators named like `ListKeep`,
`StaleIsLast` or `JoinWithoutWait` beside the one they vary are plausible slips: they are used to
see that each property really depends on the code.

**KernelThreads.** `state`, `ready`, `joinedBy`, `resource`, `ioReady`, `ioExec` are the fields and
lists of the code; `sts` says where the short-term scheduler is: `CPU` while the thread runs,
`UPGRADE` after it gave up the read lock (`GiveUpRead`), `LOCKED` while it holds the write lock,
`DOWNGRADE` until it has the read lock again, `EXITING` while `insert_state_exit` of the running
thread goes on, `AFTER` for the rest of the loop. A call is the action of its name (`ThreadJoin`,
`MutexLock`, ...). `insert_state_exit` is `InsertStateExit`, one `ResourcesUnassign(m)` per mutex
held (in any order: the code follows a hash table), then `Destroy` with `join_threads`;
`kill_process` is a loop of `Victim`s under the write lock. Three variables of the code that are
dead between two uses (`redispatch`, `call`, `target`) are reset when they die, so that TLC does not
tell apart states that differ in nothing else. `fault` is undefined behaviour: after it nothing is
promised, and the model stops. `staleHandover` records that `resources_unassign` used the stale
`tcb_unblock` (section 6); the invariants are stated up to there, and `threads.cfg` does not
continue after it (`NotStale`), since a thread that is twice in READY breaks all of them.

**Dispatcher.** `stsPc`, `qiPc` and `cpuPc` are program counters, the names of their values those
of what comes next. `Pick`'s branch for an empty list, which the code has, can never be taken
(`ReadyCounted`, proved). A thread that calls nothing is one that stays in `RUN`. A system call has
one of three outcomes: the thread goes on, blocks or exits (`HandleSyscall`). The killer takes two
steps, as in `kill_thread`: it sets `KILL_EXEC_TCB`, then sends the interrupt if `IS_TCB_IN_CPU`.
`Finished` lets the model stutter when every thread has exited.

**Memory, LongTerm.** A partition carries an `id` that stands for its address, so that a process
that points at a partition joined away is noticed. Requests that are refused change nothing in
`Memory`. The user programs are reduced to the creation and the end of threads. `corrupt` is a write
beyond `array_memory_threads` (after a refused THREAD_CREATE the TIDs run ahead of `tid_count`);
nothing is promised after it, and `ThreadsCounted` says it takes such a refusal. `overwritten`
records that the last `signal_free_memory` came between a refusal of memory and the assignment
`FREE_MEMORY = 0`. `LtsGet`'s branch for an empty list cannot be taken (`NewCounted`).

**Execution, Machine.** `cpu` is where `instruction_cycle` is; fetching and executing an instruction
is one step, since the code of a thread never changes and nobody else is told of a fetch. A word is
`RegisterBytes` bytes and wraps around. The kernel is reduced to what CPU and memory see of it: one
dispatch at a time, interrupts to the thread in EXEC, threads created by a system call, destroyed when
they are not on the CPU; `DestroyProcess` comes with the last TCB, which a process with a refused
thread never reaches. `meant` is the thread the accepted interrupt was sent for, and no part of the
code. `Machine` has a memory per process, code and registers per thread and a dump under way; neither
addresses, partitions, contexts nor dispatches. `ABORTED` is any outcome but the eviction of a fetch that
failed, where the C code is undefined (section 6): the CPU does nothing more, and nothing is promised of it.
`Implements` maps the memory of a process to the
bytes of the partition it points to, and the registers of a thread to those of the CPU while it is on
it (`OnCpu`), else to its context in the memory module.

**FileSystem, DumpPath, DumpStore.** `disk` is `bloques.dat` cell by cell, a cell being a block
pointer or a datum of a numbered dump. The files are mapped shared: `Restart` keeps them, drops the
handlers in whatever step they are and counts the free blocks again, as `check_bitmap_free_blocks`
does. A handler in the middle of `set_bits_bitmap` may have set part of its bits (`Begun`); one in the
middle of a `memcpy` has written part of blocks that no file will ever lead to, which is left out. `FileSystem` has no specification of its own: `DumpPath` says who sends it dumps. There a
petition is `CONNECT`, `WAIT`, or has the result it will hand to `remove_dump_memory_thread`; a
cancelled one has the result it began with, which is 0. A relay is `ATTEND` until it has its locks,
`CONNECT` while it holds them and tries to reach the filesystem, `WAIT` until there is an answer or
none will come; then it is what it sent, until that is read. `dying` are the threads whose
`insert_state_exit` waits for memory. `Handler` names the threads of one process and the handlers
that serve them: a thread has one dump at a time, and `DumpMemory` waits until nothing of the last
one is left (a bound). `Stores` maps the thread and its petition to RUNS, WAITS, FAILED (the petition
has an error) or KILLED, and a name to the number of the dump that reads back under it: the metadata
is there and the index block leads to all the data it has room for (`StoredAs`; for the pointer it
has no room for see section 6). `request`, the name and number a relay gave its dump, outlives the
relay.

**ReadyArray.** `pc` of the two creators (`STS` in THREAD_CREATE, `LTS` when a process enters READY)
separates the check of `PRIORITY_COUNT` from the resize. It models PRIORIDADES and CMN; with FIFO
there is one list and no resize.

## 3. The runs

| Run | Question | Bounds, and why they are enough |
|---|---|---|
| `threads` | are lists, mutexes, joins, IO and TCB_EXEC consistent? | 1 process, 3 threads, 2 mutexes, 1 priority, CMN. Three threads are a holder, a waiter and somebody who kills or joins; everything in the code works within one process |
| `threads_live` | do IO, kills and the scheduler's handling end? | 3 threads, 1 mutex, FIFO |
| `dispatch` | do scheduler, interrupter, killer and CPU keep in step? is every READY thread dispatched? | 2 threads, 2 kills, 2 interrupts in flight. Two threads are the running one and the one that makes a quantum matter; a thread can run any number of times, and an interrupt of an earlier run can meet a later one |
| `memory` | do CPU and memory implement `Machine`? are interrupts and calls delivered to whom they are for? does the partition table survive? | user space 6, sizes 2 and 3, three fixed partitions or dynamic, three fits: splits with and without a rest, joins on both sides. 4 processes, dispatches and interrupts in all, of which 3 processes; 3 threads per process, refused ones included; one interrupt in the socket and one petition. Registers PC, AX, BX of two one-bit bytes: an access has a last byte of its own, a sum overflows. Out of these bounds: an interrupt accepted for a thread that has just failed, followed by a dispatch and its eviction, which takes a fifth command (the proof of `InterruptAddressed` has it). Three programs: one that calls and writes, one whose address depends on what it reads, one that fails in a call |
| `longterm` | do kernel and memory agree? is everyone admitted? | user space 2, sizes 1..2, 3 processes of up to 3 threads: a process refused while one or two are alive, another waiting behind, ends by EXIT and by kill. Three threads are the first, one that is refused and one created after it, out of the bounds of memory's array |
| `files` | do kernel, memory and filesystem implement `DumpStore`? is the bitmap right? | 2 threads of one process, 2 calls of DUMP_MEMORY, sizes 0, 1, 4, 5 in blocks of 2 cells (nothing, part of a block, as many blocks as an index has pointers, one more), 5 blocks, which hold one large dump but not two, 1 restart. One time of day: a second dump of the same thread takes the name of its first. The second begins when nothing is left of the first (TIDs are not used twice, and a thread waits for its dump; only one that was resumed because memory's connection broke, with the kernel stopping, could overlap its own) |
| `ready` | does growing the array lose anybody when the creators do not race? | 3 threads, priorities 0..3: two new priorities at once, in both orders, and a thread already waiting |

Five more runs end in a violation: section 6.

The invariants that take the most to break: `MutexAccounting` (`instances` against holders and
waiters while both are killed), `ExecNotDangling` (`TCB_EXEC` is used again after the lock was given
up), `NoLostPreemption` and `KillJustified` (an interrupt on a socket of its own against the
redispatch), `ReadyCounted` (one post too many is used to wake the interrupter), `StallExplained`
(the only way the long-term scheduler sleeps while there is room), `Owned` (a join never removes
a partition in use), `WritesOwn` (the copy of the index may run past the index block, yet never
leaves the handler's own blocks, since bits are taken in ascending order), `InterruptAddressed` (the
handler compares a PID and a TID that are being written), `CallDelivered` (a quantum and a call at
the same check, and a flag left by another thread), `Unanswered` (the one way a dispatch stays without
an eviction), `Implements` (mmu, splits and joins, contexts and dumps at once) and `Stores` (cancelled
petitioners, broken connections, a restart and the shutdown against one promise).

CHECK_DEADLOCK is off where the system may really stop: all threads exited or waiting for each
other's mutexes (`threads*`), no process left to create (`longterm`, `memory`), the kernel down
or no call left (`files`), nobody left to run (`ready`). In `dispatch` it is on. `MaxTid`, `MaxPriority`, `MaxKills`,
`MaxInFlight`, `MaxProcesses`, `MaxCommands`, `MaxDumps` and `MaxRestarts` are bounds of the model; everything else
is as in the code. Symmetry is used in safety runs only.

## 4. Fairness

The loops of the kernel's and the CPU's own threads get weak fairness: the operating system
schedules them, and the code never leaves them waiting on anything but the lock or the semaphore
the guard names. Programs get none: a thread may run without ever calling, and a blocked one may stay.

- `KernelThreads`: strong fairness for the IO device, which competes for `RWLOCK_SCHEDULING` with a
  program that calls THREAD_CANCEL in a loop; the lock is released each time. Nothing is assumed of
  the answers to dumps, except that a thread which a failed dump is killing is finished (`DumpExit`).
- `Dispatcher`: strong fairness for the interrupter's steps under `MUTEX_QUANTUM_INTERRUPTER`, which
  the scheduler takes and releases once per system call. A quantum ends in the end.
- `LongTerm`: strong fairness for the long-term scheduler, whose read lock competes with the ends of
  processes under the write lock, released each time.
- `DumpPath`: weak fairness for petitioners, relays, handlers, the destruction of threads and the two
  steps of the shutdown. This includes that the filesystem is up again some time after a restart, for
  which `client_thread_connect_to_server` waits as long as it takes. Programs need not call anything.

The strong fairness amounts to this: a pthread lock that is released again and again is obtained in
the end by whoever waits for it.

## 5. What is proved

`DispatcherProofs` proves, for any set of threads, with or without quanta, any number of kills and
any socket capacity, from `DispatcherAssumption` alone (a null thread that is no thread, and ranges
of the constants):

| Theorem | Property |
|---|---|
| `TypeCorrect` | `TypeOK` |
| `TurnsAreTaken` | `BinarySemaphores` |
| `CpuRunsTheExecThread` | `CpuRunsExec` |
| `TimerTracksTheExecThread` | `TimerTracksExec` |
| `ReadyIsCounted` | `ReadyCounted` |
| `KillsAreJustified` | `KillJustified` |
| `PreemptionIsNotLost` | `NoLostPreemption` |

The properties are not inductive alone: whether the CPU runs `TCB_EXEC` depends on what is in the
sockets, and that on where each party is. `IInv` is the conjunction of

- `Turns`: for each place of the scheduler and each place of the interrupter, what the two binary
  semaphores hold;
- `Wire`: what is on the dispatch socket for each place of the scheduler and of the CPU, with the
  thread it names;
- `Running`: when a thread is in EXEC, that it is `TCB_EXEC`, and that the interrupter times it;
- `Marks`: what `IS_TCB_IN_CPU`, `QUANTUM_EXPIRED`, `SHOULD_REDISPATCH` and the killer's place say in
  each place of the scheduler;
- `ReadyList`: the list holds READY threads only, each once;
- `ReadyCounted`;
- `Kills`: a KILL anywhere on its way names a thread that is gone or sure to exit at the coming
  eviction;
- `NoLostPreemption` and `TypeOK`.

There is one lemma per conjunct, `<Conjunct>Step` (two for `TypeOK`), which shows that a step from a state of `IInv`
preserves it, with one case per action; `Invariance` puts them together, and each property follows
from `IInv` in one step.

`ReadyArrayProofs` proves, for any set of threads and any `MaxPriority`, from `ReadyArrayAssumption`
(the bound is a natural number, the null thread is no thread): `TypeCorrect` (`TypeOK`, also after a
race) and `LostByRaceOnly` (`LostOnlyByRace`). That a READY thread stands in its list is not inductive:
taking the head of a list would lose a thread that stands in it twice, and an insertion would leave
the array if the thread's list did not exist. `IInv` therefore says, as long as no resize has
raced, that the lists hold READY threads of their priority only and each once (`InPlace`), that every
READY thread stands in one (`Standing`), that running, blocked and checked new threads have a list
(`HasList`), that the creators hold different NEW threads (`Hands`), and that the semaphore is the
number of READY threads (`Counted`). `InsertKeeps` and `TakeKeeps` are the two ways a list changes;
`CreatorStep`, `EnterStep`, `LeaveStep` and `PickStep` apply them to the actions.

`DumpPathProofs` proves, for any finite set of handlers, any set of names and sizes, any number of
blocks, pointers per block, calls and restarts, from `FileSystemAssumption` and `DumpPathAssumption`
(ranges of the constants, `Handler` is finite, `None` is no request):

| Theorem | Property |
|---|---|
| `TypeCorrect` | `TypeOK` |
| `BlocksAreCounted` | `FreeCounted` |
| `NobodyWritesAnothers` | `WritesOwn` |

That `free` is right after a reservation depends on the reservation taking as many clear bits as it
needs, and that the index, which may run past its block, stays in the dump's own blocks depends on
the array being consecutive. Neither follows from the properties. Blocks are never freed, so the used
ones are the first ones (`InOrder`), and the first free ones follow them: `FirstFreeFacts` shows
it by the cardinality of the set of lower free blocks, since induction over an array is not at hand.
`Holding` carries it to the handlers, `Position` bounds the data block each is at, and `Asked`, the dumps that
were sent with those still to be sent, bounds the numbers of dumps by the calls.

`DumpStoreProofs` proves, from the same assumptions, that every step of `DumpPath` is a step of
`DumpStore` or a stutter (`DumpsAreStored`: `Spec => Abstract!Safety`), and on the way that a saved file
reads back (`SavedDumpsReadBack`). What makes a step simulate is not in `IInv`: `StoreInv` adds

- `DiskInv`: the regions of the dumps that are being written and of those that are saved do not meet
  (`RegionsApart`, `SavedApart`), and hold what was written of them so far (`Progress`, `SavedOn`);
- `LinkInv`: for each thread, what its handler, its relay, the connections between them and its petition
  hold is true of its dump. A result is OK only if the dump is stored, ERROR only if it is not, and
  one that nobody waits for any more promises nothing.

`LeavingKeepsDisk` to `SaveKeepsDisk` are the steps of the filesystem against `DiskInv`, `MessagesKeep` to
`WorkKeepsLinks` the steps of everybody against `LinkInv`. `AskStep`, `TakeStep` (the memory is sent),
`PutStep` (the file is created or saved), `ResultStep`, `ResumeStep`, `KillStep`, `RenewStep` and `StopStep`
each simulate one action of `DumpStore`, `StutterStep` the rest; `StepSimulates` has a case for each action.

`LongTermProofs` proves, for any size of memory, fixed partitions, schemes, fits, sizes of processes, and
numbers of processes and threads, from `MemoryAssumption` (ranges, and fixed partitions that follow
each other from 0), `NoProcessAssumption` and `LongTermAssumption` (the null values are no process and no
PID):

| Theorem | Property |
|---|---|
| `TypeCorrect` | `TypeOK` |
| `PartitionsTile` | `Tiling` |
| `PartitionsOwned` | `Owned` |
| `NeighboursCoalesced` | `Coalesced` |
| `SlotsArePids` | `SlotIsPid` |
| `NewIsCounted` | `NewCounted` |
| `StallsAreExplained` | `StallExplained` |
| `TablesDoAgree` | `TablesAgree` |
| `ThreadsAreCounted` | `ThreadsCounted` |

The argument for the tables is in `MemoryProofs`, which knows of no specification: each request preserves
`MemoryInv`, the conjunction of the four properties of `Memory`. A split inserts into the list of
partitions and a join removes from it, so positions shift; `MemoryProofs` therefore speaks of the set of
taken partitions (`Taken`) instead of their positions. `SplitKeeps`, `MergeKeeps` and `MergePacks` are the
two ways the list changes: both keep the tiling (`Tiles`) and the ids apart (`Unique`), and change
`Taken` by one partition at most; `PackedBut(t, S)` is `Coalesced` but for the pairs in `S`, which says
where a join is still due between its two halves. A new id exists because there are fewer partitions
than candidates (`FreshId`, a pigeonhole). `ProcessCreateKeeps`, `ProcessDestroyKeeps`, `ThreadCreateKeeps`
and `ThreadDestroyKeeps` put this together.

For the kernel, `SlotIsPid` is not inductive: the slot of a process is the next one, so its PID must be the
number of slots when it is accepted. `Order` says that the PIDs in NEW, after the one in the scheduler's
hand, follow the slots without a gap. `Stalls` adds to `StallExplained` what must hold while the refused
process is still in hand. That kernel and memory agree depends on how far a process is, which `Stage`
tells from `lts`, `endPc` and the slot: waiting, held by the scheduler, being ended, or settled; `Count`
says what memory holds of its threads in each. Every action concerns one process (`Touches`) and leaves the
others alone (`Untouched`), which `UntouchedKept` uses once for all.

`ExecutionProofs` proves, for any programs, number and width of registers, values of a byte and sizes of
memory and processes, from the assumptions of `Memory`, `NoProcessAssumption`, `OpcodesAssumption`,
`PowerAssumption`, `ExecutionAssumption` and `NullAssumption`:

| Theorem | Property |
|---|---|
| `TypeCorrect` | `TypeOK` |
| `TableSound` | `Tiling`, `Owned`, `Coalesced` |
| `InterruptsAreAddressed` | `InterruptAddressed` |
| `CallsDelivered` | `CallDelivered` |
| `RefusalsExplained` | `Unanswered` |
| `MachineImplemented` | `Implements` |

`NullAssumption` says that the null value is none of what it stands for the absence of. `PowerAssumption` says
nothing of the code: it is the two equations of `^`, which tlapm does not know. Each part of `IInv` is
something that a step of the instruction cycle relies on, and `TypeOK` is not inductive without them:

- `MemoryInv`, by the lemmas of `MemoryProofs`;
- `Cycle`: what the sockets hold and whom PID and TID name at each point of the instruction cycle, and that
  an accepted interrupt which is still to be acted upon was meant for the thread in EXEC;
- `Contexts` and `Answered`: a thread that memory lists has a context, one that it does not list was
  refused, and only such a one is dispatched in vain;
- `Mounted`: base and limit in the CPU are those of the partition that the running process has now, so that
  what mmu lets pass is in the user space, and in nobody else's part of it (`PartitionsApart`);
- `Dumping`: the process of a dump under way is still there;
- `Calling`: SYSCALL_INSTRUCTION is the instruction before the PC of the registers that go back to memory, as
  soon as it is sure that the call is delivered.

A word is read from the bytes it was written as because its representation by `RegisterBytes` digits
exists and is unique (`Represented`, `WordOfBytes`; induction over the number of digits is done by the least
number that fails, `LeastIs`). `CreateEffect`, `DestroyEffect` and `SlotEffect` say what a request changes of the
partition of every process, where the tables shift.

For the refinement, `SpaceIs`, `ThreadIs` and `DumpIs` say what the mapping makes of a process, a thread and the
dump. `KernelSimulates` has creations and destructions (`CreateStep`, `DestroyStep`, `MakeStep`, `GoneStep`);
what else the kernel does is a stutter. `DumpSimulates` has the bytes of a dump. `CpuSimulates` has the
instructions: `ComputeStep`, `LoadStep` and `StoreStep` are steps of the machine, the last because the bytes
written lie in one partition (`CpuSpaces`); everything else is a stutter (`CpuHides`), the save of the
registers included, since the mapping reads them from the CPU until they are in memory again.

`KernelThreadsProofs` proves, for any number of processes, threads, mutexes and priorities and for the
three algorithms, from `KernelThreadsAssumption` alone (ranges, and a null thread that is no thread):

| Theorem | Property |
|---|---|
| `TypeSafety` | `TypeOK` |
| `OneHomeEach` | `OneHome` |
| `MutexesAccounted` | `MutexAccounting` |
| `JoinedAlive` | `JoinedLives` |
| `ProcessesLive` | `ProcessLives` |
| `ExecNeverDangles` | `ExecNotDangling` |
| `KilledExitsOnly` | `KilledOnlyExits` |
| `IoIsCounted` | `IoCounted` |

`IInv` is `Types`, which holds in every state, and `Sound`, which holds up to the first stale hand-over. That is
not a weakness of the proof: section 6 has a run in which a thread then stands in READY twice. `Types` is `TypeOK` with
`IoCounted`, and the fact that the scheduler and the writer have a thread when they are at work. `Sound` is

- `Homes`: each family of lists (READY, joiners, waiters, IO) houses exactly the threads in the state it is for, each
  at one place (`Houses`), and only one thread is in each of the states EXEC, EXIT and BLOCKED_IO_EXEC;
- `Joins`: joins stay in a process, and a TCB that is gone has no joiners;
- `Locks`: a mutex is free, or has one holder and as many waiters as `instances` is below zero. An exiting thread
  holds what `resources_unassign` has not visited yet (`Held`);
- `Procs`: a process is alive while it has a TCB, TCBs are numbered below the size of the manager, and only
  processes that are alive have mutexes;
- `Control`: what the scheduler's place tells of `TCB_EXEC`, of who exits, who holds the write lock, which call gave
  the read lock up and whether a KILL is on its way.

The properties are neither inductive alone nor together. That a mutex passes to a thread which waits for it, in
its process, needs `HomeMutex` with `Locks`; that the mutexes may be dropped with the last TCB of a process
needs `Locks`, since nobody may hold or await one; and that the scheduler
finds `TCB_EXEC` alive after the gap in its lock needs `Control` with `Singles`. Removing from a list and appending to it
are `HousesAppend`, `HousesTail` and `HousesRemove`, over `RemoveFirstOnce` (what the removal of the first
occurrence leaves of a list without repetitions); there is one lemma `<Action>Step` per action for `Sound`, and
`<Part>Stay` for the parts that an action leaves alone.

Only model-checked: the liveness properties, which are out of the prover's reach: `RoundRobin`, `Admitted`,
`IoReturns`, `KilledExits`, `SchedulerReturns`, and in `DumpStore` `Answered` and `Stops`, the half of `Stores` that
`DumpsAreStored` leaves. No other property of a passing run is without a theorem. Induction over data is out of reach
too: where the arguments above need it, they use the least number that fails, or cardinalities.

## 6. Where the code and its own words differ

Each is a run that TLC ends with a counterexample.

1. `threads_cancel` / `CancelContinues`. `syscalls.c:225` says that THREAD_CANCEL of another thread,
   failed or not, goes on to a redispatch. If the other thread is READY, `transitions.c:105` takes
   the address of a list, put in `location` by `insert_state_ready`, for a `t_Ready`.
2. `threads_mutex` / `MutexExclusive`. A mutex has one instance (`syscalls.c:298`). When a thread exits
   with two of them, `tcb_unblock` of the first round of `resources_unassign` is used again in the
   second, for which nobody waits: the thread is made its holder though `instances` is free for
   another, and is put in READY twice.
3. `dispatch_quantum` / `EvictedByOwnQuantum`. "Desalojado por fin de Quantum" (`scheduler.c:461`) is
   logged for a thread whose quantum did not end: `IS_TCB_IN_CPU` is set after every system call, even
   one that does not redispatch (`scheduler.c:491`), so the interrupt of the old quantum may be sent
   late and meet the next run of the same thread.
4. `files_index` / `IndexComplete`. `filesystem.c:390` wants to make sure that the pointers fit in the
   index block, but does not count the index block's own number, which is copied too.
5. `ready_race` / `ReadyReachable`. `kernel.c:941` says that an existing list makes the function return
   at once, but this is decided before the lock is taken: of two racing resizes the smaller may come
   last and drop the other's list, with a READY thread in it.

Three more have no run. `LongTerm` has a sixth, which no comment contradicts: the lost wakeup that `StallExplained` and
`Admitted` except by `overwritten` (`scheduler.c:183` after `signal_free_memory`). `DumpPath` has a
seventh: `wait_dump_memory_threads` (`kernel.c:1163`) keeps `RWLOCK_SCHEDULING` for reading while it
waits for the list of petitions to be empty, and a petition that failed needs it for writing before it
leaves the list (`scheduler.c:959`). `Stops` in `DumpStore` excepts exactly this: a kernel that is
stopping goes down unless the dump of some thread has failed and had no consequence yet. Without the
exception TLC finds the deadlock. The eighth is not a matter of states but of C, in `Execution`: when
an instruction cannot be fetched (a program without an EXIT at its end), `cpu.c:254-256` and
`scheduler.c:381` mean the thread to be evicted with UNEXPECTED_ERROR, but `goto cleanup_ir` (257) jumps
over `pthread_cleanup_push` (259) to its `pthread_cleanup_pop(1)` (295), whose record was not filled in for this
instruction. What this does is undefined, as a rule a second `free` of the instruction before or a call of
nowhere, which ends the CPU. `FetchFails` has both outcomes; no property speaks of the second.

## 7. What is not modelled, and why

- The byte layout of messages, logging, parsing of instructions and of configurations: pure I/O. A
  message is a value and a TCP connection keeps order. What can go wrong with one (lost connections,
  messages received in part, connections tried again) is modelled where the code goes on afterwards,
  for dumps (`DumpPath`); elsewhere the modules exit.
- Start-up, which is sequential and gives each `Init`, and the shutdown but for SIGINT and the wait for
  petitioners: threads are cancelled and memory freed in the order of the cleanup handlers, and nothing
  is promised of the programs.
- A handler of memory that ends with `pthread_exit` because a call to the system failed.
- Failures of system calls (`malloc`, `pthread_*`): the modules exit.
- The times themselves. A quantum or an IO may end at any moment after it began.

## 8. Plan

Ordered by importance.

1. **Composition** of the kill of the running thread with the handling of its eviction
   (`KernelThreads` and `Dispatcher`): a kill that `scheduler.c:287` forgets.
2. **Abstractions** and refinements: an `Admission` (processes wait in order, are alive, are gone; as much
   memory as there is) that `LongTerm` implements; a `ThreadLife` (states and permitted transitions of a
   thread) that `KernelThreads` and `Dispatcher` both implement.
3. **Proofs** of what the first two items add: the refinements, by `IInv` of `LongTermProofs` and of
   `KernelThreadsProofs`; and `KernelThreads` beyond the stale hand-over, where of each thread only how often it
   stands in READY is wrong.
4. **Shutdown** (model): the cancellation of the schedulers and of the servers.
