----------------------------- MODULE FileSystem -----------------------------
(***************************************************************************)
(* The filesystem module (filesystem.c): one thread per DUMP_MEMORY of the *)
(* memory module reserves blocks in bitmap.dat under BITMAP.mutex, writes  *)
(* the index block and the data blocks of bloques.dat, and then the        *)
(* metadata file.  Both .dat files are mapped shared, so what was written  *)
(* to them outlives the program, which counts the free blocks anew when it *)
(* starts.  Blocks are never freed.                                        *)
(*                                                                         *)
(* bloques.dat is an array of cells of the size of a t_Block_Pointer.      *)
(***************************************************************************)
EXTENDS Integers, FiniteSets, Sequences

CONSTANTS
  BlockCount,    \* BLOCK_COUNT
  Pointers,      \* POINTERS_PER_BLOCK, the cells of a block
  Handler,       \* the threads that serve dumps
  Name,          \* file names, tuples: PID, TID and time of day
  Sizes,         \* sizes of dumps, in cells
  MaxRestarts    \* bound: how often the module is started again

ASSUME FileSystemAssumption ==
  /\ BlockCount \in Nat \ {0} /\ Pointers \in Nat \ {0}
  /\ Sizes \subseteq Nat
  /\ MaxRestarts \in Nat
  /\ IsFiniteSet(Handler)

VARIABLES
  used,          \* the bits of the bitmap that are set
  free,          \* BITMAP.free_blocks
  disk,          \* bloques.dat
  files,         \* the metadata files
  pc,            \* where each handler is
  job,           \* its filename, dump_size, dump and array
  next,          \* its array_pos
  dumps,         \* how many dumps were received
  restarts

fsVars == <<used, free, disk, files, pc, job, next, dumps, restarts>>

Block   == 0 .. BlockCount - 1
Address == 0 .. BlockCount * Pointers - 1

Unwritten == <<"NONE">>
Pointer(b) == <<"POINTER", b>>
Datum(dump, i) == <<"DATUM", dump, i>>

NoFile == [saved |-> FALSE]
NoJob  == [name |-> <<>>, size |-> 0, dump |-> 0, array |-> <<>>]

FsInit ==
  /\ used = {} /\ free = BlockCount
  /\ disk = [a \in Address |-> Unwritten]
  /\ files = [n \in Name |-> NoFile]
  /\ pc = [h \in Handler |-> "IDLE"]
  /\ job = [h \in Handler |-> NoJob]
  /\ next = [h \in Handler |-> 0]
  /\ dumps = 0 /\ restarts = 0

DataBlocks(size) == (size + Pointers - 1) \div Pointers
\* ... and the index block
BlocksNecessary(size) == DataBlocks(size) + 1

Goes(h, from, to) == pc[h] = from /\ pc' = [pc EXCEPT ![h] = to]

-----------------------------------------------------------------------------
(* filesystem_client_handler_for_memory                                    *)

Receive(h, name, size) ==
  /\ Goes(h, "IDLE", "RESERVE")
  /\ dumps' = dumps + 1
  /\ job' = [job EXCEPT ![h] = [name |-> name, size |-> size,
                                dump |-> dumps + 1, array |-> <<>>]]
  /\ UNCHANGED <<used, free, disk, files, next, restarts>>

Fits(size) == DataBlocks(size) <= Pointers /\ BlocksNecessary(size) <= free

Refuse(h) ==
  /\ Goes(h, "RESERVE", "ANSWER") /\ ~Fits(job[h].size)
  /\ UNCHANGED <<used, free, disk, files, job, next, dumps, restarts>>

\* set_bits_bitmap takes the free blocks with the lowest numbers, in order
LastFree(array) ==
  /\ \A i, j \in DOMAIN array : i < j => array[i] > array[j]
  /\ \A i \in DOMAIN array : array[i] \notin used
  /\ \A b \in Block \ used, i \in DOMAIN array :
       b > array[i] => \E j \in DOMAIN array : array[j] = b
FirstFree(array) ==
  /\ \A i, j \in DOMAIN array : i < j => array[i] < array[j]
  /\ \A i \in DOMAIN array : array[i] \notin used
  /\ \A b \in Block \ used, i \in DOMAIN array :
       b < array[i] => \E j \in DOMAIN array : array[j] = b

Blocks(array) == {array[i] : i \in DOMAIN array}

UncountedIndex(size) == free - DataBlocks(size)
CountedTwice(size) == free - 2 * BlocksNecessary(size)
FreeAfter(size) == free - BlocksNecessary(size)

Reserve(h) ==
  /\ Goes(h, "RESERVE", "INDEX") /\ Fits(job[h].size)
  /\ \E array \in [1 .. BlocksNecessary(job[h].size) -> Block] :
       /\ FirstFree(array)
       /\ used' = used \cup Blocks(array)
       /\ job' = [job EXCEPT ![h].array = array]
  /\ free' = FreeAfter(job[h].size)
  /\ UNCHANGED <<disk, files, next, dumps, restarts>>

\* memcpy to the start of a block: nothing stops it at the block's end
Written(block, cells) ==
  [a \in Address |->
     IF a - block * Pointers + 1 \in DOMAIN cells
     THEN cells[a - block * Pointers + 1] ELSE disk[a]]

\* The whole array, its first entry the index block itself
WriteIndex(h) ==
  LET array == job[h].array IN
  /\ Goes(h, "INDEX", IF Len(array) > 1 THEN "DATA" ELSE "CREATE")
  /\ disk' = Written(array[1], [i \in DOMAIN array |-> Pointer(array[i])])
  /\ next' = [next EXCEPT ![h] = 1]
  /\ UNCHANGED <<used, free, files, job, dumps, restarts>>

\* The cells of the k-th data block; the last block may be partly used
PartSize(size, k) ==
  IF k = DataBlocks(size) THEN size - Pointers * (DataBlocks(size) - 1)
  ELSE Pointers
Part(j, k) ==
  [i \in 1 .. PartSize(j.size, k) |-> Datum(j.dump, (k - 1) * Pointers + i)]

WriteData(h) ==
  LET k == next[h] IN
  /\ Goes(h, "DATA", IF k = DataBlocks(job[h].size) THEN "CREATE" ELSE "DATA")
  /\ disk' = Written(job[h].array[k + 1], Part(job[h], k))
  /\ next' = [next EXCEPT ![h] = k + 1]
  /\ UNCHANGED <<used, free, files, job, dumps, restarts>>

\* create_metadata_file: fopen empties the file, config_save fills it
CreateMetadata(h) ==
  /\ Goes(h, "CREATE", "SAVE")
  /\ files' = [files EXCEPT ![job[h].name] = NoFile]
  /\ UNCHANGED <<used, free, disk, job, next, dumps, restarts>>

Metadata(j) == [saved |-> TRUE, size |-> j.size, index |-> j.array[1],
                dump |-> j.dump]

SaveMetadata(h) ==
  /\ Goes(h, "SAVE", "ANSWER")
  /\ files' = [files EXCEPT ![job[h].name] = Metadata(job[h])]
  /\ UNCHANGED <<used, free, disk, job, next, dumps, restarts>>

Forget(h) ==
  /\ job' = [job EXCEPT ![h] = NoJob]
  /\ next' = [next EXCEPT ![h] = 0]
  /\ UNCHANGED <<used, free, disk, files, dumps, restarts>>

\* config_create or config_save failed: the thread ends without an answer
FailMetadata(h) == Goes(h, "SAVE", "IDLE") /\ Forget(h)

Answer(h) == Goes(h, "ANSWER", "IDLE") /\ Forget(h)

-----------------------------------------------------------------------------
\* The bits that a set_bits_bitmap has set when the module ends in its middle
Begun(bits) ==
  \E h \in Handler :
    /\ pc[h] = "RESERVE" /\ Fits(job[h].size)
    /\ \E k \in 1 .. BlocksNecessary(job[h].size) - 1 :
         \E array \in [1 .. k -> Block] :
           FirstFree(array) /\ bits = Blocks(array)

\* check_bitmap_free_blocks
Recounted(bits) ==
  used' = used \cup bits /\ free' = Cardinality(Block \ used')

\* The module ends at any time and starts again: bitmap_init and blocks_init.
\* What a memcpy cut short has written lies in blocks that nobody will read.
Restart ==
  /\ restarts < MaxRestarts
  /\ restarts' = restarts + 1
  /\ \E bits \in SUBSET Block : (bits = {} \/ Begun(bits)) /\ Recounted(bits)
  /\ pc' = [h \in Handler |-> "IDLE"]
  /\ job' = [h \in Handler |-> NoJob]
  /\ next' = [h \in Handler |-> 0]
  /\ UNCHANGED <<disk, files, dumps>>

\* All steps of a handler but its first and its last
Work(h) ==
  \/ Refuse(h) \/ Reserve(h) \/ WriteIndex(h) \/ WriteData(h)
  \/ CreateMetadata(h) \/ SaveMetadata(h) \/ FailMetadata(h)

-----------------------------------------------------------------------------
(* Properties *)

\* The type invariant.
FsTypeOK ==
  /\ used \subseteq Block /\ free \in 0 .. BlockCount
  /\ DOMAIN disk = Address
  /\ files \in [Name -> {NoFile} \cup [saved : {TRUE}, size : Sizes,
                                      index : Block, dump : Nat]]
  /\ pc \in [Handler -> {"IDLE", "RESERVE", "INDEX", "DATA", "CREATE", "SAVE",
                         "ANSWER"}]
  /\ job \in [Handler -> {NoJob} \cup [name : Name, size : Sizes, dump : Nat,
                                      array : Seq(Block)]]
  /\ next \in [Handler -> Nat]
  /\ dumps \in Nat /\ restarts \in 0 .. MaxRestarts

\* free_blocks is what a new start would count, so that set_bits_bitmap finds
\* the blocks it needs ("Ya sabemos de antemano que hay suficientes bloques
\* libres") and does not run off the bitmap.
FreeCounted == free = Cardinality(Block \ used)

\* The cells of the file n that its index block can lead to, and the cells the
\* dump had there
LedTo(n, entries) ==
  LET f == files[n]
      cell(b, i) == disk[b * Pointers + i]
  IN \A k \in 1 .. DataBlocks(f.size) :
       k <= entries =>
         \E b \in Block :
           /\ cell(f.index, k) = Pointer(b)
           /\ \A i \in 1 .. PartSize(f.size, k) :
                cell(b, i - 1) = Datum(f.dump, (k - 1) * Pointers + i)

\* The number of the dump that reads back under the name n, 0 for none: all of
\* it that the index block has room for is where its index block says
StoredAs(n) ==
  IF files[n].saved /\ LedTo(n, Pointers - 1) THEN files[n].dump ELSE 0

\* Every data block of a saved file can be found from its index block: "no
\* excedas la cantidad de punteros que un indice puede almacenar".
IndexComplete ==
  \A n \in Name : files[n].saved => LedTo(n, DataBlocks(files[n].size))

\* bloques.dat is only written in the blocks that the writing handler has
\* reserved, although the copy of the array may pass the end of the index
\* block: the block after it is always the handler's own.
WritesOwn ==
  [][\A a \in Address : disk'[a] # disk[a] =>
       \E h \in Handler : /\ pc[h] \in {"INDEX", "DATA"}
                          /\ next'[h] # next[h]
                          /\ a \div Pointers \in Blocks(job[h].array)]_fsVars
=============================================================================
