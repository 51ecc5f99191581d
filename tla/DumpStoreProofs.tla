-------------------------- MODULE DumpStoreProofs --------------------------
(***************************************************************************)
(* Kernel, memory and filesystem implement the safety part of DumpStore,   *)
(* for any number of threads, blocks, pointers per block, sizes, calls and *)
(* restarts.                                                               *)
(*                                                                         *)
(* Half of the argument is about bloques.dat: the regions of the dumps     *)
(* that are being written and of those that are saved do not meet, so that *)
(* what was written stays, and a saved file reads back (SavedReadsBack).   *)
(* The other half is about the messages (Link): what the parties on the    *)
(* way of a dump hold in their hands is the truth about it.                *)
(***************************************************************************)
EXTENDS DumpPathProofs

Owner(h) == pc[h] \in {"INDEX", "DATA", "CREATE", "SAVE"}

\* The index block of a dump and the blocks of its data
Region(b, size) == b .. b + DataBlocks(size)
Base(h) == job[h].array[1]
OwnRegion(h) == Region(Base(h), job[h].size)

\* What is on the disk for a dump: its index, as far as there is room for it,
\* and the k-th part of its data
IndexOn(b, size) ==
  \A i \in 1 .. DataBlocks(size) :
    i < Pointers => disk[b * Pointers + i] = Pointer(b + i)
PartOn(b, size, dump, k) ==
  \A i \in 1 .. PartSize(size, k) :
    disk[(b + k) * Pointers + (i - 1)] = Datum(dump, (k - 1) * Pointers + i)

PartsWritten(h) ==
  IF pc[h] = "DATA" THEN next[h] - 1 ELSE DataBlocks(job[h].size)

\* The regions being written are reserved and do not meet
RegionsApart ==
  \A h \in Handler : Owner(h) =>
    /\ OwnRegion(h) \subseteq used
    /\ \A g \in Handler \ {h} : Owner(g) => OwnRegion(g) \cap OwnRegion(h) = {}

Progress ==
  \A h \in Handler : pc[h] \in {"DATA", "CREATE", "SAVE"} =>
    /\ IndexOn(Base(h), job[h].size)
    /\ \A k \in 1 .. DataBlocks(job[h].size) :
         k <= PartsWritten(h) => PartOn(Base(h), job[h].size, job[h].dump, k)

FileRegion(n) == Region(files[n].index, files[n].size)

\* Nobody writes where a saved dump is, and it is there
SavedApart ==
  \A n \in Name : files[n].saved =>
    /\ FileRegion(n) \subseteq used
    /\ \A h \in Handler : Owner(h) => FileRegion(n) \cap OwnRegion(h) = {}

SavedOn ==
  \A n \in Name : files[n].saved =>
    /\ IndexOn(files[n].index, files[n].size)
    /\ \A k \in 1 .. DataBlocks(files[n].size) :
         PartOn(files[n].index, files[n].size, files[n].dump, k)

DiskInv == RegionsApart /\ Progress /\ SavedApart /\ SavedOn

-----------------------------------------------------------------------------
(* Cells                                                                   *)

\* The cells of a block are its own, and are on the disk.
LEMMA CellOf ==
  ASSUME NEW b \in Block, NEW i \in 0 .. Pointers - 1
  PROVE  b * Pointers + i \in Address /\ (b * Pointers + i) \div Pointers = b
<1>1. /\ Pointers \in Nat /\ Pointers > 0 /\ BlockCount \in Nat
      /\ b \in Nat /\ b <= BlockCount - 1 /\ b * Pointers \in Nat
  BY FileSystemAssumption DEF Block
<1>2. b * Pointers <= (BlockCount - 1) * Pointers
  BY <1>1
<1>3. (BlockCount - 1) * Pointers = BlockCount * Pointers - Pointers
  BY <1>1
<1>4. b * Pointers + i \in Address
  BY <1>1, <1>2, <1>3 DEF Address
<1>5. (b * Pointers + i) \div Pointers = b
  BY <1>1, BlockOf
<1>6. QED
  BY <1>4, <1>5

\* The array of a handler is its region, in order.
LEMMA RegionIsArray ==
  ASSUME FsInv, NEW h \in Handler, Owner(h)
  PROVE  /\ job[h].size \in Nat /\ DataBlocks(job[h].size) \in Nat
         /\ job[h].array \in Seq(Block)
         /\ Len(job[h].array) = DataBlocks(job[h].size) + 1
         /\ Base(h) \in Nat
         /\ \A i \in 0 .. DataBlocks(job[h].size) :
              job[h].array[i + 1] = Base(h) + i /\ Base(h) + i \in Block
         /\ Blocks(job[h].array) = OwnRegion(h)
<1> DEFINE size == job[h].size
           array == job[h].array
           n == DataBlocks(size)
<1>1. array \in Seq(Block) /\ size \in Nat
  BY FileSystemAssumption DEF Owner, FsInv, Working, Job
<1>2. n \in Nat
  BY <1>1, DataBlocksFacts
<1>3. Len(array) = n + 1 /\ Interval(array)
  BY DEF Owner, FsInv, Holding, BlocksNecessary
<1>4. \A i \in 0 .. n : array[i + 1] \in Block
  <2>1. \A i \in 0 .. n : i + 1 \in 1 .. Len(array)
    BY <1>2, <1>3
  <2>2. QED
    BY <1>1, <2>1, ElementOfSeq
<1>5. array[1] \in Nat
  <2>1. 0 \in 0 .. n /\ 0 + 1 = 1
    BY <1>2
  <2>2. array[1] \in Block
    BY <1>4, <2>1
  <2>3. QED
    BY <2>2 DEF Block
<1>6. \A i \in 0 .. n : array[i + 1] = array[1] + i
  BY <1>2, <1>3, <1>5 DEF Interval
<1>7. Blocks(array) = array[1] .. array[1] + n
  <2>1. DOMAIN array = 1 .. n + 1
    BY <1>1, <1>3
  <2>2. ASSUME NEW i \in 1 .. n + 1
        PROVE  array[i] \in array[1] .. array[1] + n
    BY <1>2, <1>3, <1>5 DEF Interval
  <2>3. ASSUME NEW b \in array[1] .. array[1] + n
        PROVE  \E i \in 1 .. n + 1 : array[i] = b
    <3>1. b - array[1] \in 0 .. n /\ (b - array[1]) + 1 \in 1 .. n + 1
      BY <1>2, <1>5
    <3>2. array[(b - array[1]) + 1] = b
      BY <1>5, <1>6, <3>1
    <3>3. QED
      BY <3>1, <3>2
  <2>4. QED
    BY <2>1, <2>2, <2>3 DEF Blocks
<1>8. QED
  BY <1>1, <1>2, <1>3, <1>4, <1>5, <1>6, <1>7 DEF Base, OwnRegion, Region

\* A handler that writes leaves the other regions as they are.
LEMMA CellKept ==
  ASSUME FsInv, NEW h \in Handler, WriteIndex(h) \/ WriteData(h),
         NEW b \in Block \ OwnRegion(h), NEW i \in 0 .. Pointers - 1
  PROVE  disk'[b * Pointers + i] = disk[b * Pointers + i]
<1>1. pc[h] \in {"INDEX", "DATA"} /\ OwnWrites
  BY IndexWritesOwn, DataWritesOwn DEF WriteIndex, WriteData, Goes
<1>2. \A g \in Handler : next'[g] # next[g] => g = h
  BY DEF WriteIndex, WriteData, FsInv, FsTypeOK
<1>3. Blocks(job[h].array) = OwnRegion(h)
  BY <1>1, RegionIsArray DEF Owner
<1>4. b * Pointers + i \in Address /\ (b * Pointers + i) \div Pointers = b
  BY CellOf
<1>5. QED
  BY <1>1, <1>2, <1>3, <1>4 DEF OwnWrites

LEMMA RegionKept ==
  ASSUME FsInv, NEW h \in Handler, WriteIndex(h) \/ WriteData(h),
         NEW b \in Nat, NEW size \in Nat, NEW dump,
         Region(b, size) \subseteq Block, Region(b, size) \cap OwnRegion(h) = {}
  PROVE  /\ IndexOn(b, size) => IndexOn(b, size)'
         /\ \A k \in 1 .. DataBlocks(size) :
              PartOn(b, size, dump, k) => PartOn(b, size, dump, k)'
<1>1. DataBlocks(size) \in Nat /\ Pointers \in Nat /\ Pointers > 0
  BY DataBlocksFacts, FileSystemAssumption
<1>2. \A k \in 0 .. DataBlocks(size) : b + k \in Block \ OwnRegion(h)
  BY <1>1 DEF Region
<1>3. ASSUME IndexOn(b, size) PROVE IndexOn(b, size)'
  <2>1. SUFFICES ASSUME NEW i \in 1 .. DataBlocks(size), i < Pointers
                 PROVE  disk'[b * Pointers + i] = Pointer(b + i)
    BY DEF IndexOn
  <2>2. i \in 0 .. Pointers - 1 /\ b + 0 = b /\ 0 \in 0 .. DataBlocks(size)
    BY <1>1, <2>1
  <2>3. b \in Block \ OwnRegion(h)
    BY <1>2, <2>2
  <2>4. disk'[b * Pointers + i] = disk[b * Pointers + i]
    BY <2>2, <2>3, CellKept
  <2>5. QED
    BY <1>3, <2>1, <2>4 DEF IndexOn
<1>4. ASSUME NEW k \in 1 .. DataBlocks(size), PartOn(b, size, dump, k)
      PROVE  PartOn(b, size, dump, k)'
  <2>1. SUFFICES ASSUME NEW i \in 1 .. PartSize(size, k)
                 PROVE  disk'[(b + k) * Pointers + (i - 1)]
                          = Datum(dump, (k - 1) * Pointers + i)
    BY DEF PartOn
  <2>2. i - 1 \in 0 .. Pointers - 1 /\ k \in 0 .. DataBlocks(size)
    BY <1>1, PartFits
  <2>3. b + k \in Block \ OwnRegion(h)
    BY <1>2, <2>2
  <2>4. disk'[(b + k) * Pointers + (i - 1)] = disk[(b + k) * Pointers + (i - 1)]
    BY <2>2, <2>3, CellKept
  <2>5. QED
    BY <1>4, <2>4 DEF PartOn
<1>5. QED
  BY <1>3, <1>4

\* WriteIndex puts the whole index on the disk.
LEMMA IndexWritten ==
  ASSUME FsInv, NEW h \in Handler, WriteIndex(h)
  PROVE  IndexOn(Base(h), job[h].size)'
<1> DEFINE b == Base(h)
           size == job[h].size
           array == job[h].array
           cells == [i \in DOMAIN array |-> Pointer(array[i])]
<1>1. Owner(h) /\ disk' = Written(b, cells) /\ job' = job
  BY DEF WriteIndex, Goes, Owner, Base
<1>2. /\ DataBlocks(size) \in Nat /\ b \in Nat
      /\ DOMAIN array = 1 .. DataBlocks(size) + 1
      /\ \A i \in 0 .. DataBlocks(size) :
           array[i + 1] = b + i /\ b + i \in Block
  BY <1>1, RegionIsArray
<1> HIDE DEF b, size, array
<1>3. SUFFICES ASSUME NEW i \in 1 .. DataBlocks(size), i < Pointers
               PROVE  disk'[b * Pointers + i] = Pointer(b + i)
  BY <1>1 DEF IndexOn, Base, b, size
<1>4. Pointers \in Nat /\ b * Pointers \in Nat
  BY <1>2, FileSystemAssumption
<1>5. b * Pointers + i \in Address
  <2>1. b \in Block /\ i \in 0 .. Pointers - 1
    <3>1. 0 \in 0 .. DataBlocks(size) /\ b + 0 = b
      BY <1>2
    <3>2. QED
      BY <1>2, <1>3, <1>4, <3>1
  <2>2. QED
    BY <2>1, CellOf
<1>6. /\ (b * Pointers + i) - b * Pointers + 1 = i + 1
      /\ i + 1 \in DOMAIN cells /\ array[i + 1] = b + i
  BY <1>2, <1>3, <1>4
<1>7. disk'[b * Pointers + i] = cells[i + 1]
  BY <1>1, <1>5, <1>6 DEF Written
<1>8. QED
  BY <1>6, <1>7

\* WriteData puts one more part there, and leaves the blocks before it alone.
LEMMA EarlierKept ==
  ASSUME FsInv, NEW h \in Handler, WriteData(h),
         NEW k \in 0 .. next[h] - 1, NEW i \in 0 .. Pointers - 1
  PROVE  disk'[(Base(h) + k) * Pointers + i] = disk[(Base(h) + k) * Pointers + i]
<1> DEFINE b == Base(h)
           m == next[h]
           cells == Part(job[h], m)
<1>1. Owner(h) /\ disk' = Written(job[h].array[m + 1], cells)
  BY DEF WriteData, Goes, Owner
<1>2. m \in 1 .. DataBlocks(job[h].size) /\ DataBlocks(job[h].size) \in Nat
  BY <1>1, RegionIsArray DEF WriteData, Goes, FsInv, Position
<1>3. b \in Nat /\ b + k \in Block /\ job[h].array[m + 1] = b + m
  <2>1. k \in 0 .. DataBlocks(job[h].size) /\ m \in 0 .. DataBlocks(job[h].size)
    BY <1>2
  <2>2. QED
    BY <1>1, <2>1, RegionIsArray
<1>4. DOMAIN cells = 1 .. PartSize(job[h].size, m)
  BY DEF Part
<1> HIDE DEF b, m, cells
<1>5. Pointers \in Nat /\ Pointers > 0
  BY FileSystemAssumption
<1>6. k \in Nat /\ m \in Nat /\ k + 1 <= m
  BY <1>2 DEF m
<1>7. (b + k + 1) * Pointers <= (b + m) * Pointers
  BY <1>3, <1>5, <1>6
<1>8. (b + k + 1) * Pointers = (b + k) * Pointers + Pointers
  BY <1>3, <1>5, <1>6
<1>9. (b + k) * Pointers \in Nat /\ (b + m) * Pointers \in Nat
  BY <1>3, <1>5, <1>6
<1>10. ((b + k) * Pointers + i) - (b + m) * Pointers + 1 <= 0
  BY <1>5, <1>7, <1>8, <1>9
<1>11. (b + k) * Pointers + i \in Address
  BY <1>3, CellOf
<1>12. ((b + k) * Pointers + i) - (b + m) * Pointers + 1 \notin DOMAIN cells
  BY <1>4, <1>9, <1>10
<1>13. QED
  BY <1>1, <1>3, <1>11, <1>12 DEF Written, b

LEMMA PartWritten ==
  ASSUME FsInv, NEW h \in Handler, WriteData(h), NEW m, m = next[h]
  PROVE  PartOn(Base(h), job[h].size, job[h].dump, m)'
<1> DEFINE b == Base(h)
           size == job[h].size
           cells == Part(job[h], m)
<1>1. Owner(h) /\ disk' = Written(job[h].array[m + 1], cells) /\ job' = job
  BY DEF WriteData, Goes, Owner
<1>2. m \in 1 .. DataBlocks(size) /\ DataBlocks(size) \in Nat
  BY <1>1, RegionIsArray DEF WriteData, Goes, FsInv, Position
<1>3. /\ b \in Nat /\ b + m \in Block /\ job[h].array[m + 1] = b + m
      /\ size \in Nat
  BY <1>1, <1>2, RegionIsArray, SMTT(30)
<1>4. cells = [i \in 1 .. PartSize(size, m) |->
                 Datum(job[h].dump, (m - 1) * Pointers + i)]
  BY DEF Part
<1> HIDE DEF b, size, cells
<1>5. SUFFICES ASSUME NEW i \in 1 .. PartSize(size, m)
               PROVE  disk'[(b + m) * Pointers + (i - 1)]
                        = Datum(job[h].dump, (m - 1) * Pointers + i)
  BY <1>1 DEF PartOn, Base, b, size
<1>6. Pointers \in Nat /\ (b + m) * Pointers \in Nat
  BY <1>2, <1>3, FileSystemAssumption
<1>7. i - 1 \in 0 .. Pointers - 1
  BY <1>2, <1>3, <1>6, PartFits
<1>8. (b + m) * Pointers + (i - 1) \in Address
  BY <1>3, <1>7, CellOf
<1>9. ((b + m) * Pointers + (i - 1)) - (b + m) * Pointers + 1 = i
  BY <1>6, <1>7
<1>10. disk'[(b + m) * Pointers + (i - 1)] = cells[i]
  <2>1. i \in DOMAIN cells
    BY <1>4
  <2>2. QED
    BY <1>1, <1>3, <1>8, <1>9, <2>1 DEF Written
<1>11. QED
  BY <1>4, <1>10

LEMMA EarlierPartsKept ==
  ASSUME FsInv, NEW h \in Handler, WriteData(h)
  PROVE  /\ IndexOn(Base(h), job[h].size) => IndexOn(Base(h), job[h].size)'
         /\ \A k \in 1 .. next[h] - 1 :
              PartOn(Base(h), job[h].size, job[h].dump, k)
                => PartOn(Base(h), job[h].size, job[h].dump, k)'
<1> DEFINE b == Base(h)
           size == job[h].size
<1>1. Owner(h) /\ job' = job
  BY DEF WriteData, Goes, Owner
<1>2. next[h] \in 1 .. DataBlocks(size) /\ size \in Nat /\ b \in Nat
      /\ DataBlocks(size) \in Nat
  BY <1>1, RegionIsArray DEF WriteData, Goes, FsInv, Position
<1>3. Pointers \in Nat
  BY FileSystemAssumption
<1>4. ASSUME IndexOn(b, size), NEW i \in 1 .. DataBlocks(size), i < Pointers
      PROVE  disk'[b * Pointers + i] = Pointer(b + i)
  <2>1. 0 \in 0 .. next[h] - 1 /\ i \in 0 .. Pointers - 1 /\ b + 0 = b
    BY <1>2, <1>3, <1>4
  <2>2. disk'[(b + 0) * Pointers + i] = disk[(b + 0) * Pointers + i]
    BY <2>1, EarlierKept
  <2>3. QED
    BY <1>4, <2>1, <2>2 DEF IndexOn
<1>5. ASSUME NEW k \in 1 .. next[h] - 1, PartOn(b, size, job[h].dump, k),
             NEW i \in 1 .. PartSize(size, k)
      PROVE  disk'[(b + k) * Pointers + (i - 1)]
               = Datum(job[h].dump, (k - 1) * Pointers + i)
  <2>1. k \in 1 .. DataBlocks(size) /\ k \in 0 .. next[h] - 1
    BY <1>2
  <2>2. i - 1 \in 0 .. Pointers - 1
    BY <1>2, <1>3, <2>1, PartFits
  <2>3. disk'[(b + k) * Pointers + (i - 1)] = disk[(b + k) * Pointers + (i - 1)]
    BY <2>1, <2>2, EarlierKept
  <2>4. QED
    BY <1>5, <2>3 DEF PartOn
<1>6. QED
  BY <1>1, <1>4, <1>5 DEF IndexOn, PartOn, Base

\* What a saved file has.
LEMMA SavedFile ==
  ASSUME FsInv, NEW n \in Name, files[n].saved
  PROVE  /\ files[n].index \in Block /\ files[n].index \in Nat
         /\ files[n].size \in Nat /\ files[n].dump \in Nat
<1> DEFINE Files == [saved : {TRUE}, size : Sizes, index : Block, dump : Nat]
<1>1. files[n] \in {NoFile} \cup Files
  BY DEF FsInv, FsTypeOK
<1>2. NoFile.saved = FALSE
  BY DEF NoFile
<1>3. files[n] \in Files
  BY <1>1, <1>2
<1>4. \A b \in Block : b \in Nat
  BY DEF Block
<1>5. QED
  BY <1>3, <1>4, FileSystemAssumption

-----------------------------------------------------------------------------
(* A step of the filesystem keeps DiskInv                                  *)

\* Handlers that give up, end or have not reserved anything yet.
LEMMA LeavingKeepsDisk ==
  ASSUME DiskInv, UNCHANGED <<disk, files>>, used \subseteq used',
         \A h \in Handler : Owner(h)' =>
           /\ Owner(h) /\ pc'[h] = pc[h] /\ job'[h] = job[h]
           /\ next'[h] = next[h]
  PROVE  DiskInv'
<1>1. RegionsApart'
  BY DEF DiskInv, RegionsApart, OwnRegion, Base, Region
<1>2. Progress'
  BY DEF DiskInv, Progress, Owner, Base, PartsWritten, IndexOn, PartOn
<1>3. SavedApart'
  BY DEF DiskInv, SavedApart, FileRegion, OwnRegion, Base, Region
<1>4. SavedOn'
  BY DEF DiskInv, SavedOn, IndexOn, PartOn
<1>5. QED
  BY <1>1, <1>2, <1>3, <1>4 DEF DiskInv

\* The new region comes after all others.
LEMMA ReserveKeepsDisk ==
  ASSUME FsInv, DiskInv, NEW h \in Handler, Reserve(h)
  PROVE  DiskInv'
<1> DEFINE size == job[h].size
           n == BlocksNecessary(size)
<1>1. /\ pc[h] = "RESERVE" /\ pc' = [pc EXCEPT ![h] = "INDEX"]
      /\ UNCHANGED <<disk, files, next>>
  BY DEF Reserve, Goes
<1>2. PICK array \in [1 .. n -> Block] :
        /\ FirstFree(array)
        /\ used' = used \cup Blocks(array)
        /\ job' = [job EXCEPT ![h].array = array]
  BY DEF Reserve
<1>3. DataBlocks(size) \in Nat
  <2>1. size \in Nat
    BY <1>1, FileSystemAssumption DEF FsInv, Working, Job
  <2>2. QED
    BY <2>1, DataBlocksFacts
<1>4. n = DataBlocks(size) + 1 /\ n \in Nat \ {0}
  BY <1>3 DEF BlocksNecessary
<1>5. PICK k \in 0 .. BlockCount : used = 0 .. k - 1
  BY DEF FsInv, InOrder
<1> HIDE DEF n
<1>6. array[1] = k /\ used' = 0 .. (k + n) - 1
  BY <1>2, <1>4, <1>5, FirstFreeFacts
<1>7. /\ job'[h].array = array /\ job'[h].size = size
      /\ \A g \in Handler \ {h} : job'[g] = job[g] /\ pc'[g] = pc[g]
      /\ pc'[h] = "INDEX"
  <2>1. job[h] \in Job
    BY <1>1 DEF FsInv, Working
  <2>2. [job[h] EXCEPT !.array = array].array = array
        /\ [job[h] EXCEPT !.array = array].size = size
    BY <2>1 DEF Job
  <2>3. QED
    BY <1>1, <1>2, <2>2 DEF FsInv, FsTypeOK
<1>8. OwnRegion(h)' = k .. k + DataBlocks(size)
  BY <1>6, <1>7 DEF OwnRegion, Base, Region, DataBlocks
<1>9. OwnRegion(h)' \subseteq used' /\ OwnRegion(h)' \cap used = {}
      /\ used \subseteq used'
  BY <1>3, <1>4, <1>5, <1>6, <1>8, FileSystemAssumption
<1>10. \A g \in Handler \ {h} : /\ Owner(g)' = Owner(g)
                                 /\ OwnRegion(g)' = OwnRegion(g)
  BY <1>7 DEF Owner, OwnRegion, Base, Region
<1>11. \A g \in Handler \ {h} : Owner(g) => OwnRegion(g) \subseteq used
  BY DEF DiskInv, RegionsApart
<1>12. RegionsApart'
  <2>1. ASSUME NEW g \in Handler, Owner(g)' PROVE OwnRegion(g)' \subseteq used'
    BY <1>9, <1>10, <1>11, <2>1
  <2>2. ASSUME NEW g \in Handler, NEW f \in Handler \ {g}, Owner(g)', Owner(f)'
        PROVE  OwnRegion(f)' \cap OwnRegion(g)' = {}
    <3>1. CASE g = h
      BY <1>9, <1>10, <1>11, <2>2, <3>1
    <3>2. CASE f = h
      BY <1>9, <1>10, <1>11, <2>2, <3>2
    <3>3. CASE g # h /\ f # h
      BY <1>10, <2>2, <3>3 DEF DiskInv, RegionsApart
    <3>4. QED
      BY <3>1, <3>2, <3>3
  <2>3. QED
    BY <2>1, <2>2 DEF RegionsApart
<1>13. Progress'
  BY <1>1, <1>7 DEF DiskInv, Progress, Base, PartsWritten, IndexOn, PartOn
<1>14. SavedApart'
  <2>1. \A m \in Name : FileRegion(m)' = FileRegion(m)
    BY <1>1 DEF FileRegion, Region
  <2>2. ASSUME NEW m \in Name, files'[m].saved
        PROVE  /\ FileRegion(m)' \subseteq used'
               /\ \A g \in Handler : Owner(g)' =>
                    FileRegion(m)' \cap OwnRegion(g)' = {}
    <3>1. FileRegion(m) \subseteq used
      BY <1>1, <2>2 DEF DiskInv, SavedApart
    <3>2. \A g \in Handler \ {h} : Owner(g) => FileRegion(m) \cap OwnRegion(g) = {}
      BY <1>1, <2>2 DEF DiskInv, SavedApart
    <3>3. QED
      BY <1>9, <1>10, <2>1, <3>1, <3>2
  <2>3. QED
    BY <2>2 DEF SavedApart
<1>15. SavedOn'
  BY <1>1 DEF DiskInv, SavedOn, IndexOn, PartOn
<1>16. QED
  BY <1>12, <1>13, <1>14, <1>15 DEF DiskInv

\* Who writes keeps its region, and does not touch the others.
LEMMA WritesKeepDisk ==
  ASSUME FsInv, DiskInv, NEW h \in Handler, WriteIndex(h) \/ WriteData(h)
  PROVE  DiskInv'
<1>1. /\ UNCHANGED <<used, files, job>> /\ Owner(h) /\ Owner(h)'
      /\ pc[h] \in {"INDEX", "DATA"} /\ pc'[h] \in {"DATA", "CREATE"}
      /\ \A g \in Handler \ {h} : pc'[g] = pc[g] /\ next'[g] = next[g]
  BY DEF WriteIndex, WriteData, Goes, Owner, FsInv, FsTypeOK
<1>2. \A g \in Handler : Owner(g)' = Owner(g) /\ OwnRegion(g)' = OwnRegion(g)
  BY <1>1 DEF Owner, OwnRegion, Base, Region
<1>3. \A m \in Name : FileRegion(m)' = FileRegion(m)
  BY <1>1 DEF FileRegion, Region
<1>4. RegionsApart'
  BY <1>1, <1>2 DEF DiskInv, RegionsApart
<1>5. SavedApart'
  BY <1>1, <1>2, <1>3 DEF DiskInv, SavedApart
<1>6. ASSUME NEW g \in Handler, pc'[g] \in {"DATA", "CREATE", "SAVE"}
      PROVE  /\ IndexOn(Base(g), job[g].size)'
             /\ \A k \in 1 .. DataBlocks(job[g].size) :
                  k <= PartsWritten(g)'
                    => PartOn(Base(g), job[g].size, job[g].dump, k)'
  <2>1. CASE g # h
    <3>1. Owner(g) /\ PartsWritten(g)' = PartsWritten(g) /\ Base(g)' = Base(g)
      BY <1>1, <1>6, <2>1 DEF Owner, PartsWritten, Base
    <3>2. Base(g) \in Nat /\ job[g].size \in Nat
      BY <3>1, RegionIsArray
    <3>3. OwnRegion(g) \subseteq Block /\ OwnRegion(g) \cap OwnRegion(h) = {}
      BY <1>1, <2>1, <3>1 DEF DiskInv, RegionsApart, FsInv, FsTypeOK
    <3>4. /\ IndexOn(Base(g), job[g].size)
          /\ \A k \in 1 .. DataBlocks(job[g].size) :
               k <= PartsWritten(g) => PartOn(Base(g), job[g].size, job[g].dump, k)
      BY <1>1, <1>6, <2>1 DEF DiskInv, Progress
    <3> DEFINE b == Base(g)
               size == job[g].size
               dump == job[g].dump
    <3>5. PICK c \in Nat, s \in Nat, d \in {dump} : c = b /\ s = size
      BY <3>2
    <3>6. /\ IndexOn(c, s) => IndexOn(c, s)'
          /\ \A k \in 1 .. DataBlocks(s) : PartOn(c, s, d, k) => PartOn(c, s, d, k)'
      BY <3>3, <3>5, RegionKept DEF OwnRegion
    <3>7. QED
      BY <1>1, <3>1, <3>4, <3>5, <3>6 DEF IndexOn, PartOn
  <2>2. CASE g = h /\ WriteIndex(h)
    <3>1. \A k \in 1 .. DataBlocks(job[h].size) : ~ k <= PartsWritten(h)'
      <4>1. CASE pc'[h] = "DATA"
        <5>1. next'[h] = 1
          BY <2>2 DEF WriteIndex, FsInv, FsTypeOK
        <5>2. QED
          BY <4>1, <5>1 DEF PartsWritten
      <4>2. CASE pc'[h] # "DATA"
        <5>1. Len(job[h].array) = DataBlocks(job[h].size) + 1
              /\ DataBlocks(job[h].size) \in Nat
          BY <1>1, RegionIsArray
        <5>2. ~ Len(job[h].array) > 1
          BY <2>2, <4>2 DEF WriteIndex, Goes, FsInv, FsTypeOK
        <5>3. QED
          BY <5>1, <5>2
      <4>3. QED
        BY <4>1, <4>2
    <3>2. QED
      BY <1>1, <2>2, <3>1, IndexWritten
  <2>3. CASE g = h /\ WriteData(h)
    <3>1. /\ pc[h] = "DATA" /\ next'[h] = next[h] + 1
          /\ next[h] \in 1 .. DataBlocks(job[h].size)
          /\ DataBlocks(job[h].size) \in Nat
          /\ next[h] = DataBlocks(job[h].size) \/ pc'[h] = "DATA"
      BY <1>1, <2>3, RegionIsArray
         DEF WriteData, Goes, FsInv, FsTypeOK, Position
    <3>2. PartsWritten(h) = next[h] - 1 /\ PartsWritten(h)' <= next[h]
      BY <1>1, <3>1 DEF PartsWritten
    <3>3. IndexOn(Base(h), job[h].size)'
      BY <2>3, <3>1, EarlierPartsKept DEF DiskInv, Progress
    <3>4. ASSUME NEW k \in 1 .. DataBlocks(job[h].size), k <= PartsWritten(h)'
          PROVE  PartOn(Base(h), job[h].size, job[h].dump, k)'
      <4>1. CASE k = next[h]
        BY <2>3, <4>1, PartWritten
      <4>2. CASE k < next[h]
        <5>1. PartOn(Base(h), job[h].size, job[h].dump, k)
          BY <3>1, <3>2, <4>2 DEF DiskInv, Progress
        <5>2. k \in 1 .. next[h] - 1
          BY <3>1, <4>2
        <5>3. QED
          BY <2>3, <5>1, <5>2, EarlierPartsKept
      <4>3. PartsWritten(h)' \in Int
        BY <1>1, <3>1 DEF PartsWritten
      <4>4. QED
        BY <3>1, <3>2, <3>4, <4>1, <4>2, <4>3
    <3>5. QED
      BY <2>3, <3>3, <3>4
  <2>4. QED
    BY <2>1, <2>2, <2>3
<1>7. Progress'
  BY <1>1, <1>6 DEF Progress, DataBlocks
<1>8. SavedOn'
  <2>1. ASSUME NEW m \in Name, files[m].saved
        PROVE  /\ IndexOn(files[m].index, files[m].size)'
               /\ \A k \in 1 .. DataBlocks(files[m].size) :
                    PartOn(files[m].index, files[m].size, files[m].dump, k)'
    <3>1. files[m].index \in Nat /\ files[m].size \in Nat
      BY <2>1, SavedFile
    <3>2. FileRegion(m) \subseteq Block /\ FileRegion(m) \cap OwnRegion(h) = {}
      BY <1>1, <2>1 DEF DiskInv, SavedApart, FsInv, FsTypeOK
    <3>3. PICK c \in Nat, s \in Nat, d \in {files[m].dump} :
            c = files[m].index /\ s = files[m].size
      BY <3>1
    <3>4. /\ IndexOn(c, s) => IndexOn(c, s)'
          /\ \A k \in 1 .. DataBlocks(s) : PartOn(c, s, d, k) => PartOn(c, s, d, k)'
      BY <3>2, <3>3, RegionKept DEF FileRegion
    <3>5. QED
      BY <1>1, <2>1, <3>3, <3>4 DEF DiskInv, SavedOn, IndexOn, PartOn
  <2>2. QED
    BY <1>1, <2>1 DEF SavedOn, DataBlocks
<1>9. QED
  BY <1>4, <1>5, <1>7, <1>8 DEF DiskInv

\* Until it is saved, a file that is made anew is none.
LEMMA CreateKeepsDisk ==
  ASSUME FsInv, DiskInv, NEW h \in Handler, CreateMetadata(h)
  PROVE  DiskInv'
<1>1. /\ pc[h] = "CREATE" /\ pc' = [pc EXCEPT ![h] = "SAVE"]
      /\ files' = [files EXCEPT ![job[h].name] = NoFile]
      /\ UNCHANGED <<used, disk, job, next>>
  BY DEF CreateMetadata, Goes
<1>2. \A g \in Handler : /\ Owner(g)' = Owner(g)
                         /\ OwnRegion(g)' = OwnRegion(g)
                         /\ PartsWritten(g)' = PartsWritten(g)
                         /\ Base(g)' = Base(g)
                         /\ pc'[g] \in {"DATA", "CREATE", "SAVE"}
                              => pc[g] \in {"DATA", "CREATE", "SAVE"}
  BY <1>1 DEF FsInv, FsTypeOK, Owner, OwnRegion, Base, Region, PartsWritten,
              DataBlocks
<1>3. \A m \in Name : files'[m].saved => files'[m] = files[m]
  <2>1. NoFile.saved = FALSE
    BY DEF NoFile
  <2>2. QED
    BY <1>1, <2>1 DEF FsInv, FsTypeOK
<1>4. \A m \in Name : files'[m].saved => FileRegion(m)' = FileRegion(m)
  BY <1>3 DEF FileRegion, Region, DataBlocks
<1>5. RegionsApart'
  BY <1>1, <1>2 DEF DiskInv, RegionsApart
<1>6. Progress'
  BY <1>1, <1>2 DEF DiskInv, Progress, IndexOn, PartOn
<1>7. SavedApart'
  BY <1>1, <1>2, <1>3, <1>4 DEF DiskInv, SavedApart
<1>8. SavedOn'
  BY <1>1, <1>3 DEF DiskInv, SavedOn, IndexOn, PartOn
<1>9. QED
  BY <1>5, <1>6, <1>7, <1>8 DEF DiskInv

\* A file is saved with all of its dump, and its region is written no more.
LEMMA SaveKeepsDisk ==
  ASSUME FsInv, DiskInv, NEW h \in Handler, SaveMetadata(h)
  PROVE  DiskInv'
<1> DEFINE n == job[h].name
<1>1. /\ pc[h] = "SAVE" /\ pc' = [pc EXCEPT ![h] = "ANSWER"]
      /\ files' = [files EXCEPT ![n] = Metadata(job[h])]
      /\ UNCHANGED <<used, disk, job, next>>
  BY DEF SaveMetadata, Goes
<1>2. \A g \in Handler : /\ Owner(g)' => Owner(g) /\ g # h
                         /\ OwnRegion(g)' = OwnRegion(g)
                         /\ PartsWritten(g)' = PartsWritten(g)
                         /\ Base(g)' = Base(g)
                         /\ pc'[g] \in {"DATA", "CREATE", "SAVE"}
                              => pc[g] \in {"DATA", "CREATE", "SAVE"}
  BY <1>1 DEF FsInv, FsTypeOK, Owner, OwnRegion, Base, Region, PartsWritten,
              DataBlocks
<1>3. /\ n \in Name /\ files'[n].index = Base(h)
      /\ files'[n].size = job[h].size /\ files'[n].dump = job[h].dump
  BY <1>1 DEF FsInv, FsTypeOK, Working, Job, Metadata, Base
<1>4. \A m \in Name \ {n} : files'[m] = files[m]
  BY <1>1 DEF FsInv, FsTypeOK
<1>5. Owner(h) /\ PartsWritten(h) = DataBlocks(job[h].size)
      /\ DataBlocks(job[h].size) \in Nat
  BY <1>1, RegionIsArray DEF Owner, PartsWritten
<1>6. FileRegion(n)' = OwnRegion(h)
  BY <1>1, <1>3 DEF FileRegion, OwnRegion, Region, DataBlocks
<1>7. \A m \in Name \ {n} : FileRegion(m)' = FileRegion(m)
  BY <1>4 DEF FileRegion, Region, DataBlocks
<1>8. RegionsApart'
  BY <1>1, <1>2 DEF DiskInv, RegionsApart
<1>9. Progress'
  BY <1>1, <1>2 DEF DiskInv, Progress, IndexOn, PartOn
<1>10. SavedApart'
  <2>1. /\ OwnRegion(h) \subseteq used
        /\ \A g \in Handler \ {h} : Owner(g) => OwnRegion(g) \cap OwnRegion(h) = {}
    BY <1>5 DEF DiskInv, RegionsApart
  <2>2. QED
    BY <1>1, <1>2, <1>4, <1>6, <1>7, <2>1 DEF DiskInv, SavedApart
<1>11. SavedOn'
  <2>1. /\ IndexOn(Base(h), job[h].size)
        /\ \A k \in 1 .. DataBlocks(job[h].size) :
             PartOn(Base(h), job[h].size, job[h].dump, k)
    BY <1>1, <1>5 DEF DiskInv, Progress
  <2>2. /\ IndexOn(files[n].index, files[n].size)'
        /\ \A k \in 1 .. DataBlocks(files'[n].size) :
             PartOn(files[n].index, files[n].size, files[n].dump, k)'
    BY <1>1, <1>3, <2>1 DEF IndexOn, PartOn
  <2>3. ASSUME NEW m \in Name \ {n}, files'[m].saved
        PROVE  /\ IndexOn(files[m].index, files[m].size)'
               /\ \A k \in 1 .. DataBlocks(files'[m].size) :
                    PartOn(files[m].index, files[m].size, files[m].dump, k)'
    BY <1>1, <1>4, <2>3 DEF DiskInv, SavedOn, IndexOn, PartOn
  <2>4. QED
    BY <1>1, <2>2, <2>3 DEF SavedOn, DataBlocks
<1>12. QED
  BY <1>8, <1>9, <1>10, <1>11 DEF DiskInv

LEMMA DiskInvStep == FsInv /\ DiskInv /\ FsStep => DiskInv'
<1> SUFFICES ASSUME FsInv, DiskInv, FsStep PROVE DiskInv'
  OBVIOUS
<1>1. ASSUME NEW h \in Handler, Work(h) PROVE DiskInv'
  <2>1. CASE Refuse(h) \/ FailMetadata(h)
    BY <2>1, LeavingKeepsDisk
       DEF Refuse, FailMetadata, Forget, Goes, Owner, FsInv, FsTypeOK
  <2>2. QED
    BY <1>1, <2>1, ReserveKeepsDisk, WritesKeepDisk, CreateKeepsDisk,
       SaveKeepsDisk DEF Work
<1>2. ASSUME NEW h \in Handler, Answer(h) PROVE DiskInv'
  BY <1>2, LeavingKeepsDisk DEF Answer, Forget, Goes, Owner, FsInv, FsTypeOK
<1>3. ASSUME NEW h \in Handler, NEW name \in Name, NEW size \in Sizes,
             Receive(h, name, size)
      PROVE  DiskInv'
  BY <1>3, LeavingKeepsDisk DEF Receive, Goes, Owner, FsInv, FsTypeOK
<1>4. CASE Restart
  BY <1>4, LeavingKeepsDisk DEF Restart, Recounted, Owner
<1>5. CASE UNCHANGED fsVars
  BY <1>5, LeavingKeepsDisk DEF fsVars, Owner
<1>6. QED
  BY <1>1, <1>2, <1>3, <1>4, <1>5 DEF FsStep

LEMMA DiskInvInit == FsInit => DiskInv
BY DEF FsInit, NoFile, DiskInv, RegionsApart, Progress, SavedApart, SavedOn, Owner

\* A saved file reads back.
LEMMA SavedReadsBack ==
  ASSUME FsInv, DiskInv, NEW n \in Name
  PROVE  StoredAs(n) = IF files[n].saved THEN files[n].dump ELSE 0
<1> SUFFICES ASSUME files[n].saved PROVE LedTo(n, Pointers - 1)
  BY DEF StoredAs
<1> DEFINE f == files[n]
<1>1. f.index \in Nat /\ f.size \in Nat
  BY SavedFile
<1>2. DataBlocks(f.size) \in Nat /\ Pointers \in Nat
  BY <1>1, DataBlocksFacts, FileSystemAssumption
<1>3. SUFFICES ASSUME NEW k \in 1 .. DataBlocks(f.size), k <= Pointers - 1
               PROVE  /\ f.index + k \in Block
                      /\ disk[f.index * Pointers + k] = Pointer(f.index + k)
                      /\ \A i \in 1 .. PartSize(f.size, k) :
                           disk[(f.index + k) * Pointers + (i - 1)]
                             = Datum(f.dump, (k - 1) * Pointers + i)
  BY DEF LedTo
<1>4. f.index + k \in Block
  <2>1. f.index + k \in FileRegion(n)
    BY <1>1, <1>2, <1>3 DEF FileRegion, Region
  <2>2. QED
    BY <2>1 DEF DiskInv, SavedApart, FsInv, FsTypeOK
<1>5. k < Pointers
  BY <1>2, <1>3
<1>6. QED
  BY <1>3, <1>4, <1>5 DEF DiskInv, SavedOn, IndexOn, PartOn

-----------------------------------------------------------------------------
(* What the parties know                                                   *)

\* The dump made for t is saved, and no later one under its name
Kept(t) ==
  /\ request[t] # None
  /\ files[request[t].name].saved
  /\ files[request[t].name].dump = request[t].number

\* A handler works on what the relay of its thread waits for
HandlerLink(t) ==
  /\ pc[t] # "IDLE" =>
       /\ relay[t] = "WAIT" /\ reply[t] = "NONE" /\ request[t] # None
       /\ job[t].name = request[t].name /\ job[t].dump = request[t].number
  /\ pc[t] = "RESERVE" => job[t].array = <<>>
  /\ Owner(t) \/ pc[t] = "RESERVE" => ~ Kept(t)
  /\ pc[t] = "ANSWER" => (Kept(t) <=> job[t].array # <<>>)

\* The results on their way are true
MessageLink(t) ==
  /\ relay[t] = "OK" \/ reply[t] = "OK" => Kept(t)
  /\ relay[t] = "ERROR" \/ reply[t] = "ERROR" => ~ Kept(t)
  /\ reply[t] # "NONE" => relay[t] = "WAIT"
  /\ relay[t] \in {"ATTEND", "CONNECT"} => request[t] = None

\* A petitioner outlives its relay, unless it was cancelled
PetitionLink(t) ==
  /\ kernel = "UP" /\ thread[t] = "BLOCKED" /\ petition[t] = "OK" => Kept(t)
  /\ petition[t] = "CONNECT" => request[t] = None
  /\ relay[t] # "NONE" =>
       /\ petition[t] \notin {"CONNECT", "ERROR"}
       /\ petition[t] = "WAIT" \/ thread[t] = "DEAD" \/ kernel # "UP"
  /\ thread[t] = "RUN" => petition[t] = "NONE"
  /\ petition[t] \in {"CONNECT", "WAIT"} => thread[t] = "BLOCKED"

Links == \A t \in Handler : HandlerLink(t) /\ MessageLink(t) /\ PetitionLink(t)

\* Names and numbers tell dumps apart
Numbers ==
  /\ \A t \in Handler : request[t] # None =>
       request[t].name[1] = t /\ request[t].number <= dumps
  /\ \A t, u \in Handler :
       request[t] # None /\ request[u] # None /\ t # u
         => request[t].number # request[u].number
  /\ \A n \in Name : files[n].saved => files[n].dump \in 1 .. dumps

LinkInv == Links /\ Numbers

\* Steps of kernel and memory between a request and its answer.
LEMMA MessagesKeep ==
  ASSUME IInv, LinkInv, NEW t \in Handler,
         \/ Petition(t) \/ ReceiveResult(t) \/ LoseMemory(t) \/ RemoveOk(t)
         \/ Attend(t) \/ SendInParts(t) \/ PassOn(t) \/ LoseFilesystem(t)
         \/ Unread(t)
  PROVE  LinkInv'
<1>1. UNCHANGED <<fsVars, request>>
  BY DEF Petition, ReceiveResult, LoseMemory, RemoveOk, Attend, SendInParts,
         PassOn, LoseFilesystem, Unread
<1>2. Numbers' /\ \A u \in Handler : Kept(u)' = Kept(u) /\ Owner(u)' = Owner(u)
  BY <1>1 DEF LinkInv, Numbers, Kept, Owner, fsVars
<1>3. PathTypeOK
  BY DEF IInv, PathInv
<1>4. \A u \in Handler : HandlerLink(u) /\ MessageLink(u) /\ PetitionLink(u)
  BY DEF LinkInv, Links
<1>5. ASSUME NEW u \in Handler
      PROVE  HandlerLink(u)' /\ MessageLink(u)' /\ PetitionLink(u)'
  <2>1. CASE Petition(t)
    BY <1>1, <1>2, <1>3, <1>4, <2>1
       DEF PathTypeOK, Petition, Petitions, Relays, fsVars, HandlerLink,
           MessageLink, PetitionLink
  <2>2. CASE ReceiveResult(t)
    BY <1>1, <1>2, <1>3, <1>4, <2>2
       DEF PathTypeOK, ReceiveResult, Petitions, Relays, fsVars, HandlerLink,
           MessageLink, PetitionLink
  <2>3. CASE LoseMemory(t)
    BY <1>1, <1>2, <1>3, <1>4, <2>3
       DEF PathTypeOK, LoseMemory, Petitions, Relays, fsVars, HandlerLink,
           MessageLink, PetitionLink
  <2>4. CASE RemoveOk(t)
    BY <1>1, <1>2, <1>3, <1>4, <2>4
       DEF PathTypeOK, RemoveOk, Petitions, Relays, fsVars, HandlerLink,
           MessageLink, PetitionLink
  <2>5. CASE Attend(t) \/ SendInParts(t) \/ LoseFilesystem(t) \/ Unread(t)
    <3>1. CASE Attend(t)
      BY <1>1, <1>2, <1>3, <1>4, <3>1
         DEF PathTypeOK, Attend, Kept, Relays, fsVars, HandlerLink, MessageLink,
             PetitionLink
    <3>2. CASE SendInParts(t)
      BY <1>1, <1>2, <1>3, <1>4, <3>2
         DEF PathTypeOK, SendInParts, Kept, Relays, fsVars, HandlerLink, MessageLink,
             PetitionLink
    <3>3. CASE LoseFilesystem(t)
      BY <1>1, <1>2, <1>3, <1>4, <3>3
         DEF PathTypeOK, LoseFilesystem, Kept, Relays, fsVars, HandlerLink, MessageLink,
             PetitionLink
    <3>4. CASE Unread(t)
      BY <1>1, <1>2, <1>3, <1>4, <3>4
         DEF PathTypeOK, Unread, Kept, Relays, fsVars, HandlerLink, MessageLink,
             PetitionLink
    <3>5. QED
      BY <2>5, <3>1, <3>2, <3>3, <3>4
  <2>6. CASE PassOn(t)
    BY <1>1, <1>2, <1>3, <1>4, <2>6
       DEF PathTypeOK, PassOn, Relays, fsVars, HandlerLink, MessageLink,
           PetitionLink
  <2>7. QED
    BY <2>1, <2>2, <2>3, <2>4, <2>5, <2>6
<1>6. QED
  BY <1>2, <1>5 DEF LinkInv, Links

\* A cancelled petitioner claims success, to a thread that is dead or a kernel
\* that is stopping.
LEMMA CancelsKeepLinks ==
  ASSUME IInv, LinkInv, NEW t,
         \/ t \in Handler /\ (RemoveFailed(t) \/ ThreadCancel(t))
         \/ WaitDumps
  PROVE  LinkInv'
<1>1. UNCHANGED <<fsVars, request, relay, reply>>
  BY DEF RemoveFailed, ThreadCancel, WaitDumps
<1>2. Numbers' /\ \A u \in Handler : Kept(u)' = Kept(u) /\ Owner(u)' = Owner(u)
  BY <1>1 DEF LinkInv, Numbers, Kept, Owner, fsVars
<1>3. PathTypeOK
  BY DEF IInv, PathInv
<1>4. \A u \in Handler : HandlerLink(u) /\ MessageLink(u) /\ PetitionLink(u)
  BY DEF LinkInv, Links
<1>5. ASSUME NEW u \in Handler PROVE HandlerLink(u)' /\ MessageLink(u)'
  BY <1>1, <1>2, <1>4 DEF fsVars, HandlerLink, MessageLink
<1>6. ASSUME NEW u \in Handler PROVE PetitionLink(u)'
  <2>1. ASSUME NEW S
        PROVE  Cancelled(S)[u] = IF u \in S /\ petition[u] \in {"CONNECT", "WAIT"}
                                 THEN "OK" ELSE petition[u]
    BY DEF Cancelled
  <2>2. CASE t \in Handler /\ RemoveFailed(t)
    <3>1. /\ petition[t] = "ERROR" /\ kernel' = kernel
          /\ petition' = [Cancelled(dying') EXCEPT ![t] = "NONE"]
          /\ IF thread[t] = "BLOCKED"
             THEN /\ dying' = {v \in Handler : thread[v] # "DEAD"}
                  /\ thread' = [v \in Handler |-> "DEAD"]
             ELSE dying' = dying /\ dying = {} /\ thread' = thread
      BY <2>2 DEF RemoveFailed, CanWrite, Each
    <3> DEFINE cancelled == Cancelled(dying')
    <3>2. /\ u \in DOMAIN cancelled
          /\ cancelled[u] = IF u \in dying' /\ petition[u] \in {"CONNECT", "WAIT"}
                            THEN "OK" ELSE petition[u]
      <4>1. u \in DOMAIN cancelled
        BY DEF Cancelled
      <4>2. QED
        BY <2>1, <4>1
    <3> HIDE DEF cancelled
    <3>3. petition'[u] = IF u = t THEN "NONE" ELSE cancelled[u]
      BY <3>1, <3>2 DEF cancelled
    <3>4. QED
      BY <1>1, <1>2, <1>3, <1>4, <3>1, <3>2, <3>3 DEF PathTypeOK, PetitionLink
  <2>3. CASE t \in Handler /\ ThreadCancel(t)
    <3>1. /\ kernel' = kernel /\ thread[t] = "BLOCKED"
          /\ thread' = [thread EXCEPT ![t] = "DEAD"]
          /\ petition'[u] = IF u = t /\ petition[u] \in {"CONNECT", "WAIT"}
                            THEN "OK" ELSE petition[u]
      BY <2>3 DEF ThreadCancel, Cancelled
    <3>2. QED
      BY <1>1, <1>2, <1>3, <1>4, <3>1 DEF PathTypeOK, PetitionLink
  <2>4. CASE WaitDumps
    <3>1. /\ kernel = "STOPPING" /\ kernel' = "WAITING" /\ thread' = thread
          /\ petition'[u] = IF petition[u] \in {"CONNECT", "WAIT"}
                            THEN "OK" ELSE petition[u]
      BY <2>4 DEF WaitDumps, Cancelled
    <3>2. QED
      BY <1>1, <1>2, <1>3, <1>4, <3>1 DEF PathTypeOK, PetitionLink
  <2>5. QED
    BY <2>2, <2>3, <2>4
<1>7. QED
  BY <1>2, <1>5, <1>6 DEF LinkInv, Links

\* Where nothing of a dump is left, nothing has to be known.
LEMMA QuietStepsKeepLinks ==
  ASSUME IInv, LinkInv, NEW t,
         \/ t \in Handler /\ (ThreadDestroy(t) \/ DumpMemory(t))
         \/ NewProcess \/ Stop \/ Finish \/ RestartFilesystem \/ UNCHANGED vars
  PROVE  LinkInv'
<1>1. PathTypeOK /\ None \notin [name : Name, number : Nat]
  BY DumpPathAssumption DEF IInv, PathInv
<1>2. \A u \in Handler : HandlerLink(u) /\ MessageLink(u) /\ PetitionLink(u)
  BY DEF LinkInv, Links
<1>3. CASE ThreadDestroy(t) \/ Stop \/ Finish \/ UNCHANGED vars
  <2>1. /\ UNCHANGED <<fsVars, thread, petition, relay, request, reply>>
        /\ kernel' = "UP" => kernel = "UP"
    BY <1>3 DEF ThreadDestroy, Stop, Finish, vars, pathVars
  <2>2. ASSUME NEW u \in Handler
        PROVE  HandlerLink(u)' /\ MessageLink(u)' /\ PetitionLink(u)'
    <3>1. HandlerLink(u)'
      BY <1>2, <2>1 DEF HandlerLink, Kept, Owner, fsVars
    <3>2. MessageLink(u)'
      BY <1>2, <2>1 DEF MessageLink, Kept, fsVars
    <3>3. PetitionLink(u)'
      BY <1>2, <2>1 DEF PetitionLink, Kept, fsVars
    <3>4. QED
      BY <3>1, <3>2, <3>3
  <2>3. Numbers'
    BY <2>1 DEF LinkInv, Numbers, fsVars
  <2>4. QED
    BY <2>2, <2>3 DEF LinkInv, Links
<1>4. CASE RestartFilesystem
  <2>1. /\ UNCHANGED <<pathVars, files, dumps>>
        /\ \A u \in Handler : pc'[u] = "IDLE"
    BY <1>4 DEF RestartFilesystem, Restart
  <2>2. ASSUME NEW u \in Handler
        PROVE  HandlerLink(u)' /\ MessageLink(u)' /\ PetitionLink(u)'
    <3>1. HandlerLink(u)'
      BY <1>2, <2>1 DEF HandlerLink, Kept, Owner, pathVars
    <3>2. MessageLink(u)'
      BY <1>2, <2>1 DEF MessageLink, Kept, pathVars
    <3>3. PetitionLink(u)'
      BY <1>2, <2>1 DEF PetitionLink, Kept, pathVars
    <3>4. QED
      BY <3>1, <3>2, <3>3
  <2>3. Numbers'
    BY <2>1 DEF LinkInv, Numbers, pathVars
  <2>4. QED
    BY <2>2, <2>3 DEF LinkInv, Links
<1>5. CASE NewProcess
  <2>1. /\ UNCHANGED <<fsVars, petition, relay, reply>>
        /\ \A u \in Handler : /\ thread'[u] = "RUN" /\ request'[u] = None
                              /\ petition[u] = "NONE" /\ relay[u] = "NONE"
                              /\ pc[u] = "IDLE"
    BY <1>5 DEF NewProcess, Each
  <2>2. ASSUME NEW u \in Handler
        PROVE  HandlerLink(u)' /\ MessageLink(u)' /\ PetitionLink(u)'
    <3>1. HandlerLink(u)'
      BY <1>2, <2>1 DEF HandlerLink, Kept, Owner, fsVars
    <3>2. MessageLink(u)'
      BY <1>2, <2>1 DEF MessageLink, Kept, fsVars
    <3>3. PetitionLink(u)'
      BY <1>2, <2>1 DEF PetitionLink, Kept, fsVars
    <3>4. QED
      BY <3>1, <3>2, <3>3
  <2>3. Numbers'
    BY <2>1 DEF LinkInv, Numbers, fsVars
  <2>4. QED
    BY <2>2, <2>3 DEF LinkInv, Links
<1>6. CASE t \in Handler /\ DumpMemory(t)
  <2>1. /\ UNCHANGED <<fsVars, relay, reply, kernel>>
        /\ relay[t] = "NONE" /\ pc[t] = "IDLE" /\ petition[t] = "NONE"
        /\ petition' = [petition EXCEPT ![t] = "CONNECT"]
        /\ thread' = [thread EXCEPT ![t] = "BLOCKED"]
        /\ request' = [request EXCEPT ![t] = None]
    BY <1>6 DEF DumpMemory, Petitions
  <2>2. \A u \in Handler \ {t} : /\ request'[u] = request[u]
                                 /\ petition'[u] = petition[u]
                                 /\ thread'[u] = thread[u]
    BY <1>1, <2>1 DEF PathTypeOK
  <2>3. request'[t] = None /\ petition'[t] = "CONNECT" /\ thread'[t] = "BLOCKED"
    BY <1>1, <1>6, <2>1 DEF PathTypeOK
  <2>4. ASSUME NEW u \in Handler
        PROVE  HandlerLink(u)' /\ MessageLink(u)' /\ PetitionLink(u)'
    <3>1. HandlerLink(u)'
      BY <1>2, <2>1, <2>2, <2>3 DEF HandlerLink, Kept, Owner, fsVars
    <3>2. MessageLink(u)'
      BY <1>2, <2>1, <2>2, <2>3 DEF MessageLink, Kept, fsVars
    <3>3. PetitionLink(u)'
      BY <1>2, <2>1, <2>2, <2>3 DEF PetitionLink, Kept, fsVars
    <3>4. QED
      BY <3>1, <3>2, <3>3
  <2>5. Numbers'
    BY <2>1, <2>2, <2>3 DEF LinkInv, Numbers, fsVars
  <2>6. QED
    BY <2>4, <2>5 DEF LinkInv, Links
<1>7. QED
  BY <1>3, <1>4, <1>5, <1>6

\* A dump that is sent is new.
LEMMA SendKeepsLinks ==
  ASSUME IInv, LinkInv, NEW t \in Handler, NEW time \in Time,
         NEW size \in Sizes, Send(t, time, size)
  PROVE  LinkInv'
<1> DEFINE made == [name |-> <<t, time>>, number |-> dumps + 1]
<1>1. /\ relay[t] = "CONNECT" /\ relay' = [relay EXCEPT ![t] = "WAIT"]
      /\ pc[t] = "IDLE" /\ pc' = [pc EXCEPT ![t] = "RESERVE"]
      /\ dumps' = dumps + 1 /\ request' = [request EXCEPT ![t] = made]
      /\ job' = [job EXCEPT ![t] = [name |-> <<t, time>>, size |-> size,
                                    dump |-> dumps + 1, array |-> <<>>]]
      /\ UNCHANGED <<files, thread, petition, reply, kernel>>
  BY DEF Send, Relays, Receive, Goes
<1>2. PathTypeOK /\ FsTypeOK
  BY DEF IInv, PathInv, FsInv
<1>3. \A u \in Handler : HandlerLink(u) /\ MessageLink(u) /\ PetitionLink(u)
  BY DEF LinkInv, Links
<1>4. <<t, time>> \in Name /\ dumps \in Nat /\ made # None
  BY <1>2, DumpPathAssumption DEF FsTypeOK
<1>5. /\ relay'[t] = "WAIT" /\ pc'[t] = "RESERVE" /\ request'[t] = made
      /\ job'[t].name = made.name /\ job'[t].dump = made.number
      /\ job'[t].array = <<>>
      /\ made.name = <<t, time>> /\ made.number = dumps + 1
  BY <1>1, <1>2 DEF PathTypeOK, FsTypeOK
<1>6. \A u \in Handler \ {t} :
        /\ relay'[u] = relay[u] /\ pc'[u] = pc[u] /\ request'[u] = request[u]
        /\ job'[u] = job[u]
  BY <1>1, <1>2 DEF PathTypeOK, FsTypeOK
<1>7. \A n \in Name : files[n].saved => files[n].dump \in 1 .. dumps
  BY DEF LinkInv, Numbers
<1>8. ~ Kept(t)'
  BY <1>1, <1>4, <1>5, <1>7 DEF Kept
<1>9. \A u \in Handler \ {t} : Kept(u)' = Kept(u) /\ Owner(u)' = Owner(u)
  BY <1>1, <1>6 DEF Kept, Owner
<1> HIDE DEF made
<1>10. ASSUME NEW u \in Handler
       PROVE  HandlerLink(u)' /\ MessageLink(u)' /\ PetitionLink(u)'
  <2>1. CASE u = t
    <3>1. relay[t] # "NONE" /\ reply[t] = "NONE"
      BY <1>1, <1>2, <1>3 DEF MessageLink, PathTypeOK
    <3>2. petition[t] \notin {"CONNECT", "ERROR"}
          /\ (petition[t] = "WAIT" \/ thread[t] = "DEAD" \/ kernel # "UP")
      BY <1>3, <3>1 DEF PetitionLink
    <3>3. HandlerLink(t)'
      BY <1>1, <1>4, <1>5, <1>8, <3>1 DEF HandlerLink, Owner
    <3>4. MessageLink(t)'
      BY <1>1, <1>5, <3>1 DEF MessageLink
    <3>5. PetitionLink(t)'
      BY <1>1, <1>3, <1>5, <3>2 DEF PetitionLink
    <3>6. QED
      BY <2>1, <3>3, <3>4, <3>5
  <2>2. CASE u # t
    BY <1>1, <1>3, <1>6, <1>9, <2>2 DEF HandlerLink, MessageLink, PetitionLink
  <2>3. QED
    BY <2>1, <2>2
<1>11. Numbers'
  <2>1. \A u \in Handler : request[u] # None =>
          /\ request[u].name[1] = u /\ request[u].number <= dumps
          /\ request[u].number \in Nat
    BY <1>2 DEF LinkInv, Numbers, PathTypeOK
  <2>2. \A u \in Handler : request'[u] # None =>
          request'[u].name[1] = u /\ request'[u].number <= dumps'
    BY <1>1, <1>4, <1>5, <1>6, <2>1
  <2>3. \A u, v \in Handler :
          request'[u] # None /\ request'[v] # None /\ u # v
            => request'[u].number # request'[v].number
    <3>1. \A u \in Handler \ {t} :
            request[u] # None => request[u].number # dumps + 1
      BY <1>4, <2>1
    <3>2. QED
      BY <1>5, <1>6, <3>1 DEF LinkInv, Numbers
  <2>4. \A n \in Name : files'[n].saved => files'[n].dump \in 1 .. dumps'
    BY <1>1, <1>4, <1>7
  <2>5. QED
    BY <2>2, <2>3, <2>4 DEF Numbers
<1>12. QED
  BY <1>10, <1>11 DEF LinkInv, Links

\* The answer says what became of the dump.
LEMMA AnswerKeepsLinks ==
  ASSUME IInv, LinkInv, NEW t \in Handler, AnswerDump(t)
  PROVE  LinkInv'
<1>1. /\ pc[t] = "ANSWER" /\ pc' = [pc EXCEPT ![t] = "IDLE"]
      /\ job' = [job EXCEPT ![t] = NoJob]
      /\ reply' = [reply EXCEPT ![t] = Result(t)]
      /\ UNCHANGED <<files, dumps, request, thread, petition, relay, kernel>>
  BY DEF AnswerDump, Answer, Goes, Forget
<1>2. PathTypeOK /\ FsTypeOK
  BY DEF IInv, PathInv, FsInv
<1>3. \A u \in Handler : HandlerLink(u) /\ MessageLink(u) /\ PetitionLink(u)
  BY DEF LinkInv, Links
<1>4. pc'[t] = "IDLE" /\ reply'[t] = Result(t)
  BY <1>1, <1>2 DEF PathTypeOK, FsTypeOK
<1>5. \A u \in Handler \ {t} :
        pc'[u] = pc[u] /\ job'[u] = job[u] /\ reply'[u] = reply[u]
  BY <1>1, <1>2 DEF PathTypeOK, FsTypeOK
<1>6. Numbers' /\ \A u \in Handler : Kept(u)' = Kept(u)
  BY <1>1 DEF LinkInv, Numbers, Kept
<1>7. relay[t] = "WAIT" /\ (Kept(t) <=> Result(t) = "OK")
      /\ Result(t) \in {"OK", "ERROR"}
  BY <1>1, <1>3 DEF HandlerLink, Result
<1>8. ASSUME NEW u \in Handler
      PROVE  HandlerLink(u)' /\ MessageLink(u)' /\ PetitionLink(u)'
  <2>1. CASE u = t
    <3>1. HandlerLink(t)'
      BY <1>4 DEF HandlerLink, Owner
    <3>2. MessageLink(t)'
      BY <1>1, <1>4, <1>6, <1>7 DEF MessageLink
    <3>3. PetitionLink(t)'
      BY <1>1, <1>3, <1>6 DEF PetitionLink
    <3>4. QED
      BY <2>1, <3>1, <3>2, <3>3
  <2>2. CASE u # t
    BY <1>1, <1>3, <1>5, <1>6, <2>2
       DEF HandlerLink, MessageLink, PetitionLink, Owner
  <2>3. QED
    BY <2>1, <2>2
<1>9. QED
  BY <1>6, <1>8 DEF LinkInv, Links

\* A handler changes no file but the one of its dump.
LEMMA WorkKeepsLinks ==
  ASSUME IInv, LinkInv, NEW t \in Handler, WorkOn(t)
  PROVE  LinkInv'
<1>1. PathTypeOK /\ FsTypeOK /\ FsInv
  BY DEF IInv, PathInv, FsInv
<1>2. \A u \in Handler : HandlerLink(u) /\ MessageLink(u) /\ PetitionLink(u)
  BY DEF LinkInv, Links
<1>3. /\ pc[t] # "IDLE" /\ UNCHANGED <<pathVars, dumps>>
      /\ \A u \in Handler \ {t} : pc'[u] = pc[u] /\ job'[u] = job[u]
      /\ \A n \in Name \ {job[t].name} : files'[n] = files[n]
  BY <1>1 DEF WorkOn, Work, Refuse, Reserve, WriteIndex, WriteData,
              CreateMetadata, SaveMetadata, FailMetadata, Forget, Goes, FsTypeOK
<1>4. /\ relay[t] = "WAIT" /\ reply[t] = "NONE" /\ request[t] # None
      /\ job[t].name = request[t].name /\ job[t].dump = request[t].number
  BY <1>2, <1>3 DEF HandlerLink
<1>5. \A u \in Handler : request[u] # None =>
        /\ request[u].name \in Name /\ request[u].name[1] = u
        /\ request[u].number \in 1 .. dumps
  BY <1>1 DEF LinkInv, Numbers, PathTypeOK, FsTypeOK
<1>6. \A u \in Handler \ {t} : Kept(u)' = Kept(u)
  BY <1>3, <1>4, <1>5 DEF Kept, pathVars
<1>7. ASSUME NEW u \in Handler \ {t}
      PROVE  HandlerLink(u)' /\ MessageLink(u)' /\ PetitionLink(u)'
  BY <1>2, <1>3, <1>6, <1>7
     DEF HandlerLink, MessageLink, PetitionLink, Owner, pathVars
<1>8. MessageLink(t)' /\ PetitionLink(t)'
  BY <1>2, <1>3, <1>4 DEF MessageLink, PetitionLink, pathVars
<1>9. HandlerLink(t)' /\ \A n \in Name : files'[n].saved => files'[n].dump \in 1 .. dumps
  <2>1. ASSUME UNCHANGED files
        PROVE  /\ Kept(t)' = Kept(t)
               /\ \A n \in Name : files'[n].saved => files'[n].dump \in 1 .. dumps
    BY <1>3, <2>1 DEF Kept, pathVars, LinkInv, Numbers
  <2>2. CASE Refuse(t)
    BY <1>1, <1>2, <1>3, <1>4, <2>1, <2>2
       DEF Refuse, Goes, FsTypeOK, HandlerLink, Owner, pathVars
  <2>3. CASE Reserve(t)
    <3>1. UNCHANGED files /\ pc[t] = "RESERVE" /\ pc'[t] = "INDEX"
      BY <1>1, <2>3 DEF Reserve, Goes, FsTypeOK
    <3>2. job'[t].name = job[t].name /\ job'[t].dump = job[t].dump
      <4>1. job[t] \in Job
        BY <1>1, <3>1 DEF FsInv, Working
      <4>2. PICK array : job' = [job EXCEPT ![t] = [job[t] EXCEPT !.array = array]]
        BY <2>3 DEF Reserve
      <4>3. job'[t] = [job[t] EXCEPT !.array = array]
        BY <1>1, <4>2 DEF FsTypeOK
      <4>4. QED
        BY <4>1, <4>3 DEF Job
    <3>3. ~ Kept(t)'
      BY <1>2, <2>1, <3>1 DEF HandlerLink
    <3>4. QED
      BY <1>3, <1>4, <2>1, <3>1, <3>2, <3>3 DEF HandlerLink, Owner, pathVars
  <2>4. CASE WriteIndex(t) \/ WriteData(t)
    <3>1. UNCHANGED <<files, job>> /\ Owner(t) /\ pc'[t] \in {"DATA", "CREATE"}
      BY <1>1, <2>4 DEF WriteIndex, WriteData, Goes, FsTypeOK, Owner
    <3>2. ~ Kept(t)'
      BY <1>2, <2>1, <3>1 DEF HandlerLink
    <3>3. QED
      BY <1>3, <1>4, <2>1, <3>1, <3>2 DEF HandlerLink, Owner, pathVars
  <2>5. CASE CreateMetadata(t)
    <3>1. /\ UNCHANGED job /\ pc'[t] = "SAVE"
          /\ files' = [files EXCEPT ![job[t].name] = NoFile]
      BY <1>1, <2>5 DEF CreateMetadata, Goes, FsTypeOK
    <3>2. files'[job[t].name].saved = FALSE
      BY <1>1, <1>4, <1>5, <3>1 DEF FsTypeOK, NoFile
    <3>3. ~ Kept(t)'
      BY <1>3, <1>4, <3>2 DEF Kept, pathVars
    <3>4. \A n \in Name : files'[n].saved => files'[n].dump \in 1 .. dumps
      BY <1>3, <3>2 DEF LinkInv, Numbers
    <3>5. QED
      BY <1>3, <1>4, <3>1, <3>3, <3>4 DEF HandlerLink, Owner, pathVars
  <2>6. CASE SaveMetadata(t)
    <3>1. /\ UNCHANGED job /\ pc[t] = "SAVE" /\ pc'[t] = "ANSWER"
          /\ files' = [files EXCEPT ![job[t].name] = Metadata(job[t])]
      BY <1>1, <2>6 DEF SaveMetadata, Goes, FsTypeOK
    <3>2. files'[job[t].name].saved = TRUE
          /\ files'[job[t].name].dump = request[t].number
      BY <1>1, <1>4, <1>5, <3>1 DEF FsTypeOK, Metadata
    <3>3. Kept(t)'
      BY <1>3, <1>4, <3>2 DEF Kept, pathVars
    <3>4. job[t].array # <<>>
      <4>1. Len(job[t].array) = DataBlocks(job[t].size) + 1
            /\ DataBlocks(job[t].size) \in Nat
        BY <1>1, <3>1, RegionIsArray DEF Owner
      <4>2. QED
        BY <4>1
    <3>5. \A n \in Name : files'[n].saved => files'[n].dump \in 1 .. dumps
      BY <1>3, <1>4, <1>5, <3>2 DEF LinkInv, Numbers
    <3>6. QED
      BY <1>3, <1>4, <3>1, <3>3, <3>4, <3>5 DEF HandlerLink, Owner, pathVars
  <2>7. CASE FailMetadata(t)
    BY <1>1, <2>1, <2>7
       DEF FailMetadata, Forget, Goes, FsTypeOK, HandlerLink, Owner
  <2>8. QED
    BY <2>2, <2>3, <2>4, <2>5, <2>6, <2>7 DEF WorkOn, Work
<1>10. Numbers'
  BY <1>3, <1>9 DEF LinkInv, Numbers, pathVars
<1>11. QED
  BY <1>7, <1>8, <1>9, <1>10 DEF LinkInv, Links

LEMMA LinkInvStep == IInv /\ LinkInv /\ [Next]_vars => LinkInv'
<1> SUFFICES ASSUME IInv, LinkInv, [Next]_vars PROVE LinkInv'
  OBVIOUS
<1>1. ASSUME NEW t \in Handler, Petitioner(t) PROVE LinkInv'
  BY <1>1, MessagesKeep, CancelsKeepLinks DEF Petitioner
<1>2. ASSUME NEW t \in Handler, Relay(t) PROVE LinkInv'
  BY <1>2, MessagesKeep, SendKeepsLinks DEF Relay
<1>3. ASSUME NEW t \in Handler, Serve(t) PROVE LinkInv'
  BY <1>3, WorkKeepsLinks, AnswerKeepsLinks DEF Serve
<1>4. ASSUME NEW t \in Handler,
             DumpMemory(t) \/ ThreadCancel(t) \/ ThreadDestroy(t)
      PROVE  LinkInv'
  BY <1>4, QuietStepsKeepLinks, CancelsKeepLinks
<1>5. CASE NewProcess \/ Stop \/ WaitDumps \/ Finish \/ RestartFilesystem
             \/ UNCHANGED vars
  BY <1>5, QuietStepsKeepLinks, CancelsKeepLinks
<1>6. QED
  BY <1>1, <1>2, <1>3, <1>4, <1>5 DEF Next

LEMMA LinkInvInit == Init => LinkInv
BY DEF Init, FsInit, Each, NoFile, LinkInv, Links, Numbers, HandlerLink,
       MessageLink, PetitionLink, Owner, Kept

StoreInv == IInv /\ DiskInv /\ LinkInv

LEMMA StoreInvStep == StoreInv /\ [Next]_vars => StoreInv'
BY FsInvStep, StepIsFsStep, PathInvStep, DiskInvStep, LinkInvStep DEF StoreInv, IInv

-----------------------------------------------------------------------------
(* Every step is one of DumpStore, or none                                 *)

StoreOf == [n \in Name |-> StoredAs(n)]
Threads == [t \in Handler |-> StateOf(t)]
KernelOf == IF kernel = "WAITING" THEN "STOPPING" ELSE kernel

SavedNumber(n) == IF files[n].saved THEN files[n].dump ELSE 0

\* The store is what the metadata say, now and in the next state.
LEMMA StoreIsFiles ==
  IInv /\ DiskInv => StoreOf = [n \in Name |-> SavedNumber(n)]
BY SavedReadsBack DEF IInv, StoreOf, SavedNumber

LEMMA StoreIsFilesNext ==
  StoreInv /\ StoreInv' => /\ StoreOf = [n \in Name |-> SavedNumber(n)]
                          /\ StoreOf' = [n \in Name |-> SavedNumber(n)']
<1>1. StoreInv => StoreOf = [n \in Name |-> SavedNumber(n)]
  BY StoreIsFiles DEF StoreInv
<1>2. StoreInv' => (StoreOf = [n \in Name |-> SavedNumber(n)])'
  BY <1>1, PTL
<1>3. QED
  BY <1>1, <1>2

LEMMA StoreUnchanged ==
  ASSUME StoreInv, StoreInv', UNCHANGED files
  PROVE  StoreOf' = StoreOf
BY StoreIsFilesNext DEF SavedNumber

\* The four variables of DumpStore stay as they are.
Stutters == UNCHANGED <<Threads, request, StoreOf, KernelOf>>

\* StateOf by cases, now and in the next state.
StateIsBy(t) ==
  StateOf(t) = IF petition[t] = "ERROR" THEN "FAILED"
               ELSE IF thread[t] = "RUN" THEN "RUNS"
               ELSE IF thread[t] = "BLOCKED" THEN "WAITS" ELSE "KILLED"

LEMMA StateIs ==
  StoreInv /\ StoreInv' => \A t \in Handler : StateIsBy(t) /\ StateIsBy(t)'
<1>1. StoreInv => \A t \in Handler : StateIsBy(t)
  <2>1. SUFFICES ASSUME StoreInv, NEW t \in Handler PROVE StateIsBy(t)
    OBVIOUS
  <2>2. thread[t] \in {"RUN", "BLOCKED", "DEAD"}
    BY <2>1 DEF StoreInv, IInv, PathInv, PathTypeOK
  <2>3. QED
    BY <2>2 DEF StateOf, StateIsBy
<1>2. StoreInv' => (\A t \in Handler : StateIsBy(t))'
  BY <1>1, PTL
<1>3. QED
  BY <1>1, <1>2

\* Stored, in DumpStore, is what the metadata say too.
LEMMA StoredIsKept ==
  ASSUME StoreInv, NEW t \in Handler
  PROVE  Abstract!Stored(t) <=> Kept(t)
<1>1. StoreOf = [n \in Name |-> SavedNumber(n)]
  BY StoreIsFiles DEF StoreInv
<1>2. request[t] # None =>
        /\ request[t].name \in Name /\ request[t].number # 0
  BY DEF StoreInv, IInv, PathInv, PathTypeOK
<1>3. request[t] # None =>
        StoreOf[request[t].name] = SavedNumber(request[t].name)
  BY <1>1, <1>2
<1>4. QED
  BY <1>2, <1>3 DEF Abstract!Stored, StoreOf, SavedNumber, Kept

LEMMA AskStep ==
  ASSUME StoreInv, StoreInv', NEW t \in Handler, DumpMemory(t)
  PROVE  Abstract!Ask(t)
<1>1. PathTypeOK
  BY DEF StoreInv, IInv, PathInv
<1>2. /\ UNCHANGED <<fsVars, kernel>> /\ kernel \in {"UP", "STOPPING"}
      /\ thread[t] = "RUN" /\ petition[t] = "NONE"
      /\ thread' = [thread EXCEPT ![t] = "BLOCKED"]
      /\ petition' = [petition EXCEPT ![t] = "CONNECT"]
      /\ request' = [request EXCEPT ![t] = None]
  BY DEF DumpMemory, Petitions
<1>3. StoreOf' = StoreOf
  BY <1>2, StoreUnchanged DEF fsVars
<1>4. StateOf(t) = "RUNS" /\ StateOf(t)' = "WAITS"
  BY <1>1, <1>2 DEF PathTypeOK, StateOf
<1>5. \A u \in Handler \ {t} : StateOf(u)' = StateOf(u)
  BY <1>1, <1>2 DEF PathTypeOK, StateOf
<1>6. Threads[t] = "RUNS" /\ Threads' = [Threads EXCEPT ![t] = "WAITS"]
  BY <1>4, <1>5 DEF Threads
<1>7. KernelOf' = KernelOf /\ KernelOf # "DOWN"
  BY <1>2 DEF KernelOf
<1>8. QED
  BY <1>2, <1>3, <1>6, <1>7
     DEF Abstract!Ask, Abstract!Becomes, Threads, StoreOf, KernelOf

LEMMA StutterStep ==
  ASSUME StoreInv, StoreInv', NEW t,
         \/ /\ t \in Handler
            /\ \/ Petition(t) \/ Attend(t) \/ SendInParts(t) \/ PassOn(t)
               \/ LoseFilesystem(t) \/ Unread(t) \/ ThreadDestroy(t)
               \/ AnswerDump(t)
               \/ (WorkOn(t) /\ ~ CreateMetadata(t) /\ ~ SaveMetadata(t))
         \/ WaitDumps \/ RestartFilesystem \/ UNCHANGED vars
  PROVE  Stutters
<1>1. UNCHANGED <<thread, files, request>>
  BY DEF Petition, Attend, SendInParts, PassOn, LoseFilesystem, Unread,
         ThreadDestroy, AnswerDump, Answer, Forget, WorkOn, Work, Refuse, Reserve,
         WriteIndex, WriteData, FailMetadata, WaitDumps, RestartFilesystem,
         Restart, vars, fsVars, pathVars
<1>2. KernelOf' = KernelOf
  BY DEF Petition, Attend, SendInParts, PassOn, LoseFilesystem, Unread,
         ThreadDestroy, AnswerDump, WorkOn, WaitDumps, RestartFilesystem, vars,
         pathVars, KernelOf
<1>3. ASSUME NEW u \in Handler
      PROVE  \/ petition'[u] = petition[u]
             \/ petition[u] # "ERROR" /\ petition'[u] # "ERROR"
  <2>1. CASE t \in Handler /\ Petition(t)
    BY <2>1 DEF Petition, Petitions, StoreInv, IInv, PathInv, PathTypeOK
  <2>2. CASE WaitDumps
    BY <2>2 DEF WaitDumps, Cancelled
  <2>3. CASE ~ (t \in Handler /\ Petition(t)) /\ ~ WaitDumps
    BY <2>3 DEF Attend, SendInParts, PassOn, LoseFilesystem, Unread,
                ThreadDestroy, AnswerDump, WorkOn, RestartFilesystem, vars,
                pathVars
  <2>4. QED
    BY <2>1, <2>2, <2>3
<1>4. \A u \in Handler : StateOf(u)' = StateOf(u)
  BY <1>1, <1>3, StateIs DEF StateIsBy
<1>5. Threads' = Threads
  BY <1>4 DEF Threads
<1>6. QED
  BY <1>1, <1>2, <1>5, StoreUnchanged DEF Stutters

\* Only a result that comes while the thread waits means anything to it.
LEMMA ResultStep ==
  ASSUME StoreInv, StoreInv', NEW t \in Handler, ReceiveResult(t)
  PROVE  Abstract!Fail(t) \/ Stutters
<1>1. PathTypeOK /\ MessageLink(t) /\ PetitionLink(t)
  BY DEF StoreInv, IInv, PathInv, LinkInv, Links
<1>2. /\ UNCHANGED <<fsVars, thread, request, kernel>>
      /\ relay[t] \in {"OK", "ERROR"} /\ petition[t] = "WAIT"
      /\ petition' = [petition EXCEPT ![t] = relay[t]]
  BY DEF ReceiveResult, Petitions
<1>3. StoreOf' = StoreOf /\ KernelOf' = KernelOf /\ files' = files
  BY <1>2, StoreUnchanged DEF fsVars, KernelOf
<1>4. \A u \in Handler \ {t} : StateOf(u)' = StateOf(u)
  BY <1>1, <1>2 DEF PathTypeOK, StateOf
<1>5. StateOf(t) = "WAITS"
  BY <1>1, <1>2 DEF PetitionLink, StateOf
<1>6. CASE relay[t] = "OK"
  <2>1. StateOf(t)' = "WAITS"
    BY <1>1, <1>2, <1>6 DEF PetitionLink, PathTypeOK, StateOf
  <2>2. QED
    BY <1>2, <1>3, <1>4, <1>5, <2>1 DEF Stutters, Threads
<1>7. CASE relay[t] = "ERROR"
  <2>1. StateOf(t)' = "FAILED"
    <3>1. petition'[t] = "ERROR"
      BY <1>1, <1>2, <1>7 DEF PathTypeOK
    <3>2. QED
      BY <3>1 DEF StateOf
  <2>2. Threads[t] = "WAITS" /\ Threads' = [Threads EXCEPT ![t] = "FAILED"]
    BY <1>4, <1>5, <2>1 DEF Threads
  <2>3. ~ Abstract!Stored(t)
    <3>1. ~ Kept(t)
      BY <1>1, <1>7 DEF MessageLink
    <3>2. QED
      BY <3>1, StoredIsKept
  <2>4. QED
    BY <1>2, <1>3, <2>2, <2>3
       DEF Abstract!Fail, Abstract!Becomes, Threads, StoreOf, KernelOf
<1>8. QED
  BY <1>2, <1>6, <1>7

\* A petition that is over lets its thread go on.
LEMMA ResumeStep ==
  ASSUME StoreInv, StoreInv', NEW t \in Handler, RemoveOk(t)
  PROVE  Abstract!Resume(t) \/ Stutters
<1>1. PathTypeOK /\ PetitionLink(t)
  BY DEF StoreInv, IInv, PathInv, LinkInv, Links
<1>2. /\ UNCHANGED <<fsVars, request, kernel>>
      /\ petition[t] = "OK" /\ petition' = [petition EXCEPT ![t] = "NONE"]
      /\ thread' = IF thread[t] = "BLOCKED" THEN [thread EXCEPT ![t] = "RUN"]
                   ELSE thread
  BY DEF RemoveOk, Petitions
<1>3. StoreOf' = StoreOf /\ KernelOf' = KernelOf
  BY <1>2, StoreUnchanged DEF fsVars, KernelOf
<1>4. \A u \in Handler \ {t} : StateOf(u)' = StateOf(u)
  BY <1>1, <1>2 DEF PathTypeOK, StateOf
<1>5. CASE thread[t] # "BLOCKED"
  <2>1. StateOf(t)' = StateOf(t)
    BY <1>1, <1>2, <1>5 DEF PathTypeOK, StateOf
  <2>2. QED
    BY <1>2, <1>3, <1>4, <2>1 DEF Stutters, Threads
<1>6. CASE thread[t] = "BLOCKED"
  <2>1. StateOf(t) = "WAITS" /\ StateOf(t)' = "RUNS"
    BY <1>1, <1>2, <1>6 DEF PathTypeOK, StateOf
  <2>2. Threads[t] = "WAITS" /\ Threads' = [Threads EXCEPT ![t] = "RUNS"]
    BY <1>4, <2>1 DEF Threads
  <2>3. Abstract!Stored(t) \/ KernelOf # "UP"
    <3>1. Kept(t) \/ kernel # "UP"
      BY <1>1, <1>2, <1>6 DEF PetitionLink
    <3>2. QED
      BY <3>1, StoredIsKept DEF KernelOf
  <2>4. QED
    BY <1>2, <1>3, <2>2, <2>3
       DEF Abstract!Resume, Abstract!Becomes, Threads, StoreOf, KernelOf
<1>7. QED
  BY <1>5, <1>6

\* The kernel is told to stop, notices that it lost the memory module, or ends.
LEMMA StopStep ==
  ASSUME StoreInv, StoreInv', NEW t,
         \/ t \in Handler /\ LoseMemory(t)
         \/ Stop \/ Finish
  PROVE  Abstract!Stop \/ Stutters
<1>1. UNCHANGED <<fsVars, thread, request>>
  BY DEF LoseMemory, Stop, Finish
<1>2. StoreOf' = StoreOf
  BY <1>1, StoreUnchanged DEF fsVars
<1>3. ASSUME NEW u \in Handler
      PROVE  \/ petition'[u] = petition[u]
             \/ petition[u] # "ERROR" /\ petition'[u] # "ERROR"
  BY DEF LoseMemory, Stop, Finish, Petitions, StoreInv, IInv, PathInv, PathTypeOK
<1>4. Threads' = Threads
  <2>1. \A u \in Handler : StateOf(u)' = StateOf(u)
    BY <1>1, <1>3, StateIs DEF StateIsBy
  <2>2. QED
    BY <2>1 DEF Threads
<1>5. \/ KernelOf' = KernelOf
      \/ <<KernelOf, KernelOf'>> \in {<<"UP", "STOPPING">>, <<"STOPPING", "DOWN">>}
  BY DEF LoseMemory, Stop, Finish, KernelOf
<1>6. CASE KernelOf' = KernelOf
  BY <1>1, <1>2, <1>4, <1>6 DEF Stutters
<1>7. CASE KernelOf' # KernelOf
  BY <1>1, <1>2, <1>4, <1>5, <1>7
     DEF Abstract!Stop, Threads, StoreOf, KernelOf
<1>8. QED
  BY <1>6, <1>7

\* Whoever is killed with a failed dump that had no consequence yet is killed
\* in the end by that.
LEMMA KillStep ==
  ASSUME StoreInv, StoreInv', NEW t \in Handler,
         RemoveFailed(t) \/ ThreadCancel(t)
  PROVE  (\E S \in SUBSET Handler : Abstract!Kill(S)) \/ Stutters
<1>1. PathTypeOK /\ PathTypeOK' /\ \A u \in Handler : PetitionLink(u)
  BY DEF StoreInv, IInv, PathInv, LinkInv, Links
<1>2. UNCHANGED <<fsVars, request, kernel>> /\ kernel # "DOWN"
  BY DEF RemoveFailed, ThreadCancel, CanWrite
<1>3. StoreOf' = StoreOf /\ KernelOf' = KernelOf /\ KernelOf # "DOWN"
  BY <1>2, StoreUnchanged DEF fsVars, KernelOf
<1>4. ASSUME NEW S \in SUBSET Handler, S # {},
             \A u \in Handler :
               StateOf(u)' = IF u \in S THEN "KILLED" ELSE StateOf(u)
      PROVE  Abstract!Kill(S)
  <2>1. Threads' = [u \in Handler |-> IF u \in S THEN "KILLED" ELSE Threads[u]]
    BY <1>4 DEF Threads
  <2>2. QED
    BY <1>2, <1>3, <1>4, <2>1 DEF Abstract!Kill, Threads, StoreOf, KernelOf
<1>5. \A S, u : u \in Handler =>
        Cancelled(S)[u] = IF u \in S /\ petition[u] \in {"CONNECT", "WAIT"}
                          THEN "OK" ELSE petition[u]
  BY DEF Cancelled
<1>6. CASE RemoveFailed(t)
  <2> DEFINE cancelled == Cancelled(dying')
             S == IF thread[t] = "BLOCKED"
                  THEN {u \in Handler : petition'[u] # "ERROR"} ELSE {t}
  <2>1. /\ petition[t] = "ERROR" /\ petition' = [cancelled EXCEPT ![t] = "NONE"]
        /\ IF thread[t] = "BLOCKED" THEN thread' = [u \in Handler |-> "DEAD"]
           ELSE dying' = {} /\ thread' = thread
    BY <1>6 DEF RemoveFailed, CanWrite, Each
  <2>2. /\ DOMAIN cancelled = Handler
        /\ \A u \in Handler :
             cancelled[u] = IF u \in dying' /\ petition[u] \in {"CONNECT", "WAIT"}
                            THEN "OK" ELSE petition[u]
    <3>1. DOMAIN cancelled = Handler
      BY DEF Cancelled
    <3>2. QED
      BY <1>5, <3>1
  <2> HIDE DEF cancelled
  <2>3. \A u \in Handler : petition'[u] = IF u = t THEN "NONE" ELSE cancelled[u]
    BY <2>1, <2>2
  <2>4. t \in S /\ S \in SUBSET Handler
    BY <2>3
  <2>5. ASSUME NEW u \in Handler
        PROVE  StateOf(u)' = IF u \in S THEN "KILLED" ELSE StateOf(u)
    <3>1. CASE thread[t] = "BLOCKED"
      <4>1. thread'[u] = "DEAD" /\ (u \in S <=> petition'[u] # "ERROR")
        BY <2>1, <3>1
      <4>2. petition'[u] = "ERROR" => petition[u] = "ERROR"
        BY <2>2, <2>3
      <4>3. QED
        BY <4>1, <4>2, StateIs DEF StateIsBy
    <3>2. CASE thread[t] # "BLOCKED"
      <4>1. thread[t] = "DEAD"
        BY <1>1, <2>1, <3>2 DEF PathTypeOK, PetitionLink
      <4>2. /\ thread' = thread /\ S = {t}
            /\ petition'[u] = IF u = t THEN "NONE" ELSE petition[u]
        BY <2>1, <2>2, <2>3, <3>2
      <4> HIDE DEF S
      <4>3. QED
        BY <4>1, <4>2, StateIs DEF StateIsBy
    <3>3. QED
      BY <3>1, <3>2
  <2> HIDE DEF S
  <2>6. Abstract!Kill(S)
    BY <1>4, <2>4, <2>5
  <2>7. QED
    BY <2>4, <2>6
<1>7. CASE ThreadCancel(t)
  <2>1. /\ thread[t] = "BLOCKED" /\ thread' = [thread EXCEPT ![t] = "DEAD"]
        /\ petition' = Cancelled({t})
    BY <1>7 DEF ThreadCancel
  <2>2. \A u \in Handler :
          petition'[u] = IF u = t /\ petition[u] \in {"CONNECT", "WAIT"}
                         THEN "OK" ELSE petition[u]
    BY <1>5, <2>1
  <2>3. \A u \in Handler : thread'[u] = IF u = t THEN "DEAD" ELSE thread[u]
    BY <1>1, <2>1 DEF PathTypeOK
  <2>4. CASE petition[t] = "ERROR"
    <3>1. \A u \in Handler : StateOf(u)' = StateOf(u)
      BY <2>2, <2>3, <2>4, StateIs DEF StateIsBy
    <3>2. QED
      BY <1>2, <1>3, <3>1 DEF Stutters, Threads
  <2>5. CASE petition[t] # "ERROR"
    <3>1. \A u \in Handler :
            StateOf(u)' = IF u \in {t} THEN "KILLED" ELSE StateOf(u)
      BY <2>2, <2>3, <2>5, StateIs DEF StateIsBy
    <3>2. Abstract!Kill({t})
      BY <1>4, <3>1
    <3>3. QED
      BY <3>2
  <2>6. QED
    BY <2>4, <2>5
<1>8. QED
  BY <1>6, <1>7

LEMMA RenewStep ==
  ASSUME StoreInv, StoreInv', NewProcess
  PROVE  Abstract!Renew
<1>1. /\ UNCHANGED <<fsVars, petition, kernel>>
      /\ thread' = Each("RUN") /\ request' = Each(None)
      /\ \A u \in Handler : thread[u] = "DEAD" /\ petition[u] = "NONE"
  BY DEF NewProcess
<1>2. StoreOf' = StoreOf /\ KernelOf' = KernelOf
  BY <1>1, StoreUnchanged DEF fsVars, KernelOf
<1>3. \A u \in Handler : StateOf(u) = "KILLED" /\ StateOf(u)' = "RUNS"
  BY <1>1, StateIs DEF StateIsBy, Each
<1>4. (\A u \in Handler : Threads[u] = "KILLED") /\ Threads' = [u \in Handler |-> "RUNS"]
  BY <1>3 DEF Threads
<1>5. QED
  BY <1>1, <1>2, <1>4 DEF Abstract!Renew, Each, Threads, StoreOf, KernelOf

\* Somebody still wants the dump that a relay works for.
LEMMA IsPending ==
  ASSUME StoreInv, StoreInv', NEW t \in Handler, relay[t] # "NONE"
  PROVE  Abstract!Pending(t)
<1>1. PetitionLink(t)
  BY DEF StoreInv, LinkInv, Links
<1>2. petition[t] # "ERROR" /\ (thread[t] = "RUN" => kernel # "UP")
  BY <1>1 DEF PetitionLink
<1>3. Threads[t] # "FAILED" /\ (Threads[t] = "RUNS" => KernelOf # "UP")
  BY <1>2, StateIs DEF StateIsBy, Threads, KernelOf
<1>4. QED
  BY <1>3 DEF Abstract!Pending, Threads, KernelOf

LEMMA TakeStep ==
  ASSUME StoreInv, StoreInv', NEW t \in Handler, NEW time \in Time,
         NEW size \in Sizes, Send(t, time, size)
  PROVE  Abstract!Take(t)
<1> DEFINE made == [name |-> <<t, time>>, number |-> dumps + 1]
<1>1. /\ relay[t] = "CONNECT" /\ dumps' = dumps + 1
      /\ request' = [request EXCEPT ![t] = made]
      /\ UNCHANGED <<files, thread, petition, kernel>>
  BY DEF Send, Relays, Receive
<1>2. PathTypeOK /\ dumps \in Nat /\ MessageLink(t)
  BY DEF StoreInv, IInv, PathInv, FsInv, FsTypeOK, LinkInv, Links
<1>3. StoreOf' = StoreOf /\ KernelOf' = KernelOf
  BY <1>1, StoreUnchanged DEF KernelOf
<1>4. Threads' = Threads
  <2>1. \A u \in Handler : StateOf(u)' = StateOf(u)
    BY <1>1, StateIs DEF StateIsBy
  <2>2. QED
    BY <2>1 DEF Threads
<1>5. /\ request[t] = None /\ request'[t] = made
      /\ made.name = <<t, time>> /\ made.number = dumps + 1
      /\ <<t, time>> \in Name /\ <<t, time>>[1] = t
  BY <1>1, <1>2, DumpPathAssumption DEF MessageLink, PathTypeOK
<1>6. made # None
  BY <1>2, <1>5, DumpPathAssumption
<1>7. \A n \in Name : StoreOf[n] # dumps + 1
  <2>1. \A n \in Name : StoreOf[n] = SavedNumber(n)
    BY StoreIsFiles DEF StoreInv
  <2>2. \A n \in Name : SavedNumber(n) # dumps + 1
    BY <1>2 DEF SavedNumber, StoreInv, LinkInv, Numbers
  <2>3. QED
    BY <2>1, <2>2
<1>8. \A u \in Handler \ {t} : request[u] # None =>
        request[u].number # dumps + 1 /\ request[u].name # <<t, time>>
  <2>1. \A u \in Handler : request[u] # None =>
          /\ request[u].name[1] = u /\ request[u].number <= dumps
          /\ request[u].number \in Nat
    BY <1>2 DEF StoreInv, LinkInv, Numbers, PathTypeOK
  <2>2. QED
    BY <1>2, <1>5, <2>1
<1> HIDE DEF made
<1>9. Abstract!Pending(t)
  BY <1>1, IsPending
<1>10. QED
  BY <1>1, <1>3, <1>4, <1>5, <1>6, <1>7, <1>8, <1>9
     DEF Abstract!Take, Threads, StoreOf, KernelOf

\* The metadata file of a dump is made anew, then filled.
LEMMA PutStep ==
  ASSUME StoreInv, StoreInv', NEW t \in Handler, WorkOn(t),
         CreateMetadata(t) \/ SaveMetadata(t)
  PROVE  Abstract!Empty(t) \/ Abstract!Save(t)
<1>1. FsTypeOK /\ PathTypeOK /\ FsInv
  BY DEF StoreInv, IInv, PathInv, FsInv
<1>2. pc[t] \in {"CREATE", "SAVE"} /\ UNCHANGED pathVars
  BY DEF CreateMetadata, SaveMetadata, Goes, WorkOn
<1>3. /\ relay[t] = "WAIT" /\ request[t] # None
      /\ job[t].name = request[t].name /\ job[t].dump = request[t].number
      /\ request[t].name \in Name
  BY <1>1, <1>2 DEF StoreInv, LinkInv, Links, HandlerLink, PathTypeOK
<1>4. Threads' = Threads /\ KernelOf' = KernelOf /\ request' = request
  <2>1. \A u \in Handler : StateOf(u)' = StateOf(u)
    BY <1>2, StateIs DEF StateIsBy, pathVars
  <2>2. QED
    BY <1>2, <2>1 DEF Threads, KernelOf, pathVars
<1>5. Abstract!Pending(t)
  BY <1>3, IsPending
<1>6. ASSUME NEW number,
             \A n \in Name :
               SavedNumber(n)' = IF n = request[t].name THEN number
                                 ELSE SavedNumber(n)
      PROVE  Abstract!Puts(t, number)
  <2>1. StoreOf' = [StoreOf EXCEPT ![request[t].name] = number]
    BY <1>3, <1>6, StoreIsFilesNext
  <2>2. QED
    BY <1>3, <1>4, <1>5, <2>1 DEF Abstract!Puts, Threads, StoreOf, KernelOf
<1>7. CASE CreateMetadata(t)
  <2>1. files' = [files EXCEPT ![request[t].name] = NoFile]
    BY <1>3, <1>7 DEF CreateMetadata
  <2>2. NoFile.saved = FALSE
    BY DEF NoFile
  <2>3. \A n \in Name :
          SavedNumber(n)' = IF n = request[t].name THEN 0 ELSE SavedNumber(n)
    BY <1>1, <2>1, <2>2 DEF FsTypeOK, SavedNumber
  <2>4. QED
    BY <1>6, <2>3 DEF Abstract!Empty
<1>8. CASE SaveMetadata(t)
  <2>1. files' = [files EXCEPT ![request[t].name] = Metadata(job[t])]
    BY <1>3, <1>8 DEF SaveMetadata
  <2>2. Metadata(job[t]).saved = TRUE /\ Metadata(job[t]).dump = request[t].number
    BY <1>3 DEF Metadata
  <2>3. \A n \in Name :
          SavedNumber(n)' = IF n = request[t].name THEN request[t].number
                            ELSE SavedNumber(n)
    BY <1>1, <2>1, <2>2 DEF FsTypeOK, SavedNumber
  <2>4. QED
    BY <1>6, <2>3 DEF Abstract!Save
<1>9. QED
  BY <1>7, <1>8

\* Every step of the path is a step of the store, or changes nothing there.
LEMMA StepSimulates ==
  StoreInv /\ StoreInv' /\ [Next]_vars
    => [Abstract!Next]_(Abstract!storeVars)
<1> SUFFICES ASSUME StoreInv, StoreInv', [Next]_vars
             PROVE  Abstract!Next \/ Stutters
  BY DEF Stutters, Threads, StoreOf, KernelOf, Abstract!storeVars
<1>1. ASSUME NEW t \in Handler, Petitioner(t) PROVE Abstract!Next \/ Stutters
  BY <1>1, StutterStep, ResultStep, StopStep, ResumeStep, KillStep
     DEF Petitioner, Abstract!Next
<1>2. ASSUME NEW t \in Handler, Relay(t) PROVE Abstract!Next \/ Stutters
  BY <1>2, StutterStep, TakeStep DEF Relay, Abstract!Next
<1>3. ASSUME NEW t \in Handler, Serve(t) PROVE Abstract!Next \/ Stutters
  BY <1>3, StutterStep, PutStep DEF Serve, Abstract!Next
<1>4. ASSUME NEW t \in Handler,
             DumpMemory(t) \/ ThreadCancel(t) \/ ThreadDestroy(t)
      PROVE  Abstract!Next \/ Stutters
  BY <1>4, AskStep, KillStep, StutterStep DEF Abstract!Next
<1>5. CASE NewProcess \/ Stop \/ WaitDumps \/ Finish \/ RestartFilesystem
             \/ UNCHANGED vars
  BY <1>5, RenewStep, StopStep, StutterStep DEF Abstract!Next
<1>6. QED
  BY <1>1, <1>2, <1>3, <1>4, <1>5 DEF Next

LEMMA InitSimulates == Init => Abstract!Init
<1> SUFFICES ASSUME Init PROVE Abstract!Init
  OBVIOUS
<1>1. \A n \in Name : StoredAs(n) = 0
  BY DEF Init, FsInit, NoFile, StoredAs
<1>2. /\ petition = [t \in Handler |-> "NONE"] /\ thread = [t \in Handler |-> "RUN"]
      /\ request = [t \in Handler |-> None] /\ kernel = "UP"
  BY DEF Init, Each
<1>3. \A t \in Handler : petition[t] = "NONE" /\ thread[t] = "RUN"
  BY <1>2
<1>4. \A t \in Handler : StateOf(t) = "RUNS"
  BY <1>3 DEF StateOf
<1>5. QED
  BY <1>1, <1>2, <1>4 DEF Abstract!Init

-----------------------------------------------------------------------------
(* Theorems                                                                *)

\* The inductive invariant of the path of a dump: to IInv it adds that the
\* regions of dumps do not meet and hold what was written (DiskInv), and that
\* the results on their way tell the truth about the store (LinkInv).
THEOREM StoreInvariance == Spec => []StoreInv
<1>1. Init => StoreInv
  BY FsInvInit, PathInvInit, DiskInvInit, LinkInvInit DEF Init, StoreInv, IInv
<1>2. StoreInv /\ [Next]_vars => StoreInv'
  BY StoreInvStep
<1>3. QED
  BY <1>1, <1>2, PTL DEF Spec

\* A file whose metadata were saved reads back as the dump it was made for, at
\* all times: other handlers, restarts and failures leave its blocks alone.
THEOREM SavedDumpsReadBack ==
  Spec => [](\A n \in Name : files[n].saved => StoredAs(n) = files[n].dump)
<1>1. StoreInv => \A n \in Name : files[n].saved => StoredAs(n) = files[n].dump
  BY SavedReadsBack DEF StoreInv, IInv
<1>2. QED
  BY <1>1, StoreInvariance, PTL

\* Kernel, memory and filesystem implement the safety part of Stores: a thread
\* goes on only with its dump stored or because the kernel stops, its process is
\* ended for a failed dump only if none was stored, and a stored dump is changed
\* by no other.
THEOREM DumpsAreStored == Spec => Abstract!Safety
BY StoreInvariance, InitSimulates, StepSimulates, PTL DEF Spec, Abstract!Safety
=============================================================================
