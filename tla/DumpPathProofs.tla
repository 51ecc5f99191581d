--------------------------- MODULE DumpPathProofs ---------------------------
(***************************************************************************)
(* The filesystem counts its free blocks and writes only into blocks that  *)
(* it reserved, for any number of handlers, blocks, pointers per block,    *)
(* sizes of dumps and restarts, whatever the kernel and the memory module  *)
(* ask of it and whenever they give up.                                    *)
(*                                                                         *)
(* Blocks are never freed, so that the used ones are the first ones        *)
(* (InOrder), and a reservation is an interval after them (Holding).  For  *)
(* this reason the array may pass the end of the index block by one entry: *)
(* the block after it belongs to the same dump.                            *)
(***************************************************************************)
EXTENDS DumpPath, FiniteSetTheorems, SequenceTheorems, TLAPS

Job == [name : Name, size : Sizes, dump : Nat, array : Seq(Block)]

\* The blocks are taken from the lowest to the highest
InOrder ==
  \E k \in 0 .. BlockCount : used = 0 .. k - 1 /\ free = BlockCount - k

Working == \A h \in Handler : pc[h] # "IDLE" => job[h] \in Job

\* The blocks of an array follow one another
Interval(array) ==
  \A i \in 1 .. Len(array) : array[i] = array[1] + (i - 1)

Holding ==
  \A h \in Handler : pc[h] \in {"INDEX", "DATA", "CREATE", "SAVE"} =>
    /\ Len(job[h].array) = BlocksNecessary(job[h].size)
    /\ DataBlocks(job[h].size) <= Pointers
    /\ Interval(job[h].array)

Position ==
  \A h \in Handler :
    /\ pc[h] \in {"IDLE", "RESERVE", "INDEX"} => next[h] = 0
    /\ pc[h] = "DATA" => next[h] \in 1 .. DataBlocks(job[h].size)

FsInv == FsTypeOK /\ InOrder /\ Working /\ Holding /\ Position

\* A dump that a petitioner has asked for or is about to, and that was not sent
Asking ==
  {t \in Handler : petition[t] = "CONNECT" \/ relay[t] \in {"ATTEND", "CONNECT"}}

Apart == \A t \in Handler : petition[t] = "CONNECT" => relay[t] = "NONE"

Asked == dumps + Cardinality(Asking) <= calls

PathTypeOK ==
  /\ thread \in [Handler -> {"RUN", "BLOCKED", "DEAD"}] /\ dying \subseteq Handler
  /\ petition \in [Handler -> {"NONE", "CONNECT", "WAIT", "OK", "ERROR"}]
  /\ relay \in [Handler -> {"NONE", "ATTEND", "CONNECT", "WAIT", "OK", "ERROR",
                            "BROKEN"}]
  /\ request \in [Handler -> [name : Name, number : 1 .. MaxDumps] \cup {None}]
  /\ reply \in [Handler -> {"NONE", "OK", "ERROR"}]
  /\ kernel \in {"UP", "STOPPING", "WAITING", "DOWN"}
  /\ calls \in 0 .. MaxDumps

PathInv == PathTypeOK /\ Apart /\ Asked

IInv == FsInv /\ PathInv

-----------------------------------------------------------------------------
(* Blocks                                                                  *)

\* The data blocks hold the dump, and the last of them is needed.
LEMMA DataBlocksFacts ==
  ASSUME NEW size \in Nat
  PROVE  /\ DataBlocks(size) \in Nat
         /\ size <= Pointers * DataBlocks(size)
         /\ Pointers * DataBlocks(size) < size + Pointers
<1>1. Pointers \in Nat /\ Pointers > 0
  BY FileSystemAssumption
<1>2. DEFINE n == size + Pointers - 1
<1>3. n \in Nat /\ n \div Pointers \in Nat /\ n % Pointers \in 0 .. Pointers - 1
  BY <1>1
<1>4. n = Pointers * (n \div Pointers) + (n % Pointers)
  BY <1>1, <1>3
<1>5. QED
  BY <1>1, <1>3, <1>4 DEF DataBlocks

\* A part of a dump fits in a block.
LEMMA PartFits ==
  ASSUME NEW size \in Nat, NEW k \in 1 .. DataBlocks(size)
  PROVE  PartSize(size, k) \in Int /\ PartSize(size, k) <= Pointers
<1>1. Pointers \in Nat /\ Pointers > 0
  BY FileSystemAssumption
<1>2. DataBlocks(size) \in Nat /\ size <= Pointers * DataBlocks(size)
  BY DataBlocksFacts
<1>3. /\ Pointers * (DataBlocks(size) - 1) = Pointers * DataBlocks(size) - Pointers
      /\ Pointers * DataBlocks(size) \in Nat
  BY <1>1, <1>2
<1>4. QED
  BY <1>1, <1>2, <1>3 DEF PartSize

\* An address in the cells of block b belongs to block b.
LEMMA BlockOf ==
  ASSUME NEW b \in Nat, NEW a \in Nat,
         b * Pointers <= a, a < b * Pointers + Pointers
  PROVE  a \div Pointers = b
<1>1. Pointers \in Nat /\ Pointers > 0
  BY FileSystemAssumption
<1>2. DEFINE q == a \div Pointers
             r == a % Pointers
<1>3. q \in Nat /\ r \in 0 .. Pointers - 1 /\ a = Pointers * q + r
  BY <1>1
<1> HIDE DEF q, r
<1>4. ~ q < b
  <2>1. SUFFICES ASSUME q + 1 <= b PROVE FALSE
    BY <1>3
  <2>2. Pointers * (q + 1) <= Pointers * b
    BY <1>1, <1>3, <2>1
  <2>3. QED
    BY <1>1, <1>3, <2>2
<1>5. ~ b < q
  <2>1. SUFFICES ASSUME b + 1 <= q PROVE FALSE
    BY <1>3
  <2>2. Pointers * (b + 1) <= Pointers * q
    BY <1>1, <1>3, <2>1
  <2>3. QED
    BY <1>1, <1>3, <2>2
<1>6. QED
  BY <1>3, <1>4, <1>5 DEF q

\* What set_bits_bitmap takes: the first free blocks are the ones after those
\* in use, as many as were asked for.
LEMMA FirstFreeFacts ==
  ASSUME NEW k \in 0 .. BlockCount, used = 0 .. k - 1,
         NEW n \in Nat \ {0}, NEW array \in [1 .. n -> Block],
         FirstFree(array)
  PROVE  /\ array \in Seq(Block) /\ Len(array) = n
         /\ Interval(array) /\ array[1] = k
         /\ k + n <= BlockCount
         /\ used \cup Blocks(array) = 0 .. (k + n) - 1
<1>1. BlockCount \in Nat
  BY FileSystemAssumption
<1>2. array \in Seq(Block) /\ Len(array) = n /\ DOMAIN array = 1 .. n
  BY SeqDef
<1>3. \A i \in 1 .. n : array[i] \in Nat /\ k <= array[i] /\ array[i] < BlockCount
  BY <1>1, <1>2 DEF FirstFree, Block
<1>4. \A i, j \in 1 .. n : i < j => array[i] < array[j]
  BY <1>2 DEF FirstFree
<1>5. \A b \in k .. BlockCount - 1, i \in 1 .. n :
        b < array[i] => \E j \in 1 .. n : array[j] = b
  <2>1. \A b \in k .. BlockCount - 1 : b \in Block \ used
    BY <1>1 DEF Block
  <2>2. QED
    BY <1>2, <2>1 DEF FirstFree
<1>6. array[1] = k
  <2>1. SUFFICES ASSUME k < array[1] PROVE FALSE
    BY <1>1, <1>3
  <2>2. PICK j \in 1 .. n : array[j] = k
    BY <1>1, <1>3, <1>5, <2>1
  <2>3. j = 1 \/ array[1] < array[j]
    BY <1>4
  <2>4. QED
    BY <1>3, <2>1, <2>2, <2>3
\* The first m entries are as many as the blocks up to the m-th
<1>7. ASSUME NEW m \in 1 .. n PROVE array[m] = k + m - 1
  <2> DEFINE first == [i \in 1 .. m |-> array[i]]
  <2>1. \A i \in 1 .. m : i \in 1 .. n /\ array[i] \in k .. array[m]
    <3>1. \A i \in 1 .. m : i \in 1 .. n /\ (i = m \/ i < m)
      OBVIOUS
    <3>2. QED
      BY <1>3, <1>4, <3>1
  <2>2. ASSUME NEW b \in k .. array[m] PROVE \E i \in 1 .. m : array[i] = b
    <3>1. CASE b = array[m]
      BY <3>1
    <3>2. CASE b # array[m]
      <4>1. b \in k .. BlockCount - 1 /\ b < array[m]
        BY <1>1, <1>3, <2>2, <3>2
      <4>2. PICK j \in 1 .. n : array[j] = b
        BY <1>5, <4>1
      <4>3. j <= m
        <5>1. m < j => array[m] < array[j]
          BY <1>4
        <5>2. QED
          BY <1>3, <4>1, <4>2, <5>1
      <4>4. QED
        BY <4>2, <4>3
    <3>3. QED
      BY <3>1, <3>2
  <2>3. \A i, j \in 1 .. m : array[i] = array[j] => i = j
    <3>1. \A i, j \in 1 .. m : /\ i \in 1 .. n /\ j \in 1 .. n
                              /\ (i < j \/ j < i \/ i = j)
      OBVIOUS
    <3>2. QED
      BY <1>3, <1>4, <3>1
  <2>4. first \in Bijection(1 .. m, k .. array[m])
    <3>1. first \in [1 .. m -> k .. array[m]]
      BY <2>1
    <3>2. \A i, j \in 1 .. m : first[i] = first[j] => i = j
      BY <2>3
    <3>3. \A b \in k .. array[m] : \E i \in 1 .. m : first[i] = b
      BY <2>2
    <3> HIDE DEF first
    <3>4. first \in Injection(1 .. m, k .. array[m])
      BY <3>1, <3>2, Zenon DEF Injection, IsInjective
    <3>5. first \in Surjection(1 .. m, k .. array[m])
      BY <3>1, <3>3, Zenon DEF Surjection
    <3>6. QED
      BY <3>4, <3>5, Zenon DEF Bijection
  <2>5. IsFiniteSet(1 .. m) /\ Cardinality(1 .. m) = m
    <3>1. 1 \in Int /\ m \in Int /\ ~ 1 > m /\ (m - 1) + 1 = m
      OBVIOUS
    <3>2. IsFiniteSet(1 .. m)
      BY <3>1, FS_Interval
    <3>3. Cardinality(1 .. m) = IF 1 > m THEN 0 ELSE m - 1 + 1
      BY <3>1, FS_Interval
    <3>4. QED
      BY <3>1, <3>2, <3>3
  <2>6. Cardinality(k .. array[m]) = m
    <3>1. ExistsBijection(1 .. m, k .. array[m])
      BY <2>4 DEF ExistsBijection
    <3>2. QED
      BY <2>5, <3>1, FS_Bijection
  <2>7. Cardinality(k .. array[m]) = array[m] - k + 1
    <3>1. k \in Int /\ array[m] \in Int /\ k <= array[m]
      BY <1>1, <1>3
    <3>2. QED
      BY <3>1, FS_Interval
  <2>8. k \in Int /\ array[m] \in Int /\ m \in Int
    BY <1>1, <1>3
  <2>9. array[m] - k + 1 = m
    BY <2>6, <2>7
  <2>10. QED
    BY <2>8, <2>9
<1>8. Blocks(array) = k .. (k + n) - 1
  <2>1. Blocks(array) \subseteq k .. (k + n) - 1
    BY <1>2, <1>3, <1>7 DEF Blocks
  <2>2. ASSUME NEW b \in k .. (k + n) - 1 PROVE b \in Blocks(array)
    <3>1. (b - k) + 1 \in 1 .. n /\ array[(b - k) + 1] = b
      BY <1>1, <1>7
    <3>2. QED
      BY <1>2, <3>1 DEF Blocks
  <2>3. QED
    BY <2>1, <2>2
<1>10. Interval(array) /\ array[1] = k
  BY <1>1, <1>2, <1>6, <1>7 DEF Interval
<1>11. used \cup Blocks(array) = 0 .. (k + n) - 1
  BY <1>1, <1>8
<1>12. k + n <= BlockCount
  BY <1>1, <1>3, <1>7
<1>13. QED
  BY <1>2, <1>10, <1>11, <1>12

-----------------------------------------------------------------------------
(* A step of the filesystem keeps FsInv                                    *)

\* Receive: the job is one, and nothing else of a handler at work changes.
LEMMA ReceiveKeeps ==
  ASSUME FsInv, NEW h \in Handler, NEW name \in Name, NEW size \in Sizes,
         Receive(h, name, size)
  PROVE  FsInv'
<1>1. /\ pc[h] = "IDLE" /\ pc' = [pc EXCEPT ![h] = "RESERVE"]
      /\ dumps' = dumps + 1
      /\ job' = [job EXCEPT ![h] = [name |-> name, size |-> size,
                                    dump |-> dumps + 1, array |-> <<>>]]
      /\ UNCHANGED <<used, free, disk, files, next, restarts>>
  BY DEF Receive, Goes
<1>2. job'[h] \in Job /\ job' \in [Handler -> {NoJob} \cup Job]
  <2>1. <<>> \in Seq(Block) /\ dumps + 1 \in Nat
    BY DEF FsInv, FsTypeOK
  <2>2. job[h] \in {NoJob} \cup Job /\ job \in [Handler -> {NoJob} \cup Job]
    BY DEF FsInv, FsTypeOK, Job
  <2>3. [name |-> name, size |-> size, dump |-> dumps + 1, array |-> <<>>] \in Job
    BY <2>1 DEF Job
  <2>4. QED
    BY <1>1, <2>2, <2>3
<1>3. FsTypeOK'
  BY <1>1, <1>2 DEF FsInv, FsTypeOK, Job
<1>4. InOrder' /\ Working' /\ Holding' /\ Position'
  BY <1>1, <1>2 DEF FsInv, FsTypeOK, InOrder, Working, Holding, Position
<1>5. QED
  BY <1>3, <1>4 DEF FsInv

LEMMA RefuseKeeps ==
  ASSUME FsInv, NEW h \in Handler, Refuse(h)
  PROVE  FsInv'
BY DEF Refuse, Goes, FsInv, FsTypeOK, InOrder, Working, Holding, Position

\* Reserve: the next blocks, which FirstFree takes, keep the used ones a prefix
\* that free_blocks counts.
LEMMA ReserveKeeps ==
  ASSUME FsInv, NEW h \in Handler, Reserve(h)
  PROVE  FsInv'
<1> DEFINE size == job[h].size
           n == BlocksNecessary(size)
<1>1. /\ pc[h] = "RESERVE" /\ pc' = [pc EXCEPT ![h] = "INDEX"] /\ Fits(size)
      /\ free' = FreeAfter(size)
      /\ UNCHANGED <<disk, files, next, dumps, restarts>>
  BY DEF Reserve, Goes
<1>2. PICK array \in [1 .. n -> Block] :
        /\ FirstFree(array)
        /\ used' = used \cup Blocks(array)
        /\ job' = [job EXCEPT ![h].array = array]
  BY DEF Reserve
<1>3. job[h] \in Job /\ size \in Nat
  BY <1>1, FileSystemAssumption DEF FsInv, Working, Job
<1>4. n \in Nat \ {0}
  <2>1. DataBlocks(size) \in Nat
    BY <1>3, DataBlocksFacts
  <2>2. QED
    BY <2>1 DEF BlocksNecessary
<1>5. PICK k \in 0 .. BlockCount : used = 0 .. k - 1 /\ free = BlockCount - k
  BY DEF FsInv, InOrder
<1> HIDE DEF n
<1>6. /\ array \in Seq(Block) /\ Len(array) = n /\ Interval(array)
      /\ k + n <= BlockCount /\ used' = 0 .. (k + n) - 1
  BY <1>2, <1>4, <1>5, FirstFreeFacts
<1>7. free' = BlockCount - (k + n) /\ k + n \in 0 .. BlockCount
  BY <1>1, <1>4, <1>5, <1>6, FileSystemAssumption DEF FreeAfter, n
<1>8. /\ job' = [job EXCEPT ![h] = [job[h] EXCEPT !.array = array]]
      /\ [job[h] EXCEPT !.array = array] \in Job
      /\ [job[h] EXCEPT !.array = array].array = array
      /\ [job[h] EXCEPT !.array = array].size = size
  BY <1>2, <1>3, <1>6 DEF Job
<1>9. job \in [Handler -> {NoJob} \cup Job]
  BY DEF FsInv, FsTypeOK, Job
<1>10. /\ job' \in [Handler -> {NoJob} \cup Job]
       /\ job'[h] \in Job /\ job'[h].array = array /\ job'[h].size = size
       /\ \A g \in Handler \ {h} : job'[g] = job[g]
  BY <1>8, <1>9
<1>11. FsTypeOK'
  <2>1. used' \subseteq Block /\ free' \in 0 .. BlockCount
    BY <1>4, <1>6, <1>7, FileSystemAssumption DEF Block
  <2>2. QED
    BY <1>1, <1>10, <2>1 DEF FsInv, FsTypeOK, Job
<1>12. InOrder'
  BY <1>6, <1>7 DEF InOrder
<1>13. Working' /\ Position'
  BY <1>1, <1>10 DEF FsInv, FsTypeOK, Working, Position
<1>14. Holding'
  <2>1. DataBlocks(size) <= Pointers
    BY <1>1 DEF Fits
  <2>2. QED
    BY <1>1, <1>6, <1>10, <2>1 DEF FsInv, FsTypeOK, Holding, n
<1>15. QED
  BY <1>11, <1>12, <1>13, <1>14 DEF FsInv

\* WriteIndex: there is a data block to write if the array has more than one.
LEMMA WriteIndexKeeps ==
  ASSUME FsInv, NEW h \in Handler, WriteIndex(h)
  PROVE  FsInv'
<1>1. /\ pc[h] = "INDEX" /\ disk' \in [Address -> {disk'[a] : a \in Address}]
      /\ pc' = [pc EXCEPT ![h] = IF Len(job[h].array) > 1 THEN "DATA"
                                 ELSE "CREATE"]
      /\ next' = [next EXCEPT ![h] = 1]
      /\ UNCHANGED <<used, free, files, job, dumps, restarts>>
  BY DEF WriteIndex, Goes, Written
<1>2. Len(job[h].array) > 1 => 1 \in 1 .. DataBlocks(job[h].size)
  <2>1. job[h] \in Job /\ job[h].size \in Nat
    BY <1>1, FileSystemAssumption DEF FsInv, Working, Job
  <2>2. Len(job[h].array) = DataBlocks(job[h].size) + 1
    BY <1>1 DEF FsInv, Holding, BlocksNecessary
  <2>3. DataBlocks(job[h].size) \in Nat
    BY <2>1, DataBlocksFacts
  <2>4. QED
    BY <2>2, <2>3
<1>3. DOMAIN disk' = Address
  BY <1>1
<1>4. FsTypeOK'
  BY <1>1, <1>3 DEF FsInv, FsTypeOK
<1>5. InOrder' /\ Working' /\ Holding' /\ Position'
  BY <1>1, <1>2 DEF FsInv, FsTypeOK, InOrder, Working, Holding, Position
<1>6. QED
  BY <1>4, <1>5 DEF FsInv

LEMMA WriteDataKeeps ==
  ASSUME FsInv, NEW h \in Handler, WriteData(h)
  PROVE  FsInv'
<1> DEFINE k == next[h]
<1>1. /\ pc[h] = "DATA" /\ disk' \in [Address -> {disk'[a] : a \in Address}]
      /\ pc' = [pc EXCEPT ![h] = IF k = DataBlocks(job[h].size) THEN "CREATE"
                                 ELSE "DATA"]
      /\ next' = [next EXCEPT ![h] = k + 1]
      /\ UNCHANGED <<used, free, files, job, dumps, restarts>>
  BY DEF WriteData, Goes, Written
<1>2. /\ k \in 1 .. DataBlocks(job[h].size)
      /\ DataBlocks(job[h].size) \in Nat
  <2>1. job[h].size \in Nat
    BY <1>1, FileSystemAssumption DEF FsInv, Working, Job
  <2>2. QED
    BY <1>1, <2>1, DataBlocksFacts DEF FsInv, Position
<1>3. k # DataBlocks(job[h].size) => k + 1 \in 1 .. DataBlocks(job[h].size)
  BY <1>2
<1>4. DOMAIN disk' = Address /\ k + 1 \in Nat
  BY <1>1, <1>2
<1> HIDE DEF k
<1>5. FsTypeOK'
  BY <1>1, <1>4 DEF FsInv, FsTypeOK
<1>6. InOrder' /\ Working' /\ Holding' /\ Position'
  BY <1>1, <1>3 DEF FsInv, FsTypeOK, InOrder, Working, Holding, Position
<1>7. QED
  BY <1>5, <1>6 DEF FsInv

\* The metadata name the first block of the array, which there is.
LEMMA MetadataKeeps ==
  ASSUME FsInv, NEW h \in Handler,
         CreateMetadata(h) \/ SaveMetadata(h)
  PROVE  FsInv'
<1>1. /\ pc[h] \in {"CREATE", "SAVE"}
      /\ pc' = [pc EXCEPT ![h] = "SAVE"] \/ pc' = [pc EXCEPT ![h] = "ANSWER"]
      /\ \/ files' = [files EXCEPT ![job[h].name] = NoFile]
         \/ files' = [files EXCEPT ![job[h].name] = Metadata(job[h])]
      /\ UNCHANGED <<used, free, disk, job, next, dumps, restarts>>
  BY DEF CreateMetadata, SaveMetadata, Goes
<1>2. /\ job[h] \in Job /\ job[h].name \in Name /\ job[h].size \in Sizes
      /\ job[h].dump \in Nat /\ job[h].array \in Seq(Block)
  BY <1>1 DEF FsInv, Working, Job
<1>3. job[h].array[1] \in Block
  <2>1. Len(job[h].array) = DataBlocks(job[h].size) + 1
    BY <1>1 DEF FsInv, Holding, BlocksNecessary
  <2>2. DataBlocks(job[h].size) \in Nat
    BY <1>2, DataBlocksFacts, FileSystemAssumption
  <2>3. QED
    BY <1>2, <2>1, <2>2, ElementOfSeq
<1>4. Metadata(job[h]) \in [saved : {TRUE}, size : Sizes, index : Block, dump : Nat]
  BY <1>2, <1>3 DEF Metadata
<1>5. FsTypeOK'
  <2>1. files' \in [Name -> {NoFile} \cup [saved : {TRUE}, size : Sizes,
                                         index : Block, dump : Nat]]
    BY <1>1, <1>2, <1>4 DEF FsInv, FsTypeOK
  <2>2. pc' \in [Handler -> {"IDLE", "RESERVE", "INDEX", "DATA", "CREATE",
                             "SAVE", "ANSWER"}]
    BY <1>1 DEF FsInv, FsTypeOK
  <2>3. QED
    BY <1>1, <2>1, <2>2 DEF FsInv, FsTypeOK
<1>6. InOrder' /\ Working' /\ Holding' /\ Position'
  BY <1>1 DEF FsInv, FsTypeOK, InOrder, Working, Holding, Position
<1>7. QED
  BY <1>5, <1>6 DEF FsInv

LEMMA ForgetKeeps ==
  ASSUME FsInv, NEW h \in Handler, FailMetadata(h) \/ Answer(h)
  PROVE  FsInv'
<1>1. /\ pc' = [pc EXCEPT ![h] = "IDLE"]
      /\ job' = [job EXCEPT ![h] = NoJob] /\ next' = [next EXCEPT ![h] = 0]
      /\ UNCHANGED <<used, free, disk, files, dumps, restarts>>
  BY DEF FailMetadata, Answer, Forget, Goes
<1>2. FsTypeOK'
  BY <1>1 DEF FsInv, FsTypeOK
<1>3. InOrder' /\ Working' /\ Holding' /\ Position'
  BY <1>1 DEF FsInv, FsTypeOK, InOrder, Working, Holding, Position
<1>4. QED
  BY <1>2, <1>3 DEF FsInv

\* The bits that are not set are counted: those after the prefix.
LEMMA FreeBlocks ==
  ASSUME NEW k \in 0 .. BlockCount
  PROVE  Cardinality(Block \ (0 .. k - 1)) = BlockCount - k
<1>1. BlockCount \in Nat /\ k \in Nat /\ k <= BlockCount
  BY FileSystemAssumption
<1>2. Block \ (0 .. k - 1) = k .. BlockCount - 1
  BY <1>1 DEF Block
<1>3. Cardinality(k .. BlockCount - 1) =
        IF k > BlockCount - 1 THEN 0 ELSE (BlockCount - 1) - k + 1
  BY <1>1, FS_Interval
<1>4. Cardinality(k .. BlockCount - 1) = BlockCount - k
  BY <1>1, <1>3
<1>5. QED
  BY <1>2, <1>4, Zenon

\* A start after a set_bits_bitmap cut short: the bits that were set are the
\* next ones, so that the used blocks are a prefix again, and are counted.
LEMMA RestartCounts ==
  ASSUME FsInv, NEW bits \in SUBSET Block, bits = {} \/ Begun(bits),
         Recounted(bits)
  PROVE  InOrder'
<1>1. /\ used' = used \cup bits /\ free' = Cardinality(Block \ used')
      /\ BlockCount \in Nat
  BY FileSystemAssumption DEF Recounted
<1>2. PICK k \in 0 .. BlockCount : used = 0 .. k - 1 /\ free = BlockCount - k
  BY DEF FsInv, InOrder
<1>3. \E m \in 0 .. BlockCount : used' = 0 .. m - 1
  <2>1. CASE bits = {}
    BY <1>1, <1>2, <2>1
  <2>2. CASE Begun(bits)
    <3>1. PICK h \in Handler :
            /\ pc[h] = "RESERVE"
            /\ \E n \in 1 .. BlocksNecessary(job[h].size) - 1 :
                 \E array \in [1 .. n -> Block] :
                   FirstFree(array) /\ bits = Blocks(array)
      BY <2>2 DEF Begun
    <3>2. job[h].size \in Nat
      BY <3>1, FileSystemAssumption DEF FsInv, Working, Job
    <3>3. BlocksNecessary(job[h].size) \in Nat
      BY <3>2, DataBlocksFacts DEF BlocksNecessary
    <3>4. PICK n \in 1 .. BlocksNecessary(job[h].size) - 1 :
            \E array \in [1 .. n -> Block] :
              FirstFree(array) /\ bits = Blocks(array)
      BY <3>1
    <3>5. n \in Nat \ {0}
      BY <3>3
    <3>6. k + n <= BlockCount /\ used' = 0 .. (k + n) - 1
      BY <1>1, <1>2, <3>4, <3>5, FirstFreeFacts
    <3>7. k + n \in 0 .. BlockCount
      BY <1>1, <3>5, <3>6
    <3>8. QED
      BY <3>6, <3>7
  <2>3. QED
    BY <2>1, <2>2
<1>4. PICK m \in 0 .. BlockCount : used' = 0 .. m - 1
  BY <1>3
<1>5. free' = BlockCount - m
  <2>1. Cardinality(Block \ (0 .. m - 1)) = BlockCount - m
    BY FreeBlocks
  <2>2. QED
    BY <1>1, <1>4, <2>1
<1>6. QED
  BY <1>4, <1>5 DEF InOrder

LEMMA RestartKeeps ==
  ASSUME FsInv, Restart
  PROVE  FsInv'
<1>1. /\ restarts < MaxRestarts /\ restarts' = restarts + 1
      /\ pc' = [g \in Handler |-> "IDLE"] /\ job' = [g \in Handler |-> NoJob]
      /\ next' = [g \in Handler |-> 0]
      /\ UNCHANGED <<disk, files, dumps>>
  BY DEF Restart
<1>2. InOrder'
  <2>1. PICK bits \in SUBSET Block : (bits = {} \/ Begun(bits)) /\ Recounted(bits)
    BY DEF Restart
  <2>2. QED
    BY <2>1, RestartCounts
<1>3. PICK m \in 0 .. BlockCount : used' = 0 .. m - 1 /\ free' = BlockCount - m
  BY <1>2 DEF InOrder
<1>4. used' \subseteq Block /\ free' \in 0 .. BlockCount
  BY <1>3, FileSystemAssumption DEF Block
<1>5. FsTypeOK'
  <2>1. restarts' \in 0 .. MaxRestarts
    BY <1>1, FileSystemAssumption DEF FsInv, FsTypeOK
  <2>2. /\ pc' \in [Handler -> {"IDLE", "RESERVE", "INDEX", "DATA", "CREATE",
                                "SAVE", "ANSWER"}]
        /\ job' \in [Handler -> {NoJob} \cup Job] /\ next' \in [Handler -> Nat]
    BY <1>1
  <2>3. QED
    BY <1>1, <1>4, <2>1, <2>2 DEF FsInv, FsTypeOK, Job
<1>6. Working' /\ Holding' /\ Position'
  BY <1>1 DEF Working, Holding, Position
<1>7. QED
  BY <1>2, <1>5, <1>6 DEF FsInv

\* What the filesystem does in a step of the system
FsStep ==
  \/ \E h \in Handler :
       \/ \E name \in Name, size \in Sizes : Receive(h, name, size)
       \/ Work(h) \/ Answer(h)
  \/ Restart
  \/ UNCHANGED fsVars

LEMMA FsInvStep == FsInv /\ FsStep => FsInv'
<1> SUFFICES ASSUME FsInv, FsStep PROVE FsInv'
  OBVIOUS
<1>1. ASSUME NEW h \in Handler, Work(h) PROVE FsInv'
  BY <1>1, RefuseKeeps, ReserveKeeps, WriteIndexKeeps, WriteDataKeeps,
     MetadataKeeps, ForgetKeeps DEF Work
<1>2. CASE UNCHANGED fsVars
  BY <1>2 DEF fsVars, FsInv, FsTypeOK, InOrder, Working, Holding, Position
<1>3. QED
  BY <1>1, <1>2, ReceiveKeeps, ForgetKeeps, RestartKeeps DEF FsStep

LEMMA FsInvInit == FsInit => FsInv
<1> SUFFICES ASSUME FsInit PROVE FsInv
  OBVIOUS
<1>1. BlockCount \in Nat /\ MaxRestarts \in Nat
  BY FileSystemAssumption
<1>2. FsTypeOK
  BY <1>1 DEF FsInit, FsTypeOK
<1>3. InOrder
  BY <1>1 DEF FsInit, InOrder
<1>4. Working /\ Holding /\ Position
  BY DEF FsInit, Working, Holding, Position
<1>5. QED
  BY <1>2, <1>3, <1>4 DEF FsInv

-----------------------------------------------------------------------------
(* Who writes where                                                        *)

OwnWrites ==
  \A a \in Address : disk'[a] # disk[a] =>
    \E h \in Handler : /\ pc[h] \in {"INDEX", "DATA"}
                       /\ next'[h] # next[h]
                       /\ a \div Pointers \in Blocks(job[h].array)

\* The index block may overflow into the next block, which is the first data
\* block of the same dump.
LEMMA IndexWritesOwn ==
  ASSUME FsInv, NEW h \in Handler, WriteIndex(h)
  PROVE  OwnWrites
<1> DEFINE array == job[h].array
           b == array[1]
           cells == [i \in DOMAIN array |-> Pointer(array[i])]
<1>1. /\ pc[h] = "INDEX" /\ disk' = Written(b, cells)
      /\ next' = [next EXCEPT ![h] = 1]
  BY DEF WriteIndex, Goes
<1>2. next'[h] # next[h]
  BY <1>1 DEF FsInv, FsTypeOK, Position
<1>3. array \in Seq(Block) /\ job[h].size \in Nat
  BY <1>1, FileSystemAssumption DEF FsInv, Working, Job
<1>4. /\ Len(array) = DataBlocks(job[h].size) + 1
      /\ DataBlocks(job[h].size) <= Pointers
      /\ Interval(array)
  BY <1>1 DEF FsInv, Holding, BlocksNecessary
<1>5. DataBlocks(job[h].size) \in Nat
  BY <1>3, DataBlocksFacts
<1>6. /\ Len(array) \in 1 .. Pointers + 1 /\ DOMAIN array = 1 .. Len(array)
      /\ Pointers \in Nat /\ Pointers > 0
  BY <1>3, <1>4, <1>5, FileSystemAssumption
<1>7. b \in Block /\ array[Len(array)] \in Block
  BY <1>3, <1>6, ElementOfSeq
<1>8. b \in Nat /\ array[Len(array)] \in Nat /\ b * Pointers \in Nat
  BY <1>6, <1>7 DEF Block
<1> HIDE DEF array, b
<1>9. SUFFICES ASSUME NEW a \in Address, disk'[a] # disk[a]
               PROVE  a \div Pointers \in Blocks(array)
  BY <1>1, <1>2 DEF OwnWrites, array
<1>10. a \in Nat
  BY <1>6, FileSystemAssumption DEF Address
<1>11. a - b * Pointers + 1 \in 1 .. Len(array)
  <2>1. DOMAIN cells = 1 .. Len(array)
    BY <1>6
  <2>2. QED
    BY <1>1, <1>9, <2>1 DEF Written
<1>12. CASE a < b * Pointers + Pointers
  <2>1. b * Pointers <= a
    BY <1>6, <1>8, <1>10, <1>11
  <2>2. a \div Pointers = b
    BY <1>8, <1>10, <1>12, <2>1, BlockOf
  <2>3. b \in Blocks(array)
    BY <1>6 DEF Blocks, b
  <2>4. QED
    BY <2>2, <2>3
<1>13. CASE a >= b * Pointers + Pointers
  <2>1. a = b * Pointers + Pointers /\ Len(array) > 1
    BY <1>6, <1>8, <1>10, <1>11, <1>13
  <2>2. (b + 1) * Pointers = b * Pointers + Pointers
    BY <1>6, <1>8
  <2>3. a \div Pointers = b + 1
    <3>1. b + 1 \in Nat /\ (b + 1) * Pointers <= a
          /\ a < (b + 1) * Pointers + Pointers
      BY <1>6, <1>8, <1>10, <2>1, <2>2
    <3>2. QED
      BY <1>10, <3>1, BlockOf
  <2>4. 2 \in 1 .. Len(array) /\ array[2] = b + 1
    BY <1>4, <1>6, <1>8, <2>1 DEF Interval, b
  <2>5. QED
    BY <1>6, <2>3, <2>4 DEF Blocks
<1>14. QED
  BY <1>8, <1>10, <1>12, <1>13, <1>6

LEMMA DataWritesOwn ==
  ASSUME FsInv, NEW h \in Handler, WriteData(h)
  PROVE  OwnWrites
<1> DEFINE k == next[h]
           size == job[h].size
           array == job[h].array
           b == array[k + 1]
<1>1. /\ pc[h] = "DATA" /\ disk' = Written(b, Part(job[h], k))
      /\ next' = [next EXCEPT ![h] = k + 1]
  BY DEF WriteData, Goes
<1>2. array \in Seq(Block) /\ size \in Nat
  BY <1>1, FileSystemAssumption DEF FsInv, Working, Job
<1>3. DataBlocks(size) \in Nat /\ size <= Pointers * DataBlocks(size)
  BY <1>2, DataBlocksFacts
<1>4. k \in 1 .. DataBlocks(size) /\ Len(array) = DataBlocks(size) + 1
  BY <1>1 DEF FsInv, Position, Holding, BlocksNecessary
<1>5. k + 1 \in 1 .. Len(array) /\ DOMAIN array = 1 .. Len(array)
  BY <1>2, <1>3, <1>4
<1>6. b \in Nat
  <2>1. b \in Block
    BY <1>2, <1>5, ElementOfSeq
  <2>2. QED
    BY <2>1 DEF Block
<1>7. Pointers \in Nat /\ Pointers > 0 /\ b * Pointers \in Nat
  BY <1>6, FileSystemAssumption
<1>8. PartSize(size, k) \in Int /\ PartSize(size, k) <= Pointers
  BY <1>2, <1>4, PartFits
<1>9. next'[h] # next[h]
  BY <1>1, <1>3, <1>4 DEF FsInv, FsTypeOK
<1>10. b \in Blocks(array)
  BY <1>5 DEF Blocks
<1>11. DOMAIN Part(job[h], k) = 1 .. PartSize(size, k)
  BY DEF Part
<1> HIDE DEF array, b, k, size
<1>12. SUFFICES ASSUME NEW a \in Address, disk'[a] # disk[a]
                PROVE  a \div Pointers = b
  BY <1>1, <1>9, <1>10 DEF OwnWrites, array
<1>13. a \in Nat
  BY <1>7, FileSystemAssumption DEF Address
<1>14. a - b * Pointers + 1 \in 1 .. PartSize(size, k)
  BY <1>1, <1>11, <1>12 DEF Written
<1>15. b * Pointers <= a /\ a < b * Pointers + Pointers
  BY <1>7, <1>8, <1>13, <1>14
<1>16. QED
  BY <1>6, <1>13, <1>15, BlockOf

LEMMA FsStepWritesOwn == FsInv /\ FsStep => OwnWrites
<1> SUFFICES ASSUME FsInv, FsStep PROVE OwnWrites
  OBVIOUS
<1>1. (disk' = disk) => OwnWrites
  BY DEF OwnWrites
<1>2. ASSUME NEW h \in Handler, Work(h) PROVE OwnWrites
  <2>1. CASE WriteIndex(h)
    BY <2>1, IndexWritesOwn
  <2>2. CASE WriteData(h)
    BY <2>2, DataWritesOwn
  <2>3. CASE Refuse(h) \/ Reserve(h) \/ CreateMetadata(h) \/ SaveMetadata(h)
               \/ FailMetadata(h)
    BY <1>1, <2>3
       DEF Refuse, Reserve, CreateMetadata, SaveMetadata, FailMetadata, Forget
  <2>4. QED
    BY <1>2, <2>1, <2>2, <2>3 DEF Work
<1>3. QED
  BY <1>1, <1>2 DEF FsStep, Receive, Answer, Forget, Restart, fsVars

-----------------------------------------------------------------------------
(* The rest of the path                                                    *)

\* Kernel and memory only reach the filesystem by sending it dumps.
LEMMA StepIsFsStep == [Next]_vars => FsStep
<1> SUFFICES ASSUME [Next]_vars PROVE FsStep
  OBVIOUS
<1>1. ASSUME NEW t \in Handler, NEW time \in Time, NEW size \in Sizes,
             Send(t, time, size)
      PROVE  FsStep
  <2>1. <<t, time>> \in Name
    BY DumpPathAssumption
  <2>2. QED
    BY <1>1, <2>1 DEF Send, FsStep
<1>2. ASSUME NEW t \in Handler, Petitioner(t) PROVE FsStep
  BY <1>2 DEF Petitioner, Petition, ReceiveResult, LoseMemory, RemoveOk,
              RemoveFailed, FsStep
<1>3. ASSUME NEW t \in Handler, Relay(t) PROVE FsStep
  BY <1>1, <1>3 DEF Relay, Attend, SendInParts, PassOn, LoseFilesystem, Unread,
                    FsStep
<1>4. ASSUME NEW t \in Handler, Serve(t) PROVE FsStep
  BY <1>4 DEF Serve, WorkOn, AnswerDump, FsStep
<1>5. ASSUME NEW t \in Handler,
             DumpMemory(t) \/ ThreadCancel(t) \/ ThreadDestroy(t)
      PROVE  FsStep
  BY <1>5 DEF DumpMemory, ThreadCancel, ThreadDestroy, FsStep
<1>6. CASE NewProcess \/ Stop \/ WaitDumps \/ Finish \/ RestartFilesystem
  BY <1>6 DEF NewProcess, Stop, WaitDumps, Finish, RestartFilesystem, FsStep
<1>7. CASE UNCHANGED vars
  BY <1>7 DEF vars, FsStep
<1>8. QED
  BY <1>2, <1>3, <1>4, <1>5, <1>6, <1>7 DEF Next

\* Those who ask are threads, so that they can be counted.
LEMMA AskingFinite == IsFiniteSet(Asking) /\ Cardinality(Asking) \in Nat
<1>1. Asking \in SUBSET Handler /\ IsFiniteSet(Handler)
  BY FileSystemAssumption DEF Asking
<1>2. IsFiniteSet(Asking)
  BY <1>1, FS_Subset
<1>3. QED
  BY <1>2, FS_CardinalityType

\* No new dump is asked for.
LEMMA FewerAsk ==
  ASSUME PathTypeOK, dumps \in Nat, Asked,
         Asking' \subseteq Asking, UNCHANGED <<dumps, calls>>
  PROVE  Asked'
<1>1. IsFiniteSet(Asking) /\ Cardinality(Asking) \in Nat
  BY AskingFinite
<1>2. Asking' \in SUBSET Asking
  OBVIOUS
<1>3. IsFiniteSet(Asking') /\ Cardinality(Asking') <= Cardinality(Asking)
  BY <1>1, <1>2, FS_Subset
<1>4. Cardinality(Asking') \in Nat
  BY <1>3, FS_CardinalityType
<1>5. QED
  BY <1>1, <1>3, <1>4 DEF Asked, PathTypeOK

LEMMA DumpMemoryKeeps ==
  ASSUME FsInv, PathInv, NEW t \in Handler, DumpMemory(t)
  PROVE  PathInv'
<1>1. /\ petition[t] = "NONE" /\ petition' = [petition EXCEPT ![t] = "CONNECT"]
      /\ relay[t] = "NONE" /\ calls < MaxDumps /\ calls' = calls + 1
      /\ thread' = [thread EXCEPT ![t] = "BLOCKED"]
      /\ request' = [request EXCEPT ![t] = None]
      /\ UNCHANGED <<dumps, dying, relay, reply, kernel>>
  BY DEF DumpMemory, Petitions, fsVars
<1>2. PathTypeOK'
  BY <1>1, DumpPathAssumption DEF PathInv, PathTypeOK
<1>3. Apart'
  BY <1>1 DEF PathInv, PathTypeOK, Apart
<1>4. Asked'
  <2>1. Asking' = Asking \cup {t} /\ t \notin Asking
    BY <1>1 DEF PathInv, PathTypeOK, Asking
  <2>2. Cardinality(Asking') = Cardinality(Asking) + 1
    BY <2>1, AskingFinite, FS_AddElement
  <2>3. QED
    BY <1>1, <2>2, AskingFinite DEF FsInv, FsTypeOK, PathInv, PathTypeOK, Asked
<1>5. QED
  BY <1>2, <1>3, <1>4 DEF PathInv

LEMMA SendKeeps ==
  ASSUME FsInv, PathInv, NEW t \in Handler, NEW time \in Time,
         NEW size \in Sizes, Send(t, time, size)
  PROVE  PathInv'
<1>1. /\ relay[t] = "CONNECT" /\ relay' = [relay EXCEPT ![t] = "WAIT"]
      /\ dumps' = dumps + 1
      /\ request' = [request EXCEPT ![t] = [name |-> <<t, time>>,
                                            number |-> dumps + 1]]
      /\ UNCHANGED <<thread, dying, petition, reply, kernel, calls>>
  BY DEF Send, Relays, Receive
<1>2. petition[t] # "CONNECT"
  BY <1>1 DEF PathInv, Apart
<1>3. Asking' = Asking \ {t} /\ t \in Asking
  BY <1>1, <1>2 DEF PathInv, PathTypeOK, Asking
<1>4. Cardinality(Asking') = Cardinality(Asking) - 1 /\ Cardinality(Asking') \in Nat
  <2>1. IsFiniteSet(Asking') /\ Cardinality(Asking') = Cardinality(Asking) - 1
    BY <1>3, AskingFinite, FS_RemoveElement
  <2>2. QED
    BY <2>1, FS_CardinalityType
<1>5. Asked' /\ dumps + 1 \in 1 .. MaxDumps
  BY <1>1, <1>4, AskingFinite, DumpPathAssumption
     DEF FsInv, FsTypeOK, PathInv, PathTypeOK, Asked
<1>6. PathTypeOK'
  <2>1. [name |-> <<t, time>>, number |-> dumps + 1]
          \in [name : Name, number : 1 .. MaxDumps]
    BY <1>5, DumpPathAssumption
  <2>2. QED
    BY <1>1, <2>1 DEF PathInv, PathTypeOK
<1>7. Apart'
  BY <1>1, <1>2 DEF PathInv, PathTypeOK, Apart
<1>8. QED
  BY <1>5, <1>6, <1>7 DEF PathInv

\* Every other step of a relay or a petitioner answers, passes on or gives up.
LEMMA AnswersKeep ==
  ASSUME FsInv, PathInv, NEW t \in Handler,
         \/ Petition(t) \/ ReceiveResult(t) \/ LoseMemory(t) \/ RemoveOk(t)
         \/ Attend(t) \/ SendInParts(t) \/ PassOn(t) \/ LoseFilesystem(t)
         \/ Unread(t)
  PROVE  PathInv'
<1>1. UNCHANGED <<dumps, calls, dying, request>>
  BY DEF Petition, ReceiveResult, LoseMemory, RemoveOk, Attend, SendInParts,
         PassOn, LoseFilesystem, Unread, fsVars
<1>2. CASE Petition(t) \/ ReceiveResult(t) \/ LoseMemory(t) \/ RemoveOk(t)
  <2>1. PathTypeOK'
    BY <1>1, <1>2 DEF PathInv, PathTypeOK, Petition, ReceiveResult, LoseMemory,
                      RemoveOk, Petitions, Relays
  <2>2. Apart' /\ Asking' \subseteq Asking
    BY <1>2 DEF PathInv, PathTypeOK, Apart, Asking, Petition, ReceiveResult,
                LoseMemory, RemoveOk, Petitions, Relays
  <2>3. QED
    BY <1>1, <2>1, <2>2, FewerAsk DEF FsInv, FsTypeOK, PathInv
<1>3. CASE Attend(t) \/ SendInParts(t) \/ PassOn(t) \/ LoseFilesystem(t)
             \/ Unread(t)
  <2>1. PathTypeOK'
    BY <1>1, <1>3 DEF PathInv, PathTypeOK, Attend, SendInParts, PassOn,
                      LoseFilesystem, Unread, Relays
  <2>2. Apart' /\ Asking' \subseteq Asking
    BY <1>3 DEF PathInv, PathTypeOK, Apart, Asking, Attend, SendInParts, PassOn,
                LoseFilesystem, Unread, Relays
  <2>3. QED
    BY <1>1, <2>1, <2>2, FewerAsk DEF FsInv, FsTypeOK, PathInv
<1>4. QED
  BY <1>2, <1>3

\* Kills and the shutdown cancel petitions, and make none.
LEMMA CancelsKeep ==
  ASSUME FsInv, PathInv,
         \/ \E t \in Handler : RemoveFailed(t) \/ ThreadCancel(t)
         \/ WaitDumps
  PROVE  PathInv'
<1>1. UNCHANGED <<dumps, calls, relay, request, reply>>
  BY DEF RemoveFailed, ThreadCancel, WaitDumps, fsVars
<1>2. /\ petition' \in [Handler -> {"NONE", "CONNECT", "WAIT", "OK", "ERROR"}]
      /\ \A t \in Handler : petition'[t] = "CONNECT" => petition[t] = "CONNECT"
  <2>1. ASSUME NEW S
        PROVE  /\ Cancelled(S)
                    \in [Handler -> {"NONE", "CONNECT", "WAIT", "OK", "ERROR"}]
               /\ \A t \in Handler :
                    Cancelled(S)[t] = "CONNECT" => petition[t] = "CONNECT"
    BY DEF PathInv, PathTypeOK, Cancelled
  <2>2. CASE WaitDumps
    BY <2>1, <2>2 DEF WaitDumps
  <2>3. ASSUME NEW u \in Handler, ThreadCancel(u)
        PROVE  petition' = Cancelled({u})
    BY <2>3 DEF ThreadCancel
  <2>4. ASSUME NEW u \in Handler, RemoveFailed(u)
        PROVE  petition' = [Cancelled(dying') EXCEPT ![u] = "NONE"]
    BY <2>4 DEF RemoveFailed
  <2>5. CASE \E u \in Handler : ThreadCancel(u)
    <3>1. PICK u \in Handler : ThreadCancel(u)
      BY <2>5
    <3>2. petition' = Cancelled({u})
      BY <2>3, <3>1
    <3>3. QED
      BY <2>1, <3>2
  <2>6. CASE \E u \in Handler : RemoveFailed(u)
    <3>1. PICK u \in Handler : RemoveFailed(u)
      BY <2>6
    <3> DEFINE cancelled == Cancelled(dying')
    <3>2. petition' = [cancelled EXCEPT ![u] = "NONE"]
      BY <2>4, <3>1
    <3>3. /\ cancelled \in [Handler -> {"NONE", "CONNECT", "WAIT", "OK", "ERROR"}]
          /\ \A t \in Handler :
               cancelled[t] = "CONNECT" => petition[t] = "CONNECT"
      BY <2>1
    <3> HIDE DEF cancelled
    <3>4. QED
      BY <3>2, <3>3
  <2>7. QED
    BY <2>2, <2>5, <2>6
<1>3. /\ thread' \in [Handler -> {"RUN", "BLOCKED", "DEAD"}]
      /\ dying' \subseteq Handler
      /\ kernel' \in {"UP", "STOPPING", "WAITING", "DOWN"}
  <2> USE DEF PathInv, PathTypeOK
  <2>1. CASE \E t \in Handler : RemoveFailed(t)
    <3>1. PICK t \in Handler : RemoveFailed(t)
      BY <2>1
    <3>2. QED
      BY <3>1 DEF RemoveFailed, Each
  <2>2. CASE \E t \in Handler : ThreadCancel(t)
    <3>1. PICK t \in Handler : ThreadCancel(t)
      BY <2>2
    <3>2. QED
      BY <3>1 DEF ThreadCancel
  <2>3. CASE WaitDumps
    BY <2>3 DEF WaitDumps
  <2>4. QED
    BY <2>1, <2>2, <2>3
<1>4. PathTypeOK'
  BY <1>1, <1>2, <1>3 DEF PathInv, PathTypeOK
<1>5. Apart' /\ Asking' \subseteq Asking
  BY <1>1, <1>2 DEF PathInv, Apart, Asking
<1>6. QED
  BY <1>1, <1>4, <1>5, FewerAsk DEF FsInv, FsTypeOK, PathInv

LEMMA OthersKeep ==
  ASSUME FsInv, PathInv,
         \/ \E t \in Handler : Serve(t) \/ ThreadDestroy(t)
         \/ NewProcess \/ Stop \/ Finish \/ RestartFilesystem
         \/ UNCHANGED vars
  PROVE  PathInv'
<1>1. UNCHANGED <<dumps, calls, petition, relay>>
  BY DEF Serve, WorkOn, Work, Refuse, Reserve, WriteIndex, WriteData,
         CreateMetadata, SaveMetadata, FailMetadata, Forget, AnswerDump, Answer,
         ThreadDestroy, NewProcess, Stop, Finish, RestartFilesystem, Restart,
         vars, pathVars, fsVars
<1>2. /\ thread' \in [Handler -> {"RUN", "BLOCKED", "DEAD"}]
      /\ dying' \subseteq Handler
      /\ request' \in [Handler -> [name : Name, number : 1 .. MaxDumps] \cup {None}]
      /\ reply' \in [Handler -> {"NONE", "OK", "ERROR"}]
      /\ kernel' \in {"UP", "STOPPING", "WAITING", "DOWN"}
  BY DEF PathInv, PathTypeOK, Serve, WorkOn, AnswerDump, Result, ThreadDestroy,
         NewProcess, Stop, Finish, RestartFilesystem, vars, pathVars, Each
<1>3. PathTypeOK'
  BY <1>1, <1>2 DEF PathInv, PathTypeOK
<1>4. Apart' /\ Asked'
  BY <1>1 DEF PathInv, Apart, Asked, Asking
<1>5. QED
  BY <1>3, <1>4 DEF PathInv

LEMMA PathInvStep == FsInv /\ PathInv /\ [Next]_vars => PathInv'
<1> SUFFICES ASSUME FsInv, PathInv, [Next]_vars PROVE PathInv'
  OBVIOUS
<1>1. ASSUME NEW t \in Handler, Petitioner(t) PROVE PathInv'
  BY <1>1, AnswersKeep, CancelsKeep DEF Petitioner
<1>2. ASSUME NEW t \in Handler, Relay(t) PROVE PathInv'
  BY <1>2, AnswersKeep, SendKeeps DEF Relay
<1>3. QED
  BY <1>1, <1>2, DumpMemoryKeeps, CancelsKeep, OthersKeep DEF Next

LEMMA PathInvInit == Init => PathInv
<1> SUFFICES ASSUME Init PROVE PathInv
  OBVIOUS
<1>1. PathTypeOK /\ Apart
  BY DumpPathAssumption DEF Init, Each, PathTypeOK, Apart
<1>2. Asking = {}
  BY DEF Init, Each, Asking
<1>3. Asked
  BY <1>2, FS_EmptySet DEF Init, FsInit, Asked
<1>4. QED
  BY <1>1, <1>3 DEF PathInv

-----------------------------------------------------------------------------
(* Theorems                                                                *)

\* The inductive invariant of the path of a dump: the used blocks are the first
\* ones, reservations are intervals, and no dump is sent that was not asked for.
THEOREM Invariance == Spec => []IInv
<1>1. Init => IInv
  BY FsInvInit, PathInvInit DEF Init, IInv
<1>2. IInv /\ [Next]_vars => IInv'
  BY FsInvStep, StepIsFsStep, PathInvStep DEF IInv
<1>3. QED
  BY <1>1, <1>2, PTL DEF Spec

\* TypeOK, for any instance: blocks, files, jobs, petitions and relays are what
\* they should be, and no request has a number that was not asked for.
THEOREM TypeCorrect == Spec => []TypeOK
<1>1. IInv => TypeOK
  <2>1. SUFFICES ASSUME IInv PROVE calls \in dumps .. MaxDumps
    BY DEF IInv, FsInv, PathInv, PathTypeOK, TypeOK
  <2>2. dumps \in Nat /\ calls \in 0 .. MaxDumps
    BY <2>1 DEF IInv, FsInv, FsTypeOK, PathInv, PathTypeOK
  <2>3. dumps + Cardinality(Asking) <= calls
    BY <2>1 DEF IInv, PathInv, Asked
  <2>4. QED
    BY <2>2, <2>3, AskingFinite, DumpPathAssumption
<1>2. QED
  BY <1>1, Invariance, PTL

\* FreeCounted, for any instance: BITMAP.free_blocks is the number of bits that
\* are not set, whenever handlers are interrupted and the module starts again.
THEOREM BlocksAreCounted == Spec => []FreeCounted
<1>1. IInv => FreeCounted
  BY FreeBlocks DEF IInv, FsInv, InOrder, FreeCounted
<1>2. QED
  BY <1>1, Invariance, PTL

\* WritesOwn, for any instance: handlers write side by side, each into the
\* blocks it reserved, also when the array passes the end of the index block.
THEOREM NobodyWritesAnothers == Spec => WritesOwn
<1>1. IInv /\ [Next]_vars => [OwnWrites]_fsVars
  BY StepIsFsStep, FsStepWritesOwn DEF IInv
<1>2. [][OwnWrites]_fsVars <=> WritesOwn
  BY PTL DEF OwnWrites, WritesOwn
<1>3. QED
  BY <1>1, <1>2, Invariance, PTL DEF Spec
=============================================================================
