-------------------------- MODULE ExecutionProofs --------------------------
(***************************************************************************)
(* Programs on the CPU are executed as the Machine says, for any programs, *)
(* numbers of registers, word sizes, partitions and bounds.                *)
(*                                                                         *)
(* The inductive invariant IInv has a part for each thing that a step of   *)
(* the instruction cycle relies on: the partition table (MemoryInv of      *)
(* MemoryProofs); what the sockets hold at each point of the cycle and     *)
(* whom PID and TID name (Cycle), which is why the stale pair that the     *)
(* interrupt handler may compare with does no harm; that a thread has a    *)
(* context as long as memory lists it, and that only a thread beyond the   *)
(* counted ones is refused (Contexts, Answered); that base and limit are   *)
(* those of a partition in use (Mounted), which puts every address that    *)
(* mmu lets pass in the user space; that a process is not ended under its  *)
(* dump (Dumping); and that the instruction in SYSCALL_INSTRUCTION is the  *)
(* one before the PC of the registers that go back to memory (Calling).    *)
(*                                                                         *)
(* Numbers and bytes come first: a word is read back from the bytes it was *)
(* written as, which is what WordOf and the types of mmu's answers rest    *)
(* on. Then partitions, the steps of kernel, dumps and CPU, the theorems   *)
(* on the invariants, and last the refinement.                             *)
(***************************************************************************)
EXTENDS Execution, MemoryProofs, NaturalsInduction, WellFoundedInduction

LEMMA LeastIs ==
  ASSUME NEW I \in SUBSET Nat, I # {}
  PROVE  \E x \in I : \A y \in I : x <= y
<1>1. PICK x \in I : \A y \in I : ~ (<<y, x>> \in OpToRel(<, Nat))
  <2>1. IsWellFoundedOn(OpToRel(<, Nat), Nat)
    BY NatLessThanWellFounded
  <2> HIDE DEF OpToRel
  <2>2. QED
    BY <2>1, WFMin, Zenon
<1>2. ASSUME NEW y \in I PROVE x <= y
  <2>1. x \in Nat /\ y \in Nat
    OBVIOUS
  <2>2. <<y, x>> \in Nat \X Nat
    BY <2>1
  <2>3. ~ (y < x)
    BY <1>1, <2>2 DEF OpToRel
  <2>4. QED
    BY <2>1, <2>3
<1>3. QED
  BY <1>2, Zenon

-----------------------------------------------------------------------------
(* Numbers and bytes *)

LEMMA Powers == \A k \in 0 .. RegisterBytes : ByteValues ^ k \in Nat \ {0}
<1> DEFINE bad == {k \in 0 .. RegisterBytes : ~ (ByteValues ^ k \in Nat \ {0})}
<1>1. SUFFICES ASSUME bad # {} PROVE FALSE
  OBVIOUS
<1>2. RegisterBytes \in Nat /\ bad \in SUBSET Nat
  BY OpcodesAssumption
<1>3. PICK k \in bad : \A y \in bad : k <= y
  BY <1>1, <1>2, LeastIs, Zenon
<1>4. k # 0
  BY PowerAssumption
<1>5. k - 1 \in 0 .. RegisterBytes - 1 /\ k - 1 + 1 = k
  BY <1>2, <1>4
<1>6. ByteValues ^ (k - 1) \in Nat \ {0}
  <2>1. k - 1 \notin bad
    BY <1>2, <1>3
  <2>2. k - 1 \in 0 .. RegisterBytes
    BY <1>2, <1>5
  <2>3. QED
    BY <2>1, <2>2
<1>7. ByteValues ^ k = ByteValues * ByteValues ^ (k - 1)
  BY <1>5, PowerAssumption
<1>8. \A a, b \in Nat \ {0} : a * b \in Nat \ {0}
  OBVIOUS
<1>9. QED
  BY <1>3, <1>6, <1>7, <1>8, OpcodesAssumption

LEMMA ModFacts ==
  ASSUME NEW m \in Nat \ {0}, NEW n \in Int
  PROVE  n % m \in 0 .. m - 1
OBVIOUS

LEMMA ModuloOf ==
  ASSUME NEW m \in Nat \ {0}, NEW n \in 0 .. m - 1
  PROVE  n % m = n
OBVIOUS

LEMMA BackAgain ==
  ASSUME NEW m \in Nat \ {0}, NEW n \in 0 .. m - 1
  PROVE  (((n + 1) % m) - 1) % m = n
<1>1. CASE n + 1 < m
  <2>1. (n + 1) % m = n + 1
    BY <1>1
  <2>2. QED
    BY <2>1
<1>2. CASE n + 1 = m
  <2>1. m % m = 0
    OBVIOUS
  <2>2. (0 - 1) % m = m - 1
    OBVIOUS
  <2>3. QED
    BY <1>2, <2>1, <2>2
<1>3. QED
  BY <1>1, <1>2

LEMMA DivFacts ==
  ASSUME NEW m \in Nat \ {0}, NEW n \in Nat
  PROVE  /\ n \div m \in Nat /\ n % m \in 0 .. m - 1
         /\ n = m * (n \div m) + (n % m)
OBVIOUS

LEMMA DivUnique ==
  ASSUME NEW m \in Nat \ {0}, NEW q \in Nat, NEW r \in 0 .. m - 1
  PROVE  (m * q + r) \div m = q /\ (m * q + r) % m = r
OBVIOUS

LEMMA DivTwice ==
  ASSUME NEW a \in Nat \ {0}, NEW b \in Nat \ {0}, NEW n \in Nat
  PROVE  n \div (a * b) = (n \div a) \div b
OBVIOUS

\* Every sequence of k bytes is the beginning of some number.
LEMMA Represented ==
  \A k \in 0 .. RegisterBytes : \A s \in [1 .. k -> Byte] :
    \E w \in 0 .. ByteValues ^ k - 1 :
      \A j \in 1 .. k : (w \div ByteValues ^ (j - 1)) % ByteValues = s[j]
<1> DEFINE Reads(w, k, s) ==
             \A j \in 1 .. k : (w \div ByteValues ^ (j - 1)) % ByteValues = s[j]
           Ok(k) == \A s \in [1 .. k -> Byte] :
                      \E w \in 0 .. ByteValues ^ k - 1 : Reads(w, k, s)
           bad == {k \in 0 .. RegisterBytes : ~ Ok(k)}
<1>1. SUFFICES ASSUME bad # {} PROVE FALSE
  <2>1. bad = {} => \A k \in 0 .. RegisterBytes : Ok(k)
    BY Zenon
  <2>2. QED
    BY <2>1, Zenon
<1>2. /\ RegisterBytes \in Nat /\ ByteValues \in Nat \ {0, 1} /\ ByteValues \in Nat \ {0}
      /\ ByteValues ^ 0 = 1
  BY OpcodesAssumption, PowerAssumption
<1> HIDE DEF Ok
<1>3. bad \in SUBSET Nat
  BY <1>2
<1>4. PICK k \in bad : \A y \in bad : k <= y
  BY <1>1, <1>3, LeastIs, Zenon
<1>5. k \in 0 .. RegisterBytes /\ ~ Ok(k)
  OBVIOUS
<1>6. CASE k = 0
  <2>1. 0 \in 0 .. ByteValues ^ 0 - 1
    BY <1>2
  <2>2. \A s : Reads(0, 0, s)
    OBVIOUS
  <2>3. Ok(0)
    BY <2>1, <2>2, Zenon DEF Ok
  <2>4. QED
    BY <1>5, <1>6, <2>3, Zenon
<1>7. CASE k # 0
  <2> DEFINE l == k - 1
  <2>1. /\ k \in Nat /\ l \in 0 .. RegisterBytes - 1 /\ l \in 0 .. RegisterBytes
        /\ l + 1 = k /\ ~ (k <= l)
    BY <1>2, <1>5, <1>7
  <2>2. Ok(l)
    BY <1>4, <2>1
  <2>3. /\ ByteValues ^ k = ByteValues * ByteValues ^ l
        /\ ByteValues ^ l \in Nat \ {0}
    BY <2>1, PowerAssumption, Powers
  <2> HIDE DEF l
  <2>4. ASSUME NEW s \in [1 .. k -> Byte]
        PROVE  \E w \in 0 .. ByteValues ^ k - 1 : Reads(w, k, s)
    <3> DEFINE rest == [j \in 1 .. l |-> s[j + 1]]
    <3>1. rest \in [1 .. l -> Byte]
      BY <2>1
    <3>2. PICK v \in 0 .. ByteValues ^ l - 1 : Reads(v, l, rest)
      BY <2>2, <3>1, Zenon DEF Ok
    <3>3. 1 \in 1 .. k /\ s[1] \in Byte /\ s[1] \in 0 .. ByteValues - 1
      BY <2>1 DEF Byte
    <3> DEFINE w == ByteValues * v + s[1]
    <3>4. /\ v \in Nat /\ s[1] \in Nat /\ w \in Nat
          /\ w \div ByteValues = v /\ w % ByteValues = s[1]
      <4>1. PICK b \in Nat \ {0}, c \in Nat, x \in Nat \ {0} :
              b = ByteValues /\ c = s[1] /\ x = ByteValues ^ l
        BY <1>2, <2>3, <3>3
      <4>2. c \in 0 .. b - 1 /\ v \in 0 .. x - 1
        BY <3>3, <4>1
      <4>3. /\ v \in Nat /\ b * v + c \in Nat
            /\ (b * v + c) \div b = v /\ (b * v + c) % b = c
        BY <4>2, DivUnique
      <4>4. QED
        BY <4>1, <4>3, Zenon
    <3>5. w \in 0 .. ByteValues ^ k - 1
      <4>1. ASSUME NEW b \in Nat \ {0}, NEW x \in Nat \ {0}, NEW y \in 0 .. x - 1,
                   NEW z \in 0 .. b - 1
            PROVE  b * y + z <= b * x - 1 /\ b * x \in Nat
        <5>1. b * y + b <= b * x
          <6>1. x = y + 1 + (x - y - 1) /\ x - y - 1 \in Nat
            OBVIOUS
          <6>2. PICK d \in Nat : x = y + 1 + d
            BY <6>1
          <6>3. b * (y + 1 + d) = b * y + b + b * d /\ b * d \in Nat
            OBVIOUS
          <6>4. QED
            BY <6>2, <6>3
        <5>2. QED
          BY <5>1
      <4>2. PICK b \in Nat \ {0}, c \in Nat, x \in Nat \ {0} :
              b = ByteValues /\ c = s[1] /\ x = ByteValues ^ l
        BY <1>2, <2>3, <3>3
      <4>3. c \in 0 .. b - 1 /\ v \in 0 .. x - 1
        BY <3>3, <4>2
      <4>4. b * v + c <= b * x - 1 /\ b * x \in Nat
        BY <4>1, <4>3
      <4>5. b * v + c \in 0 .. b * x - 1
        BY <4>3, <4>4
      <4>6. QED
        BY <2>3, <4>2, <4>5, Zenon
    <3> HIDE DEF w
    <3>6. ASSUME NEW j \in 1 .. k
          PROVE  (w \div ByteValues ^ (j - 1)) % ByteValues = s[j]
      <4>1. CASE j = 1
        <5>1. w \div 1 = w
          BY <3>4
        <5>2. QED
          BY <1>2, <3>4, <4>1, <5>1
      <4>2. CASE j # 1
        <5>1. /\ j - 1 \in 1 .. l /\ j - 2 \in 0 .. RegisterBytes - 1
              /\ j - 2 \in 0 .. RegisterBytes /\ j - 2 + 1 = j - 1
              /\ (j - 1) - 1 = j - 2 /\ (j - 1) + 1 = j
          BY <1>2, <2>1, <4>2
        <5>2. /\ ByteValues ^ (j - 1) = ByteValues * ByteValues ^ (j - 2)
              /\ ByteValues ^ (j - 2) \in Nat \ {0}
          BY <5>1, PowerAssumption, Powers
        <5>3. w \div ByteValues ^ (j - 1) = (w \div ByteValues) \div ByteValues ^ (j - 2)
          <6>1. PICK b \in Nat \ {0}, x \in Nat \ {0} :
                  b = ByteValues /\ x = ByteValues ^ (j - 2)
            BY <1>2, <5>2
          <6>2. w \div (b * x) = (w \div b) \div x
            BY <3>4, DivTwice
          <6>3. QED
            BY <5>2, <6>1, <6>2, Zenon
        <5>4. (v \div ByteValues ^ (j - 2)) % ByteValues = rest[j - 1]
          BY <3>2, <5>1
        <5>5. rest[j - 1] = s[j]
          BY <5>1
        <5>6. QED
          BY <3>4, <5>3, <5>4, <5>5
      <4>3. QED
        BY <4>1, <4>2
    <3>7. QED
      BY <3>5, <3>6, Zenon
  <2>5. QED
    BY <1>5, <2>4, Zenon DEF Ok
<1>8. QED
  BY <1>6, <1>7

\* A register read from memory is a word.
LEMMA WordOfBytes ==
  ASSUME NEW s \in [1 .. RegisterBytes -> Byte]
  PROVE  WordOf(s) \in Word
<1>1. RegisterBytes \in 0 .. RegisterBytes
  BY OpcodesAssumption
<1>2. PICK w \in 0 .. ByteValues ^ RegisterBytes - 1 :
        \A j \in 1 .. RegisterBytes :
          (w \div ByteValues ^ (j - 1)) % ByteValues = s[j]
  BY <1>1, Represented, Zenon
<1>3. BytesOf(w) = s /\ w \in Word
  BY <1>2 DEF BytesOf, Word, Modulus
<1>4. QED
  BY <1>3, Zenon DEF WordOf

LEMMA ModulusIs == Modulus \in Nat \ {0} /\ 0 \in Word /\ Word \subseteq Int
<1>1. RegisterBytes \in 0 .. RegisterBytes
  BY OpcodesAssumption
<1>2. Modulus \in Nat \ {0}
  BY <1>1, Powers DEF Modulus
<1>3. QED
  BY <1>2 DEF Word

LEMMA BytesOfWord ==
  ASSUME NEW w \in Word
  PROVE  BytesOf(w) \in [1 .. RegisterBytes -> Byte]
<1>1. ASSUME NEW k \in 1 .. RegisterBytes
      PROVE  (w \div ByteValues ^ (k - 1)) % ByteValues \in Byte
  <2>1. k - 1 \in 0 .. RegisterBytes
    BY OpcodesAssumption
  <2>2. ByteValues ^ (k - 1) \in Nat \ {0} /\ w \in Nat
    BY <2>1, Powers, ModulusIs DEF Word
  <2>3. w \div ByteValues ^ (k - 1) \in Nat
    BY <2>2, DivFacts
  <2>4. PICK n \in Int, b \in Nat \ {0} :
          n = w \div ByteValues ^ (k - 1) /\ b = ByteValues
    BY <2>3, OpcodesAssumption
  <2>5. n % b \in 0 .. b - 1
    BY ModFacts
  <2>6. QED
    BY <2>4, <2>5, Zenon DEF Byte
<1>2. QED
  BY <1>1 DEF BytesOf

-----------------------------------------------------------------------------
(* Registers *)
LEMMA Moduli == \A n \in Int : n % Modulus \in Word
<1> Modulus \in Nat \ {0}
  BY ModulusIs
<1> QED
  BY ModFacts DEF Word

LEMMA PcBack ==
  ASSUME NEW n \in Word
  PROVE  (((n + 1) % Modulus) - 1) % Modulus = n
BY ModulusIs, BackAgain DEF Word

Registers == [Register -> Word]

LEMMA PutType ==
  ASSUME NEW r \in Registers, NEW a \in Register, NEW w \in Word
  PROVE  Put(r, a, w) \in Registers /\ Advanced(r) \in Registers
<1>1. "PC" \in Register /\ Word \subseteq Int /\ Modulus \in Nat \ {0}
  BY OpcodesAssumption, ModulusIs
<1>2. ASSUME NEW q \in Registers PROVE Advanced(q) \in Registers
  <2>1. q["PC"] \in Int
    BY <1>1 DEF Registers
  <2>2. q["PC"] + 1 \in Int
    BY <2>1
  <2>3. (q["PC"] + 1) % Modulus \in Word
    BY <2>2, Moduli
  <2>4. QED
    BY <1>1, <2>3, Zenon DEF Advanced, Registers
<1>3. [r EXCEPT ![a] = w] \in Registers
  BY DEF Registers
<1>4. QED
  BY <1>2, <1>3 DEF Put

LEMMA ComputedType ==
  ASSUME NEW r \in Registers, NEW i \in Instruction
  PROVE  Computed(r, i) \in Registers
<1>1. /\ i.a \in Register /\ i.b \in Register /\ i.value \in Word
      /\ "PC" \in Register /\ Word \subseteq Int
  BY OpcodesAssumption, ModulusIs DEF Instruction
<1>2. r[i.a] \in Int /\ r[i.b] \in Int
  BY <1>1 DEF Registers
<1>3. r[i.a] + r[i.b] \in Int /\ r[i.a] - r[i.b] \in Int
  BY <1>2
<1>4. (r[i.a] + r[i.b]) % Modulus \in Word /\ (r[i.a] - r[i.b]) % Modulus \in Word
  BY <1>3, Moduli
<1>5. /\ Put(r, i.a, i.value) \in Registers
      /\ Put(r, i.a, (r[i.a] + r[i.b]) % Modulus) \in Registers
      /\ Put(r, i.a, (r[i.a] - r[i.b]) % Modulus) \in Registers
      /\ Advanced(r) \in Registers
  BY <1>1, <1>4, PutType
<1>6. [r EXCEPT !["PC"] = i.value] \in Registers
  BY <1>1 DEF Registers
<1>7. Jumped(r, i) \in Registers
  BY <1>5, <1>6 DEF Jumped
<1>8. QED
  BY <1>5, <1>7 DEF Computed

-----------------------------------------------------------------------------
(* Partitions *)

\* A partition ends before the next ones begin.
LEMMA Ascending ==
  ASSUME NEW t \in Seq(Part), NEW end, Tiles(t, end), NEW i \in 1 .. Len(t)
  PROVE  \A j \in i + 1 .. Len(t) : t[i].base + t[i].size <= t[j].base
<1> DEFINE bad == {j \in i + 1 .. Len(t) : ~ (t[i].base + t[i].size <= t[j].base)}
<1>1. SUFFICES ASSUME bad # {} PROVE FALSE
  OBVIOUS
<1>2. Len(t) \in Nat /\ \A j \in 1 .. Len(t) : t[j] \in Part
  BY ElementOfSeq
<1>3. \A j \in 1 .. Len(t) : t[j].base \in Nat /\ t[j].size \in Nat
  BY <1>2, PartFields
<1>4. bad \in SUBSET Nat
  BY <1>2
<1>5. PICK j \in bad : \A y \in bad : j <= y
  BY <1>1, <1>4, LeastIs, Zenon
<1>6. j \in i + 1 .. Len(t) /\ ~ (t[i].base + t[i].size <= t[j].base)
  OBVIOUS
<1>7. PICK k \in 1 .. Len(t) : k \in 1 .. Len(t) - 1 /\ k + 1 = j /\ ~ (j <= k)
  <2>1. /\ j - 1 \in 1 .. Len(t) /\ j - 1 \in 1 .. Len(t) - 1 /\ j - 1 + 1 = j
        /\ ~ (j <= j - 1)
    BY <1>2, <1>6
  <2>2. QED
    BY <2>1, Zenon
<1>8. t[j].base = t[k].base + t[k].size
  <2>1. t[k + 1].base = t[k].base + t[k].size
    BY <1>7, Zenon DEF Tiles
  <2>2. QED
    BY <1>7, <2>1, Zenon
<1>9. CASE k = i
  <2>1. t[j].base = t[i].base + t[i].size
    BY <1>8, <1>9, Zenon
  <2>2. t[i].base \in Nat /\ t[i].size \in Nat
    BY <1>3
  <2>3. QED
    BY <1>6, <2>1, <2>2
<1>10. CASE k # i
  <2>1. k \in i + 1 .. Len(t)
    BY <1>2, <1>6, <1>7, <1>10
  <2>2. t[i].base + t[i].size <= t[k].base
    BY <1>5, <1>7, <2>1
  <2>3. j \in 1 .. Len(t)
    BY <1>2, <1>6
  <2>4. /\ t[i].base \in Nat /\ t[i].size \in Nat /\ t[j].base \in Nat
        /\ t[k].base \in Nat /\ t[k].size \in Nat
    BY <1>3, <1>7, <2>3
  <2>5. \A ib, is, kb, ks, jb \in Nat :
          ib + is <= kb /\ jb = kb + ks => ib + is <= jb
    OBVIOUS
  <2>6. t[i].base + t[i].size <= t[j].base
    BY <1>8, <2>2, <2>4, <2>5, Zenon
  <2>7. QED
    BY <1>6, <2>6, Zenon
<1>11. QED
  BY <1>9, <1>10

LEMMA Inside ==
  ASSUME NEW t \in Seq(Part), NEW end, Tiles(t, end), NEW i \in 1 .. Len(t)
  PROVE  t[i].base + t[i].size <= end
<1> DEFINE n == Len(t)
<1>1. n \in Nat /\ n \in 1 .. Len(t) /\ t[n] \in Part /\ t[i] \in Part
  BY ElementOfSeq
<1>2. /\ t[i].base \in Nat /\ t[i].size \in Nat /\ t[n].base \in Nat /\ t[n].size \in Nat
      /\ t[n].base + t[n].size = end
  BY <1>1, PartFields DEF Tiles
<1>3. CASE i = n
  BY <1>2, <1>3
<1>4. CASE i # n
  <2>1. n \in i + 1 .. Len(t)
    BY <1>1, <1>4
  <2>2. t[i].base + t[i].size <= t[n].base
    BY <2>1, Ascending
  <2> HIDE DEF n
  <2>3. QED
    BY <1>2, <2>2
<1>5. QED
  BY <1>3, <1>4

LEMMA SlotIs ==
  ASSUME MemoryInv, NEW p \in Nat, Known(p)
  PROVE  /\ Slot(p) \in MemoryProcess /\ p + 1 \in Live /\ p + 1 \in 1 .. Len(process)
         /\ Slot(p).size \in Nat /\ Slot(p).size \in Sizes /\ Slot(p).count \in Nat
         /\ Slot(p).threads \in SUBSET Tid
<1>1. p + 1 \in Live
  BY DEF Known, Live, MemoryInv, MemoryTypeOK
<1>2. Slot(p) \in MemoryProcess /\ p + 1 \in 1 .. Len(process)
  BY <1>1, LiveFacts DEF Slot, MemoryInv
<1> HIDE DEF Slot
<1>3. QED
  BY <1>1, <1>2, MemoryAssumption DEF MemoryProcess

\* The partition of a process: there is one, and it is what PartitionOf says.
Bears(q, p) == q \in Taken(table) /\ q.id = Slot(p).partition

LEMMA PartitionIs ==
  ASSUME MemoryInv, NEW p \in Nat, Known(p)
  PROVE  /\ Bears(PartitionOf(p), p) /\ PartitionOf(p) \in Part
         /\ Big(scheme, PartitionOf(p), Slot(p).size)
         /\ \A q : Bears(q, p) => q = PartitionOf(p)
         /\ \E k \in 1 .. Len(table) : table[k] = PartitionOf(p)
<1>1. MemoryTypeOK /\ TableInv /\ OwnerInv /\ table \in Seq(Part)
      /\ DOMAIN table = 1 .. Len(table)
  BY InvIs DEF MemoryTypeOK, Part
<1>2. p + 1 \in Live /\ Slot(p) = process[p + 1]
  BY SlotIs DEF Slot
<1>3. PICK q \in Taken(table) :
        q.id = Slot(p).partition /\ Big(scheme, q, Slot(p).size)
  BY <1>1, <1>2 DEF OwnerInv, Housed
<1>4. PICK k \in 1 .. Len(table) : table[k].occupied /\ table[k] = q
  BY <1>1, <1>3, TakenIs
<1>5. table[k].id = Slot(p).partition
  BY <1>3, <1>4
<1>6. \A i \in DOMAIN table : table[i].id = Slot(p).partition => i = k
  BY <1>1, <1>5 DEF TableInv, Unique
<1>7. PartitionOf(p) = q
  BY <1>1, <1>4, <1>5, <1>6 DEF PartitionOf
<1>8. ASSUME NEW r, Bears(r, p) PROVE r = q
  <2>1. PICK l \in 1 .. Len(table) : table[l].occupied /\ table[l] = r
    BY <1>1, <1>8, TakenIs DEF Bears
  <2>2. l = k
    BY <1>1, <1>6, <1>8, <2>1 DEF Bears
  <2>3. QED
    BY <1>4, <2>1, <2>2
<1>9. q \in Part
  BY <1>1, <1>4, ElementOfSeq
<1>10. QED
  BY <1>3, <1>4, <1>7, <1>8, <1>9 DEF Bears

LEMMA UserSpaceFits ==
  ASSUME scheme \in Schemes
  PROVE  UserSpace <= MemorySize
BY ExecutionAssumption, MemoryAssumption DEF UserSpace

\* It is large enough and lies in the user space.
LEMMA PartitionFits ==
  ASSUME MemoryInv, NEW p \in Nat, Known(p)
  PROVE  /\ PartitionOf(p).base \in Nat /\ PartitionOf(p).size \in Nat
         /\ Slot(p).size \in Nat /\ Slot(p).size <= PartitionOf(p).size
         /\ PartitionOf(p).base + PartitionOf(p).size <= MemorySize
<1>1. MemoryTypeOK /\ TableInv /\ table \in Seq(Part)
  BY InvIs DEF MemoryTypeOK, Part
<1>2. PICK k \in 1 .. Len(table) : table[k] = PartitionOf(p)
  BY PartitionIs
<1>3. PartitionOf(p).base + PartitionOf(p).size <= UserSpace
  BY <1>1, <1>2, Inside, Zenon DEF TableInv
<1>4. PartitionOf(p).base \in Nat /\ PartitionOf(p).size \in Nat
  BY PartitionIs, PartFields
<1>5. Slot(p).size \in Nat /\ Slot(p).size <= PartitionOf(p).size
  BY <1>4, PartitionIs, SlotIs DEF Big
<1>6. UserSpace <= MemorySize /\ UserSpace \in Int /\ MemorySize \in Int
  <2>1. scheme \in Schemes
    BY <1>1 DEF MemoryTypeOK
  <2>2. MemorySize \in Nat /\ Len(Fixed) \in 1 .. Len(Fixed)
        /\ Fixed \in Seq([base : Nat, size : Nat \ {0}])
    BY MemoryAssumption
  <2>3. Fixed[Len(Fixed)] \in [base : Nat, size : Nat \ {0}]
    BY <2>2, ElementOfSeq
  <2>4. UserSpace \in Nat
    BY <2>2, <2>3 DEF UserSpace
  <2>5. QED
    BY <2>1, <2>2, <2>4, UserSpaceFits
<1> HIDE DEF UserSpace
<1>7. QED
  BY <1>3, <1>4, <1>5, <1>6

\* Two processes have partitions that do not meet.
LEMMA PartitionsApart ==
  ASSUME MemoryInv, NEW p \in Nat, Known(p), NEW q \in Nat, Known(q), p # q
  PROVE  \/ PartitionOf(p).base + PartitionOf(p).size <= PartitionOf(q).base
         \/ PartitionOf(q).base + PartitionOf(q).size <= PartitionOf(p).base
<1>1. MemoryTypeOK /\ TableInv /\ OwnerInv /\ table \in Seq(Part)
  BY InvIs DEF MemoryTypeOK, Part
<1>2. PICK i \in 1 .. Len(table) : table[i] = PartitionOf(p)
  BY PartitionIs
<1>3. PICK j \in 1 .. Len(table) : table[j] = PartitionOf(q)
  BY PartitionIs
<1>4. i # j
  <2>1. table[i].id = Slot(p).partition /\ table[j].id = Slot(q).partition
    BY <1>2, <1>3, PartitionIs DEF Bears
  <2>2. p + 1 \in Live /\ q + 1 \in Live /\ p + 1 # q + 1
    BY SlotIs
  <2>3. Slot(p).partition # Slot(q).partition
    BY <1>1, <2>2 DEF OwnerInv, Separate, Slot
  <2>4. QED
    BY <2>1, <2>3
<1>5. j \in i + 1 .. Len(table) \/ i \in j + 1 .. Len(table)
  BY <1>1, <1>4
<1>6. QED
  BY <1>1, <1>2, <1>3, <1>5, Ascending DEF TableInv

LEMMA PartitionIsAll ==
  \A p \in Nat : MemoryInv /\ Known(p) =>
    \A q : Bears(q, p) => q = PartitionOf(p)
BY PartitionIs
LEMMA PartitionIsNext ==
  (\A p \in Nat : MemoryInv /\ Known(p) =>
    \A q : Bears(q, p) => q = PartitionOf(p))'
BY PartitionIsAll, PTL

\* It stays the same as long as it is in use and the slot points to it.
LEMMA PartitionKept ==
  ASSUME MemoryInv, MemoryInv', NEW p \in Nat, Known(p), Known(p)',
         Slot(p)'.partition = Slot(p).partition, PartitionOf(p) \in Taken(table')
  PROVE  PartitionOf(p)' = PartitionOf(p)
<1>1. PICK q : q = PartitionOf(p)
  OBVIOUS
<1>2. q.id = Slot(p).partition
  BY <1>1, PartitionIs DEF Bears
<1>3. Bears(q, p)'
  BY <1>1, <1>2 DEF Bears
<1>4. q = PartitionOf(p)'
  BY <1>3, PartitionIsNext
<1>5. QED
  BY <1>1, <1>4

-----------------------------------------------------------------------------
(* What the requests leave of the processes                                *)

SameSpace(q) ==
  /\ Known(q)' <=> Known(q)
  /\ Known(q) => Slot(q)'.size = Slot(q).size /\ PartitionOf(q)' = PartitionOf(q)

Untouched(q) ==
  /\ SameSpace(q)
  /\ Known(q) => /\ Slot(q)'.count = Slot(q).count
                 /\ Slot(q)'.threads = Slot(q).threads

LEMMA TablesStay ==
  ASSUME UNCHANGED <<table, process>>, NEW q \in Nat
  PROVE  Untouched(q)
BY DEF Untouched, SameSpace, Known, Slot, PartitionOf

\* A process whose slot points to the same partition, which is still in use.
LEMMA SlotStays ==
  ASSUME MemoryInv, MemoryInv', NEW q \in Nat, Known(q) <=> Known(q)',
         Known(q) => /\ Slot(q)' = Slot(q)
                     /\ PartitionOf(q) \in Taken(table')
  PROVE  Untouched(q)
<1>1. Known(q) => PartitionOf(q)' = PartitionOf(q)
  <2>1. SUFFICES ASSUME Known(q) PROVE PartitionOf(q)' = PartitionOf(q)
    OBVIOUS
  <2>2. Slot(q)'.partition = Slot(q).partition
    BY <2>1
  <2>3. QED
    BY <2>1, <2>2, PartitionKept
<1>2. QED
  BY <1>1, Zenon DEF Untouched, SameSpace

LEMMA CreateEffect ==
  ASSUME MemoryInv, NEW p \in Pid, NEW size \in Sizes, p = Len(process),
         ProcessCreate(p, size)
  PROVE  /\ ~corrupt /\ ~corrupt' /\ ~Known(p) /\ Known(p)'
         /\ Slot(p)'.size = size /\ Slot(p)'.count = 0 /\ Slot(p)'.threads = {}
         /\ \A q \in Nat \ {p} : Untouched(q)
<1> DEFINE n == Len(process)
<1>1. PICK i \in DOMAIN table :
        /\ ~corrupt /\ ~Known(p) /\ Chosen(i, size) /\ table' = Allocate(i, size)
        /\ process' = Append(process, [pid |-> p, size |-> size,
                                       partition |-> table[i].id,
                                       count |-> 0, threads |-> {}])
        /\ corrupt' = corrupt
  BY DEF ProcessCreate
<1> DEFINE new == [pid |-> p, size |-> size, partition |-> table[i].id,
                   count |-> 0, threads |-> {}]
<1>2. MemoryTypeOK /\ TableInv /\ size \in Nat /\ i \in Candidates(size) /\ p \in Nat
  BY <1>1, InvIs, MemoryAssumption DEF Chosen, Pid
<1>3. table \in Seq(Part) /\ i \in 1 .. Len(table) /\ table[i] \in Part
  <2>1. table \in Seq(Part)
    BY <1>2 DEF MemoryTypeOK, Part
  <2>2. i \in 1 .. Len(table)
    BY <1>1, <2>1
  <2>3. QED
    BY <2>1, <2>2, ElementOfSeq
<1>4. Taken(table) \subseteq Taken(table')
  <2>1. \E r \in Part : Taken(Allocate(i, size)) = Taken(table) \cup {r}
    BY <1>2, <1>3, AllocateKeeps DEF TableInv
  <2>2. QED
    BY <1>1, <2>1
<1>5. /\ new \in MemoryProcess /\ new # NoProcess
      /\ new.size = size /\ new.count = 0 /\ new.threads = {}
  <2>1. table[i].id \in Nat
    BY <1>3, PartFields
  <2>2. new \in MemoryProcess
    BY <2>1 DEF MemoryProcess
  <2>3. QED
    BY <2>2, NoProcessAssumption
<1> HIDE DEF new
<1>6. process' = Append(process, new)
  BY <1>1 DEF new
<1>7. /\ Len(process') = n + 1 /\ n \in Nat /\ n = p
      /\ \A j \in 1 .. n : process'[j] = process[j]
      /\ process'[n + 1] = new
  BY <1>2, <1>5, <1>6 DEF MemoryTypeOK
<1>8. Known(p)' /\ Slot(p)' = new
  BY <1>2, <1>5, <1>7 DEF Known, Slot
<1>9. ASSUME NEW q \in Nat \ {p}
      PROVE  Untouched(q)
  <2>1. Known(q)' <=> Known(q)
    <3>1. q < n + 1 <=> q < n
      BY <1>7
    <3>2. q < n => process'[q + 1] = process[q + 1]
      BY <1>7
    <3>3. QED
      BY <1>7, <3>1, <3>2 DEF Known
  <2>2. Known(q) => Slot(q)' = Slot(q)
    BY <1>7 DEF Known, Slot
  <2>3. Known(q) => PartitionOf(q) \in Taken(table')
    BY <1>4, PartitionIs DEF Bears
  <2>4. MemoryInv'
    BY ProcessCreateKeeps
  <2>5. QED
    BY <2>1, <2>2, <2>3, <2>4, SlotStays
<1>10. QED
  BY <1>1, <1>5, <1>8, <1>9

LEMMA DestroyEffect ==
  ASSUME MemoryInv, NEW p \in Nat, ProcessDestroy(p)
  PROVE  /\ ~corrupt /\ ~corrupt' /\ Known(p) /\ ~Known(p)'
         /\ \A q \in Nat \ {p} : Untouched(q)
<1> DEFINE n == Len(process)
<1>1. PICK i \in DOMAIN table :
        /\ ~corrupt /\ Known(p) /\ table[i].id = Slot(p).partition
        /\ table' = Released(i)
        /\ process' = [process EXCEPT ![p + 1] = NoProcess]
        /\ corrupt' = corrupt
  BY DEF ProcessDestroy
<1>2. MemoryTypeOK /\ TableInv /\ OwnerInv
  BY InvIs
<1>3. /\ table \in Seq(Part) /\ i \in 1 .. Len(table)
      /\ DOMAIN process = 1 .. n /\ n \in Nat /\ p + 1 \in 1 .. n
      /\ process \in Seq(MemoryProcess \cup {NoProcess})
  <2>1. /\ table \in Seq(Part) /\ DOMAIN process = 1 .. n /\ n \in Nat
        /\ process \in Seq(MemoryProcess \cup {NoProcess})
    BY <1>2 DEF MemoryTypeOK, Part
  <2>2. p + 1 \in 1 .. n
    BY <1>1, <2>1 DEF Known
  <2>3. QED
    BY <2>1, <2>2
<1>4. table[i] = PartitionOf(p) /\ table[i].occupied
  <2>1. PICK k \in 1 .. Len(table) : table[k] = PartitionOf(p)
    BY <1>1, PartitionIs
  <2>2. table[k].id = Slot(p).partition /\ table[k] \in Taken(table)
    BY <1>1, <2>1, PartitionIs DEF Bears
  <2>3. k = i
    BY <1>1, <1>2, <1>3, <2>2 DEF TableInv, Unique
  <2>4. QED
    BY <1>3, <2>1, <2>2, <2>3, TakenIs
<1>5. Taken(table') = Taken(table) \ {table[i]}
  BY <1>1, <1>2, <1>3, <1>4, ReleasedKeeps DEF TableInv
<1>6. /\ Len(process') = n
      /\ \A j \in 1 .. n : process'[j] = IF j = p + 1 THEN NoProcess ELSE process[j]
  BY <1>1, <1>3
<1>7. ~Known(p)'
  BY <1>3, <1>6 DEF Known
<1>8. MemoryInv'
  BY ProcessDestroyKeeps
<1>9. ASSUME NEW q \in Nat \ {p}
      PROVE  Untouched(q)
  <2>1. q < n => process'[q + 1] = process[q + 1]
    BY <1>3, <1>6
  <2>2. Known(q)' <=> Known(q)
    BY <1>3, <1>6, <2>1 DEF Known
  <2>3. Known(q) => Slot(q)' = Slot(q)
    BY <2>1 DEF Known, Slot
  <2>4. ASSUME Known(q) PROVE PartitionOf(q) \in Taken(table')
    <3>1. p + 1 \in Live /\ q + 1 \in Live /\ p + 1 # q + 1
      BY <1>1, <2>4, SlotIs
    <3>2. Slot(p).partition # Slot(q).partition
      BY <1>2, <3>1 DEF OwnerInv, Separate, Slot
    <3>3. PartitionOf(q) # table[i] /\ PartitionOf(q) \in Taken(table)
      BY <1>1, <2>4, <3>2, PartitionIs DEF Bears
    <3>4. QED
      BY <1>5, <3>3
  <2>5. QED
    BY <1>8, <2>2, <2>3, <2>4, SlotStays
<1>10. QED
  BY <1>1, <1>7, <1>9

\* One slot changes its threads.
LEMMA SlotEffect ==
  ASSUME MemoryInv, MemoryInv', NEW p \in Nat, Known(p), NEW new \in MemoryProcess,
         new.partition = Slot(p).partition, new.size = Slot(p).size,
         process' = [process EXCEPT ![p + 1] = new], UNCHANGED table
  PROVE  /\ SameSpace(p) /\ Slot(p)' = new
         /\ \A q \in Nat \ {p} : Untouched(q)
<1> DEFINE n == Len(process)
<1>1. /\ DOMAIN process = 1 .. n /\ n \in Nat /\ p + 1 \in 1 .. n
      /\ process \in Seq(MemoryProcess \cup {NoProcess})
  BY DEF Known, MemoryInv, MemoryTypeOK
<1>2. /\ Len(process') = n
      /\ \A j \in 1 .. n : process'[j] = IF j = p + 1 THEN new ELSE process[j]
  BY <1>1
<1>3. Known(p)' /\ Slot(p)' = new
  BY <1>1, <1>2, NoProcessAssumption DEF Known, Slot
<1>4. PartitionOf(p) \in Taken(table')
  BY PartitionIs DEF Bears
<1>5. PartitionOf(p)' = PartitionOf(p)
  BY <1>3, <1>4, PartitionKept
<1>6. ASSUME NEW q \in Nat \ {p}
      PROVE  Untouched(q)
  <2>1. q < n => process'[q + 1] = process[q + 1]
    BY <1>1, <1>2
  <2>2. Known(q)' <=> Known(q)
    BY <1>1, <1>2, <2>1 DEF Known
  <2>3. Known(q) => Slot(q)' = Slot(q)
    BY <2>1 DEF Known, Slot
  <2>4. Known(q) => PartitionOf(q) \in Taken(table')
    BY PartitionIs DEF Bears
  <2>5. QED
    BY <2>2, <2>3, <2>4, SlotStays
<1>7. QED
  BY <1>3, <1>5, <1>6, Zenon DEF SameSpace

LEMMA ThreadCreateEffect ==
  ASSUME MemoryInv, NEW p \in Nat, NEW t \in Tid, ThreadCreate(p, t)
  PROVE  /\ ~corrupt /\ Known(p) /\ t \notin Slot(p).threads /\ SameSpace(p)
         /\ Slot(p)'.count = Slot(p).count + 1
         /\ Slot(p)'.threads = Slot(p).threads \cup {t}
         /\ corrupt' = (t > Slot(p).count)
         /\ \A q \in Nat \ {p} : Untouched(q)
<1>1. /\ ~corrupt /\ Known(p) /\ t \notin Slot(p).threads
      /\ process' = [process EXCEPT ![p + 1].count = @ + 1,
                                    ![p + 1].threads = @ \cup {t}]
      /\ corrupt' = (t > Slot(p).count) /\ UNCHANGED table
  BY DEF ThreadCreate
<1>2. PICK old \in MemoryProcess : old = Slot(p)
  BY <1>1, SlotIs
<1>3. PICK count \in Nat, threads \in SUBSET Tid :
        count = old.count + 1 /\ threads = old.threads \cup {t}
  <2>1. old.count \in Nat /\ old.threads \in SUBSET Tid
    BY DEF MemoryProcess
  <2>2. old.count + 1 \in Nat /\ old.threads \cup {t} \in SUBSET Tid
    BY <2>1
  <2>3. QED
    BY <2>2, Zenon
<1>4. PICK new \in MemoryProcess :
        new = [old EXCEPT !.count = count, !.threads = threads]
  BY DEF MemoryProcess
<1>5. /\ new.partition = old.partition /\ new.size = old.size
      /\ new.count = count /\ new.threads = threads
  BY <1>4 DEF MemoryProcess
<1>6. process' = [process EXCEPT ![p + 1] = new]
  <2>1. process' = [process EXCEPT ![p + 1] = [process[p + 1] EXCEPT
                      !.count = process[p + 1].count + 1,
                      !.threads = process[p + 1].threads \cup {t}]]
    BY <1>1, <1>2 DEF Slot, MemoryProcess
  <2>2. QED
    BY <1>2, <1>3, <1>4, <2>1 DEF Slot
<1>7. MemoryInv'
  BY ThreadCreateKeeps
<1>8. /\ SameSpace(p) /\ Slot(p)' = new
      /\ \A q \in Nat \ {p} : Untouched(q)
  BY <1>1, <1>2, <1>5, <1>6, <1>7, SlotEffect
<1>9. QED
  BY <1>1, <1>2, <1>3, <1>5, <1>8

LEMMA ThreadDestroyEffect ==
  ASSUME MemoryInv, NEW p \in Nat, NEW t \in Tid, ThreadDestroy(p, t)
  PROVE  /\ ~corrupt /\ ~corrupt' /\ SameSpace(p)
         /\ Known(p) => /\ Slot(p)'.count = Slot(p).count
                        /\ Slot(p)'.threads = IF t < Slot(p).count
                                              THEN Slot(p).threads \ {t}
                                              ELSE Slot(p).threads
         /\ \A q \in Nat \ {p} : Untouched(q)
<1>1. ~corrupt /\ UNCHANGED <<table, corrupt>>
  BY DEF ThreadDestroy
<1>2. CASE Known(p) /\ t < Slot(p).count
  <2>1. process' = [process EXCEPT ![p + 1].threads = @ \ {t}]
    BY <1>2 DEF ThreadDestroy
  <2>2. PICK old \in MemoryProcess : old = Slot(p)
    BY <1>2, SlotIs
  <2>3. PICK threads \in SUBSET Tid : threads = old.threads \ {t}
    BY DEF MemoryProcess
  <2>4. PICK new \in MemoryProcess : new = [old EXCEPT !.threads = threads]
    BY DEF MemoryProcess
  <2>5. /\ new.partition = old.partition /\ new.size = old.size
        /\ new.count = old.count /\ new.threads = threads
    BY <2>4 DEF MemoryProcess
  <2>6. process' = [process EXCEPT ![p + 1] = new]
    BY <2>1, <2>2, <2>3, <2>4 DEF Slot
  <2>7. MemoryInv'
    BY ThreadDestroyKeeps
  <2>8. /\ SameSpace(p) /\ Slot(p)' = new
        /\ \A q \in Nat \ {p} : Untouched(q)
    BY <1>1, <1>2, <2>2, <2>5, <2>6, <2>7, SlotEffect
  <2>9. QED
    BY <1>1, <1>2, <2>2, <2>3, <2>5, <2>8
<1>3. CASE ~ (Known(p) /\ t < Slot(p).count)
  <2>1. process' = process
    BY <1>3 DEF ThreadDestroy
  <2>2. \A q \in Nat : Untouched(q)
    BY <1>1, <2>1, TablesStay
  <2>3. QED
    BY <1>1, <1>3, <2>1, <2>2 DEF Untouched, Slot
<1>4. QED
  BY <1>2, <1>3

-----------------------------------------------------------------------------
(* The inductive invariant                                                 *)

Kernel == exec \in Thread \cup {Null} /\ tids \in [Pid -> Nat]

Interrupting == KERNEL_INTERRUPT # "NONE"
Preempts(why) == why \in {"QUANTUM", "KILL"}

\* What the sockets hold at each point of the cycle, and whom PID and TID name
Cycle ==
  /\ dispatch # Null => /\ exec = dispatch /\ eviction = Null
                        /\ cpu \in {"RECEIVE", "TID"}
  /\ cpu = "TID" => dispatch # Null /\ PID = exec[1]
  /\ cpu \notin {"RECEIVE", "TID"} => /\ dispatch = Null /\ eviction = Null
                                      /\ exec # Null /\ exec = <<PID, TID>>
  /\ eviction # Null => cpu = "RECEIVE" /\ exec # Null /\ exec = <<PID, TID>>
  /\ cpu \in {"CONTEXT", "EXECUTE", "CHECK"} /\ Interrupting => meant = exec
  /\ cpu \in {"UPDATE", "EVICT"} /\ Preempts(EVICTION_REASON) => meant = exec
  /\ eviction # Null /\ Preempts(eviction.reason) => meant = exec

Reason == {"EXIT", "KILL", "QUANTUM", "SYSCALL", "SEGFAULT", "ERROR"}
Place == {"RECEIVE", "TID", "RESET", "CONTEXT", "EXECUTE", "CHECK", "UPDATE", "EVICT",
          "ABORTED"}

Types ==
  /\ mainMemory \in [0 .. MemorySize - 1 -> Byte]
  /\ context \in [Thread -> Context \cup {Null}]
  /\ petition \in Thread \cup {Null}
  /\ dump \in Dump \cup {Null}
  /\ cpu \in Place
  /\ EXEC_CONTEXT \in [regs : Registers, base : Nat, limit : Nat]
  /\ eviction \in Eviction \cup {Null}
  /\ KERNEL_INTERRUPT \in {"NONE", "QUANTUM", "KILL"}
  /\ sent # Null => sent.kind \in {"QUANTUM", "KILL"}
  /\ SYSCALL_CALLED \in BOOLEAN
  /\ SYSCALL_INSTRUCTION \in Instruction \cup {Null}
  /\ EVICTION_REASON \in Reason

\* A thread has a context exactly while memory has it in the slot of its
\* process, among the threads that are counted as long as nothing was written
\* out of bounds; the kernel's next TID is beyond them
ContextsOf(p) ==
  /\ \A t \in Tid :
       context[<<p, t>>] # Null <=> Known(p) /\ t \in Slot(p).threads
  /\ Known(p) => /\ Slot(p).count <= tids[p]
                 /\ \A t \in Slot(p).threads :
                      t < tids[p] /\ (~corrupt => t < Slot(p).count)

Contexts ==
  /\ \A p \in Pid : ContextsOf(p)
  /\ exec # Null => context[exec] # Null

\* While instructions are executed, base and limit are those of the partition
OnBoard == cpu \in {"EXECUTE", "CHECK", "UPDATE", "ABORTED"}
Mounted ==
  OnBoard => /\ Has(PID, TID)
             /\ EXEC_CONTEXT.base = PartitionOf(PID).base
             /\ EXEC_CONTEXT.limit = PartitionOf(PID).size

Dumping == dump # Null => Known(dump.thread[1])

\* What an eviction says, of the thread whose code and registers are given
Delivers(reason, call, code, r) ==
  /\ reason \in {"SYSCALL", "EXIT"} =>
       call = code[((r["PC"] - 1) % Modulus) + 1]
  /\ reason = "QUANTUM" => call = Null

Saved == context[<<PID, TID>>]

Calling ==
  /\ cpu \in {"TID", "RESET", "CONTEXT", "EXECUTE"} => SYSCALL_INSTRUCTION = Null
  /\ cpu = "CHECK" =>
       /\ opcode = "EXIT" => SYSCALL_CALLED
       /\ SYSCALL_CALLED => Delivers("SYSCALL", SYSCALL_INSTRUCTION, Saved.code, regs)
       /\ ~SYSCALL_CALLED => SYSCALL_INSTRUCTION = Null
  /\ cpu = "UPDATE" =>
       Delivers(EVICTION_REASON, SYSCALL_INSTRUCTION, Saved.code, regs)
  /\ cpu = "EVICT" =>
       Delivers(EVICTION_REASON, SYSCALL_INSTRUCTION, Saved.code, Saved.regs)
  /\ eviction # Null =>
       Delivers(eviction.reason, eviction.call, context[exec].code,
                context[exec].regs)

\* A dispatch that is not answered is one that memory refused
Answered ==
  exec # Null /\ cpu = "RECEIVE" /\ dispatch = Null /\ eviction = Null
    => corrupt /\ ~Has(exec[1], exec[2])

IInv ==
  /\ MemoryInv /\ Kernel /\ Cycle /\ Types
  /\ Contexts /\ Mounted /\ Dumping /\ Calling /\ Answered

-----------------------------------------------------------------------------
(* The table survives, and PID and TID name who runs *)

LEMMA TableStays == MemoryInv /\ UNCHANGED memVars => MemoryInv'
BY DEF MemoryInv, MemoryTypeOK, Tiling, Owned, Coalesced, UserSpace, Live,
       memVars, configVars

LEMMA TableKept == MemoryInv /\ Kernel /\ Cycle /\ Next => MemoryInv'
<1> SUFFICES ASSUME MemoryInv, Kernel, Cycle, Next PROVE MemoryInv'
  OBVIOUS
<1>1. Pid \subseteq Nat /\ 0 \in Tid
  BY MemoryAssumption DEF Pid, Tid
<1>2. ASSUME NEW p \in Pid, NEW size \in Sizes, CreateProcess(p, size)
      PROVE  MemoryInv'
  BY <1>2, ProcessCreateKeeps DEF CreateProcess
<1>3. ASSUME NEW p \in Pid, DestroyProcess(p)
      PROVE  MemoryInv'
  BY <1>1, <1>3, ProcessDestroyKeeps DEF DestroyProcess
<1>4. ASSUME NEW p \in Pid, NEW t \in Tid, CreateThread(p, t)
      PROVE  MemoryInv'
  BY <1>1, <1>4, ThreadCreateKeeps DEF CreateThread
<1>5. ASSUME NEW p \in Pid, FirstThread(p) \/ HandleCreate(p)
      PROVE  MemoryInv'
  <2>1. CASE FirstThread(p)
    BY <1>1, <1>4, <2>1 DEF FirstThread
  <2>2. CASE HandleCreate(p)
    <3>1. tids[p] \in Tid
      BY <2>2, MemoryAssumption DEF HandleCreate, Kernel, Tid
    <3>2. PICK t \in Tid : t = tids[p]
      BY <3>1
    <3>3. CreateThread(p, t)
      BY <2>2, <3>2 DEF HandleCreate
    <3>4. QED
      BY <1>4, <3>3
  <2>3. QED
    BY <1>5, <2>1, <2>2
<1>6. ASSUME NEW x \in Thread, DestroyThread(x)
      PROVE  MemoryInv'
  <2>1. x[1] \in Pid /\ x[2] \in Tid
    BY DEF Thread
  <2>2. PICK p \in Pid, t \in Tid : p = x[1] /\ t = x[2]
    BY <2>1
  <2>3. ThreadDestroy(p, t)
    BY <1>6, <2>2 DEF DestroyThread
  <2>4. QED
    BY <1>1, <2>3, ThreadDestroyKeeps
<1>7. ASSUME HandleExit PROVE MemoryInv'
  <2>1. exec \in Thread
    BY <1>7 DEF HandleExit, Handled, Cycle, Kernel
  <2>2. PICK x \in Thread : x = exec
    BY <2>1
  <2>3. DestroyThread(x)
    BY <1>7, <2>2 DEF HandleExit
  <2>4. QED
    BY <1>6, <2>3
<1>8. ASSUME NEW x \in Thread, Kill(x) PROVE MemoryInv'
  BY <1>6, <1>8 DEF Kill
<1>9. CASE UNCHANGED memVars
  BY <1>9, TableStays
<1>10. CASE KernelStep
  BY <1>2, <1>3, <1>5, <1>7, <1>8, <1>9, <1>10
     DEF KernelStep, HandleRefused, Dispatch, SendInterrupt, HandleDump, HandleOther
<1>11. CASE DumpStep \/ CpuStep
  <2>1. UNCHANGED memVars
    BY <1>11 DEF DumpStep, BeginDump, DumpByte, EndDump, CpuStep, ReceivePid, ReceiveTid,
         Reset, SeekContext, ContextRefused, FetchFails, ExecuteRegisters, ExecuteCall,
         ExecuteBadCall, ExecuteBad, ExecuteRead, ExecuteWrite, ExecuteFaults, Check,
         Update, Evict, ReceiveInterrupt
  <2>2. QED
    BY <1>9, <2>1
<1>12. QED
  BY <1>10, <1>11 DEF Next

-----------------------------------------------------------------------------
(* The kernel's steps *)

LEMMA KernelKept == Kernel /\ Cycle /\ KernelStep => Kernel' /\ Cycle'
<1> SUFFICES ASSUME Kernel, Cycle, KernelStep PROVE Kernel' /\ Cycle'
  OBVIOUS
<1>1. /\ tids \in [Pid -> Nat] /\ exec \in Thread \cup {Null} /\ 0 \in Nat
      /\ Null \notin Thread
  BY ExecutionAssumption DEF Kernel, Thread
<1>2. ASSUME UNCHANGED <<exec, dispatch, eviction, cycleVars, flagVars>>,
             tids' \in [Pid -> Nat]
      PROVE  Kernel' /\ Cycle'
  BY <1>2 DEF Kernel, Cycle, cycleVars, flagVars, Interrupting
<1>3. ASSUME Handled, UNCHANGED <<dispatch, cycleVars, flagVars>>,
             tids' \in [Pid -> Nat]
      PROVE  Kernel' /\ Cycle'
  BY <1>3 DEF Handled, Kernel, Cycle, cycleVars, flagVars, Interrupting
<1>4. ASSUME NEW p \in Pid, NEW size \in Sizes, CreateProcess(p, size)
      PROVE  Kernel' /\ Cycle'
  BY <1>1, <1>2, <1>4 DEF CreateProcess, kernelVars
<1>5. ASSUME NEW p \in Pid, DestroyProcess(p)
      PROVE  Kernel' /\ Cycle'
  BY <1>1, <1>2, <1>5 DEF DestroyProcess, kernelVars
<1>6. ASSUME NEW p \in Pid, FirstThread(p)
      PROVE  Kernel' /\ Cycle'
  <2>1. tids' = [tids EXCEPT ![p] = 0 + 1]
    BY <1>6 DEF FirstThread, CreateThread
  <2>2. tids' \in [Pid -> Nat]
    BY <1>1, <2>1
  <2>3. QED
    BY <1>2, <1>6, <2>2 DEF FirstThread, CreateThread
<1>7. ASSUME NEW p \in Pid, HandleCreate(p)
      PROVE  Kernel' /\ Cycle'
  <2>1. tids' = [tids EXCEPT ![p] = tids[p] + 1]
    BY <1>7 DEF HandleCreate, CreateThread
  <2>2. tids' \in [Pid -> Nat]
    BY <1>1, <2>1
  <2>3. QED
    BY <1>3, <1>7, <2>2 DEF HandleCreate, CreateThread
<1>8. ASSUME NEW p \in Pid, HandleRefused(p)
      PROVE  Kernel' /\ Cycle'
  <2>1. tids' \in [Pid -> Nat]
    BY <1>1, <1>8 DEF HandleRefused
  <2>2. QED
    BY <1>3, <1>8, <2>1 DEF HandleRefused
<1>9. CASE HandleDump \/ HandleOther \/ HandleExit
  <2>1. tids' = tids /\ Handled /\ UNCHANGED <<dispatch, cycleVars, flagVars>>
    BY <1>9 DEF HandleDump, HandleOther, HandleExit, DestroyThread
  <2>2. QED
    BY <1>1, <1>3, <2>1
<1>10. ASSUME NEW x \in Thread, Kill(x)
       PROVE  Kernel' /\ Cycle'
  BY <1>1, <1>2, <1>10 DEF Kill, DestroyThread
<1>11. ASSUME NEW kind \in {"QUANTUM", "KILL"}, SendInterrupt(kind)
       PROVE  Kernel' /\ Cycle'
  BY <1>1, <1>2, <1>11 DEF SendInterrupt
<1>12. ASSUME NEW x \in Thread, Dispatch(x)
       PROVE  Kernel' /\ Cycle'
  <2>1. /\ exec = Null /\ exec' = x /\ dispatch' = x /\ x # Null
        /\ UNCHANGED <<tids, eviction, cycleVars, flagVars>>
    BY <1>1, <1>12 DEF Dispatch
  <2>2. eviction = Null /\ cpu = "RECEIVE"
    BY <2>1 DEF Cycle
  <2>3. QED
    BY <1>1, <2>1, <2>2 DEF Kernel, Cycle, cycleVars, flagVars
<1>13. QED
  BY <1>4, <1>5, <1>6, <1>7, <1>8, <1>9, <1>10, <1>11, <1>12 DEF KernelStep

-----------------------------------------------------------------------------
(* The CPU's steps *)

LEMMA CpuKept == Kernel /\ Cycle /\ CpuStep => Kernel' /\ Cycle'
<1> SUFFICES ASSUME Kernel, Cycle, CpuStep PROVE Kernel' /\ Cycle'
  OBVIOUS
<1>1. CpuStep => UNCHANGED <<exec, tids>>
  BY DEF CpuStep, ReceivePid, ReceiveTid, Reset, SeekContext, ContextRefused, FetchFails,
         ExecuteRegisters, ExecuteCall, ExecuteBadCall, ExecuteBad, ExecuteRead,
         ExecuteWrite, ExecuteFaults, Check, Update, Evict, ReceiveInterrupt, kernelVars
<1>2. Kernel'
  BY <1>1 DEF Kernel
<1>3. ASSUME ReceivePid
      PROVE  Cycle'
  BY <1>1, <1>3 DEF ReceivePid, Goes, Cycle, kernelVars, flagVars
<1>4. ASSUME ReceiveTid
      PROVE  Cycle'
  <2>1. /\ exec = dispatch /\ eviction = Null /\ exec # Null /\ PID = exec[1]
        /\ cpu' = "RESET" /\ TID' = exec[2] /\ dispatch' = Null
        /\ UNCHANGED <<exec, eviction, PID>>
    BY <1>4 DEF ReceiveTid, Goes, Cycle
  <2>2. exec = <<exec[1], exec[2]>>
    BY <2>1 DEF Kernel, Thread
  <2>3. QED
    BY <2>1, <2>2 DEF Cycle
<1>5. ASSUME Reset
      PROVE  Cycle'
  BY <1>1, <1>5 DEF Reset, ResetInterrupt, Goes, Cycle, Interrupting, kernelVars
<1>6. ASSUME SeekContext \/ ContextRefused
      PROVE  Cycle'
  <2>1. /\ cpu = "CONTEXT" /\ cpu' \in {"EXECUTE", "RECEIVE"}
        /\ UNCHANGED <<exec, dispatch, eviction, PID, TID, KERNEL_INTERRUPT, meant>>
    BY <1>6 DEF SeekContext, ContextRefused, Goes, kernelVars, flagVars
  <2>2. QED
    BY <2>1 DEF Cycle, Interrupting
<1>7. ASSUME \/ FetchFails \/ ExecuteRegisters \/ ExecuteCall \/ ExecuteBadCall
             \/ ExecuteBad \/ ExecuteRead \/ ExecuteWrite \/ ExecuteFaults
      PROVE  Cycle'
  <2>1. /\ cpu = "EXECUTE"
        /\ \/ cpu' = "CHECK"
           \/ cpu' \in {"UPDATE", "ABORTED"} /\ EVICTION_REASON' \in {"ERROR", "SEGFAULT"}
        /\ UNCHANGED <<exec, dispatch, eviction, PID, TID, KERNEL_INTERRUPT, meant>>
    BY <1>7 DEF FetchFails, ExecuteRegisters, ExecuteCall, ExecuteBadCall, ExecuteBad,
         ExecuteRead, ExecuteWrite, ExecuteFaults, Executing, Succeeds, Fails, kernelVars,
         flagVars
  <2>2. QED
    BY <2>1 DEF Cycle, Interrupting, Preempts
<1>8. ASSUME Check
      PROVE  Cycle'
  <2>1. /\ cpu = "CHECK"
        /\ \/ cpu' = "EXECUTE"
           \/ cpu' = "UPDATE" /\ EVICTION_REASON' = Verdict
        /\ UNCHANGED <<exec, dispatch, eviction, PID, TID, KERNEL_INTERRUPT, meant>>
    BY <1>8 DEF Check, Fails, kernelVars
  <2>2. Preempts(Verdict) => Interrupting
    BY DEF Verdict, Preempts, Interrupting
  <2>3. QED
    BY <2>1, <2>2 DEF Cycle, Interrupting, Preempts
<1>9. ASSUME Update
      PROVE  Cycle'
  BY <1>9 DEF Update, Goes, Cycle, kernelVars, flagVars
<1>10. ASSUME Evict
      PROVE  Cycle'
  <2>1. /\ cpu = "EVICT" /\ cpu' = "RECEIVE" /\ eviction'.reason = EVICTION_REASON
        /\ UNCHANGED <<exec, dispatch, PID, TID, meant>>
    BY <1>10 DEF Evict, Goes, flagVars
  <2>2. QED
    BY <2>1 DEF Cycle
<1>11. ASSUME ReceiveInterrupt
      PROVE  Cycle'
  <2>1. UNCHANGED <<exec, dispatch, eviction, cpu, PID, TID, EVICTION_REASON>>
    BY <1>11 DEF ReceiveInterrupt, cycleVars
  <2>2. \/ UNCHANGED <<KERNEL_INTERRUPT, meant>>
        \/ meant' = <<PID, TID>>
    BY <1>11 DEF ReceiveInterrupt
  <2>3. QED
    BY <2>1, <2>2 DEF Cycle, Interrupting
<1>12. QED
  BY <1>2, <1>3, <1>4, <1>5, <1>6, <1>7, <1>8, <1>9, <1>10, <1>11 DEF CpuStep

-----------------------------------------------------------------------------
(* What a step of the kernel leaves alone *)

LEMMA PidIs == /\ Pid \subseteq Nat /\ Tid \subseteq Nat /\ 0 \in Tid
               /\ \A x \in Thread : x[1] \in Pid /\ x[2] \in Tid /\ x = <<x[1], x[2]>>
               /\ \A p \in Pid, t \in Tid : <<p, t>> \in Thread
               /\ Null \notin Thread
BY MemoryAssumption, ExecutionAssumption DEF Pid, Tid, Thread

\* A thread may be created or destroyed with its context.
LEMMA ThreadMade ==
  ASSUME MemoryInv, Kernel, Types, NEW p \in Pid, NEW t \in Tid, CreateThread(p, t),
         t = tids[p]
  PROVE  /\ ~corrupt /\ Known(p) /\ t \notin Slot(p).threads
         /\ corrupt' = (t > Slot(p).count)
         /\ SameSpace(p) /\ Slot(p)'.count = Slot(p).count + 1
         /\ Slot(p)'.threads = Slot(p).threads \cup {t}
         /\ \A q \in Nat \ {p} : Untouched(q)
         /\ tids' = [tids EXCEPT ![p] = t + 1]
         /\ \E c \in Context : context' = [context EXCEPT ![<<p, t>>] = c]
         /\ CanWriteThreads(p)
         /\ UNCHANGED <<mainMemory, dump, petition, dispatch, sent, commands,
                        cycleVars, flagVars>>
<1>1. p \in Nat
  BY PidIs
<1>2. ThreadCreate(p, t)
  BY DEF CreateThread
<1>3. PICK code \in Program :
        context' = [context EXCEPT ![<<p, t>>] = [code |-> code, regs |-> ZeroRegisters]]
  BY DEF CreateThread
<1>4. ZeroRegisters \in [Register -> Word]
  BY ModulusIs DEF ZeroRegisters
<1>5. [code |-> code, regs |-> ZeroRegisters] \in Context
  BY <1>4 DEF Context
<1>6. \E c \in Context : context' = [context EXCEPT ![<<p, t>>] = c]
  BY <1>3, <1>5
<1>7. /\ tids' = [tids EXCEPT ![p] = t + 1] /\ CanWriteThreads(p)
      /\ UNCHANGED <<mainMemory, dump, petition, dispatch, sent, commands,
                     cycleVars, flagVars>>
  BY DEF CreateThread
<1>8. QED
  BY <1>1, <1>2, <1>6, <1>7, ThreadCreateEffect

LEMMA ThreadGone ==
  ASSUME MemoryInv, Kernel, Types, NEW x \in Thread, DestroyThread(x)
  PROVE  /\ ~corrupt /\ ~corrupt' /\ SameSpace(x[1])
         /\ Known(x[1]) =>
              /\ Slot(x[1])'.count = Slot(x[1]).count
              /\ Slot(x[1])'.threads = IF x[2] < Slot(x[1]).count
                                       THEN Slot(x[1]).threads \ {x[2]}
                                       ELSE Slot(x[1]).threads
         /\ \A q \in Nat \ {x[1]} : Untouched(q)
         /\ context' = [context EXCEPT ![x] = Null]
         /\ CanWriteThreads(x[1])
         /\ UNCHANGED <<mainMemory, dump, petition, tids, dispatch, sent, commands,
                        cycleVars, flagVars>>
<1>1. PICK p \in Nat, t \in Tid : p = x[1] /\ t = x[2]
  BY PidIs
<1>2. ThreadDestroy(p, t)
  BY <1>1 DEF DestroyThread
<1>3. /\ ~corrupt /\ ~corrupt' /\ SameSpace(p)
      /\ Known(p) => /\ Slot(p)'.count = Slot(p).count
                     /\ Slot(p)'.threads = IF t < Slot(p).count
                                           THEN Slot(p).threads \ {t}
                                           ELSE Slot(p).threads
      /\ \A q \in Nat \ {p} : Untouched(q)
  BY <1>2, ThreadDestroyEffect
<1>4. /\ context' = [context EXCEPT ![x] = Null] /\ CanWriteThreads(x[1])
      /\ UNCHANGED <<mainMemory, dump, petition, tids, dispatch, sent, commands,
                     cycleVars, flagVars>>
  BY DEF DestroyThread
<1>5. QED
  BY <1>1, <1>3, <1>4, Zenon

\* The next TID is one.
LEMMA NextTid ==
  ASSUME Kernel, NEW p \in Pid, tids[p] <= MaxTid
  PROVE  tids[p] \in Tid
BY MemoryAssumption DEF Kernel, Tid

\* The steps of the kernel, as far as memory is concerned.
Makes(p) == CreateThread(p, tids[p]) /\ tids[p] \in Tid
KernelIs ==
  \/ \E p \in Pid, size \in Sizes : CreateProcess(p, size)
  \/ \E p \in Pid : DestroyProcess(p)
  \/ \E p \in Pid : Makes(p) /\ (FirstThread(p) \/ HandleCreate(p))
  \/ \E x \in Thread : DestroyThread(x) /\ (Kill(x) \/ (x = exec /\ HandleExit))
  \/ UNCHANGED <<memVars, mainMemory, context, dump, cycleVars, flagVars>>

LEMMA KernelIsAll ==
  ASSUME Kernel, Cycle, KernelStep
  PROVE  KernelIs
<1>1. ASSUME NEW p \in Pid, FirstThread(p) PROVE Makes(p)
  BY <1>1, PidIs DEF FirstThread, Makes
<1>2. ASSUME NEW p \in Pid, HandleCreate(p) PROVE Makes(p)
  BY <1>2, NextTid DEF HandleCreate, Makes
<1>3. ASSUME HandleExit
      PROVE  \E x \in Thread : DestroyThread(x) /\ x = exec
  <2>1. exec \in Thread
    BY <1>3 DEF HandleExit, Handled, Cycle, Kernel
  <2>2. DestroyThread(exec)
    BY <1>3 DEF HandleExit
  <2>3. QED
    BY <2>1, <2>2
<1>4. ASSUME NEW x \in Thread, Kill(x) PROVE DestroyThread(x)
  BY <1>4 DEF Kill
<1>5. ASSUME \/ \E p \in Pid : HandleRefused(p)
             \/ \E x \in Thread : Dispatch(x)
             \/ \E kind \in {"QUANTUM", "KILL"} : SendInterrupt(kind)
             \/ HandleDump \/ HandleOther
      PROVE  UNCHANGED <<memVars, mainMemory, context, dump, cycleVars, flagVars>>
  BY <1>5 DEF HandleRefused, Dispatch, SendInterrupt, HandleDump, HandleOther, userVars
<1>6. CASE \/ \E p \in Pid, size \in Sizes : CreateProcess(p, size)
           \/ \E p \in Pid : DestroyProcess(p)
  BY <1>6, Zenon DEF KernelIs
<1>7. CASE \E p \in Pid : FirstThread(p) \/ HandleCreate(p)
  BY <1>1, <1>2, <1>7, Zenon DEF KernelIs
<1>8. CASE (\E x \in Thread : Kill(x)) \/ HandleExit
  BY <1>3, <1>4, <1>8, Zenon DEF KernelIs
<1>9. CASE \/ \E p \in Pid : HandleRefused(p)
           \/ \E x \in Thread : Dispatch(x)
           \/ \E kind \in {"QUANTUM", "KILL"} : SendInterrupt(kind)
           \/ HandleDump \/ HandleOther
  BY <1>5, <1>9, Zenon DEF KernelIs
<1>10. QED
  BY <1>6, <1>7, <1>8, <1>9, Zenon DEF KernelStep

\* No step of the kernel moves the partition of a process that stays, stops
\* counting its threads, or ends it under a dump; and none follows a write out
\* of bounds.
LEMMA KernelSpaces ==
  ASSUME MemoryInv, Kernel, Cycle, Types, KernelStep
  PROVE  /\ \A q \in Pid : Known(q) /\ Known(q)' =>
              /\ SameSpace(q) /\ Slot(q)'.count \in Nat /\ Slot(q).count \in Nat
              /\ Slot(q).count <= Slot(q)'.count
         /\ dump # Null => \A q \in Pid : Known(q) => Known(q)'
         /\ corrupt => UNCHANGED <<table, process, corrupt>>
         /\ UNCHANGED <<mainMemory, dump, cycleVars, flagVars>>
<1> DEFINE Persists(q) == Known(q) /\ Known(q)' =>
                            /\ SameSpace(q)
                            /\ Slot(q)'.count \in Nat /\ Slot(q).count \in Nat
                            /\ Slot(q).count <= Slot(q)'.count
           Goal == /\ \A q \in Pid : Persists(q)
                   /\ dump # Null => \A q \in Pid : Known(q) => Known(q)'
                   /\ corrupt => UNCHANGED <<table, process, corrupt>>
                   /\ UNCHANGED <<mainMemory, dump, cycleVars, flagVars>>
<1>1. Pid \subseteq Nat
  BY PidIs
<1>2. ASSUME NEW q \in Nat, Untouched(q)
      PROVE  Persists(q) /\ (Known(q) => Known(q)')
  <2>1. SUFFICES ASSUME Known(q)
                 PROVE  SameSpace(q) /\ Known(q)' /\ Slot(q)'.count = Slot(q).count
                        /\ Slot(q).count \in Nat
    OBVIOUS
  <2>2. QED
    BY <1>2, <2>1, SlotIs DEF Untouched, SameSpace
<1>3. ASSUME NEW p \in Pid, NEW size \in Sizes, CreateProcess(p, size)
      PROVE  Goal
  <2>1. /\ ProcessCreate(p, size) /\ p = Len(process) /\ dump = Null
        /\ UNCHANGED <<mainMemory, dump, cycleVars, flagVars>>
    BY <1>3 DEF CreateProcess, CanWritePartitions, userVars
  <2>2. ~corrupt /\ ~Known(p) /\ \A q \in Nat \ {p} : Untouched(q)
    BY <2>1, CreateEffect
  <2>3. \A q \in Pid : Persists(q)
    BY <1>1, <1>2, <2>2
  <2>4. QED
    BY <2>1, <2>2, <2>3, Zenon
<1>4. ASSUME NEW p \in Pid, DestroyProcess(p)
      PROVE  Goal
  <2>1. /\ ProcessDestroy(p) /\ dump = Null
        /\ UNCHANGED <<mainMemory, dump, cycleVars, flagVars>>
    BY <1>4 DEF DestroyProcess, CanWritePartitions, userVars
  <2>2. ~corrupt /\ ~Known(p)' /\ \A q \in Nat \ {p} : Untouched(q)
    BY <1>1, <2>1, DestroyEffect
  <2>3. \A q \in Pid : Persists(q)
    BY <1>1, <1>2, <2>2
  <2>4. QED
    BY <2>1, <2>2, <2>3, Zenon
<1>5. ASSUME NEW p \in Pid, Makes(p)
      PROVE  Goal
  <2>1. PICK t \in Tid : t = tids[p] /\ CreateThread(p, t)
    BY <1>5 DEF Makes
  <2>2. /\ ~corrupt /\ Known(p) /\ SameSpace(p)
        /\ Slot(p)'.count = Slot(p).count + 1
        /\ \A q \in Nat \ {p} : Untouched(q)
        /\ UNCHANGED <<mainMemory, dump, cycleVars, flagVars>>
    BY <2>1, ThreadMade
  <2>3. Slot(p).count \in Nat
    BY <1>1, <2>2, SlotIs
  <2>4. Slot(p)'.count \in Nat /\ Slot(p).count <= Slot(p)'.count
    BY <2>2, <2>3
  <2>5. Persists(p) /\ (Known(p) => Known(p)')
    BY <2>2, <2>3, <2>4, Zenon DEF SameSpace
  <2>6. \A q \in Pid : Persists(q) /\ (Known(q) => Known(q)')
    BY <1>1, <1>2, <2>2, <2>5
  <2>7. QED
    BY <2>2, <2>6, Zenon
<1>6. ASSUME NEW x \in Thread, DestroyThread(x)
      PROVE  Goal
  <2>1. PICK p \in Pid : p = x[1]
    BY PidIs
  <2>2. /\ ~corrupt /\ SameSpace(p)
        /\ Known(p) => Slot(p)'.count = Slot(p).count
        /\ \A q \in Nat \ {p} : Untouched(q)
        /\ UNCHANGED <<mainMemory, dump, cycleVars, flagVars>>
    BY <1>6, <2>1, ThreadGone
  <2>3. Known(p) => Slot(p).count \in Nat
    BY <1>1, SlotIs
  <2>4. Persists(p) /\ (Known(p) => Known(p)')
    BY <2>2, <2>3 DEF SameSpace
  <2>5. \A q \in Pid : Persists(q) /\ (Known(q) => Known(q)')
    BY <1>1, <1>2, <2>2, <2>4
  <2>6. QED
    BY <2>2, <2>5, Zenon
<1>7. ASSUME UNCHANGED <<memVars, mainMemory, context, dump, cycleVars, flagVars>>
      PROVE  Goal
  <2>1. UNCHANGED <<table, process, corrupt, mainMemory, dump, cycleVars, flagVars>>
    BY <1>7 DEF memVars
  <2>2. \A q \in Nat : Untouched(q)
    BY <2>1, TablesStay
  <2>3. \A q \in Pid : Persists(q) /\ (Known(q) => Known(q)')
    BY <1>1, <1>2, <2>2
  <2>4. QED
    BY <2>1, <2>3, Zenon
<1>8. QED
  BY <1>3, <1>4, <1>5, <1>6, <1>7, KernelIsAll, Zenon DEF KernelIs

-----------------------------------------------------------------------------
(* The kernel's steps, one part of the invariant after the other           *)

\* The sockets and contexts that a step of the kernel changes.
LEMMA KernelMoves ==
  ASSUME Kernel, Cycle, Types, Contexts, KernelStep
  PROVE  /\ exec # Null /\ exec' # Null =>
              /\ exec' = exec /\ dispatch' = dispatch
              /\ eviction' = eviction /\ context'[exec] = context[exec]
         /\ exec = Null /\ exec' # Null => dispatch' # Null
         /\ eviction' \in {eviction, Null}
         /\ petition' \in Thread \cup {Null}
<1> DEFINE Goal ==
      /\ exec # Null /\ exec' # Null =>
           /\ exec' = exec /\ dispatch' = dispatch
           /\ eviction' = eviction /\ context'[exec] = context[exec]
      /\ exec = Null /\ exec' # Null => dispatch' # Null
      /\ eviction' \in {eviction, Null}
      /\ petition' \in Thread \cup {Null}
<1>1. petition \in Thread \cup {Null} /\ Null \notin Thread
  BY PidIs DEF Types
<1>2. ASSUME NEW p \in Pid, NEW size \in Sizes, CreateProcess(p, size)
      PROVE  Goal
  BY <1>1, <1>2 DEF CreateProcess, userVars, kernelVars
<1>3. ASSUME NEW p \in Pid, DestroyProcess(p)
      PROVE  Goal
  BY <1>1, <1>3 DEF DestroyProcess, userVars, kernelVars
<1>4. ASSUME NEW p \in Pid, FirstThread(p)
      PROVE  Goal
  <2>1. /\ UNCHANGED <<exec, eviction, dispatch, petition>>
        /\ \E code \in Program :
             context' = [context EXCEPT ![<<p, 0>>] =
                           [code |-> code, regs |-> ZeroRegisters]]
        /\ ThreadCreate(p, 0) /\ tids[p] = 0
    BY <1>4 DEF FirstThread, CreateThread
  <2>2. exec # Null => exec # <<p, 0>>
    <3>1. 0 \in Tid /\ 0 \notin Slot(p).threads
      BY <2>1, PidIs DEF ThreadCreate
    <3>2. context[<<p, 0>>] = Null
      BY <3>1 DEF Contexts, ContextsOf
    <3>3. QED
      BY <3>2 DEF Contexts
  <2>3. exec # Null => context'[exec] = context[exec]
    BY <2>1, <2>2
  <2>4. QED
    BY <1>1, <2>1, <2>3
<1>5. ASSUME NEW x \in Thread, Kill(x)
      PROVE  Goal
  <2>1. /\ UNCHANGED <<exec, eviction, dispatch, petition>> /\ exec # x
        /\ context' = [context EXCEPT ![x] = Null]
    BY <1>5 DEF Kill, DestroyThread
  <2>2. QED
    BY <1>1, <2>1
<1>6. ASSUME Handled, UNCHANGED dispatch, petition' \in {petition, exec}
      PROVE  Goal
  BY <1>1, <1>6 DEF Handled, Kernel
<1>7. ASSUME \/ \E p \in Pid : HandleCreate(p) \/ HandleRefused(p)
             \/ HandleDump \/ HandleOther \/ HandleExit
      PROVE  Handled /\ UNCHANGED dispatch /\ petition' \in {petition, exec}
  BY <1>7 DEF HandleCreate, HandleRefused, HandleDump, HandleOther, HandleExit,
              CreateThread, DestroyThread, userVars
<1>8. ASSUME NEW x \in Thread, Dispatch(x)
      PROVE  Goal
  BY <1>1, <1>8 DEF Dispatch, userVars
<1>9. ASSUME NEW kind \in {"QUANTUM", "KILL"}, SendInterrupt(kind)
      PROVE  Goal
  BY <1>1, <1>9 DEF SendInterrupt, userVars
<1>10. QED
  BY <1>2, <1>3, <1>4, <1>5, <1>6, <1>7, <1>8, <1>9, Zenon DEF KernelStep

LEMMA KernelTypes ==
  ASSUME MemoryInv, Kernel, Cycle, Types, Contexts, KernelStep
  PROVE  Types'
<1>1. UNCHANGED <<mainMemory, dump, cycleVars, flagVars>>
  BY KernelSpaces
<1>2. /\ eviction' \in {eviction, Null} /\ petition' \in Thread \cup {Null}
  BY KernelMoves
<1>3. context' \in [Thread -> Context \cup {Null}]
  <2>1. context \in [Thread -> Context \cup {Null}]
    BY DEF Types
  <2>2. ASSUME NEW p \in Pid, NEW t \in Tid, CreateThread(p, t), t = tids[p]
        PROVE  context' \in [Thread -> Context \cup {Null}]
    <3>1. PICK c \in Context : context' = [context EXCEPT ![<<p, t>>] = c]
      BY <2>2, ThreadMade
    <3>2. QED
      BY <2>1, <3>1
  <2>3. ASSUME NEW x \in Thread, DestroyThread(x)
        PROVE  context' \in [Thread -> Context \cup {Null}]
    <3>1. context' = [context EXCEPT ![x] = Null]
      BY <2>3, ThreadGone
    <3>2. QED
      BY <2>1, <3>1
  <2>4. ASSUME NEW p \in Pid, Makes(p)
        PROVE  context' \in [Thread -> Context \cup {Null}]
    BY <2>2, <2>4 DEF Makes
  <2>5. ASSUME UNCHANGED context
        PROVE  context' \in [Thread -> Context \cup {Null}]
    BY <2>1, <2>5
  <2>6. /\ \A p \in Pid, size \in Sizes : CreateProcess(p, size) => UNCHANGED context
        /\ \A p \in Pid : DestroyProcess(p) => UNCHANGED context
    BY DEF CreateProcess, DestroyProcess, userVars
  <2>7. QED
    BY <2>3, <2>4, <2>5, <2>6, KernelIsAll, Zenon DEF KernelIs
<1>4. sent' # Null => sent'.kind \in {"QUANTUM", "KILL"}
  <2>1. ASSUME NEW kind \in {"QUANTUM", "KILL"}, SendInterrupt(kind)
        PROVE  sent'.kind \in {"QUANTUM", "KILL"}
    BY <2>1 DEF SendInterrupt
  <2>2. sent' = sent \/ \E kind \in {"QUANTUM", "KILL"} : SendInterrupt(kind)
    BY DEF KernelStep, CreateProcess, DestroyProcess, FirstThread, HandleCreate,
           HandleRefused, HandleDump, HandleOther, HandleExit, Dispatch, Kill,
           CreateThread, DestroyThread, kernelVars
  <2>3. QED
    BY <2>1, <2>2 DEF Types
<1>5. QED
  BY <1>1, <1>2, <1>3, <1>4 DEF Types, cycleVars, flagVars

\* The contexts of a process that nobody touches.
LEMMA ContextsStay ==
  ASSUME NEW p \in Pid, ContextsOf(p), Untouched(p),
         \A t \in Tid : context'[<<p, t>>] # Null <=> context[<<p, t>>] # Null,
         tids[p] \in Nat, tids'[p] \in Nat, tids[p] <= tids'[p],
         corrupt => corrupt', MemoryInv
  PROVE  ContextsOf(p)'
<1>1. p \in Nat /\ Tid \subseteq Nat
  BY PidIs
<1>2. CASE Known(p)
  <2>1. /\ Known(p)' /\ Slot(p)'.count = Slot(p).count
        /\ Slot(p)'.threads = Slot(p).threads
        /\ Slot(p).count \in Nat /\ Slot(p).threads \in SUBSET Tid
    BY <1>1, <1>2, SlotIs DEF Untouched, SameSpace
  <2>2. /\ Slot(p).count <= tids[p]
        /\ \A t \in Slot(p).threads : t < tids[p] /\ (~corrupt => t < Slot(p).count)
    BY <1>2 DEF ContextsOf
  <2>3. /\ Slot(p).count <= tids'[p]
        /\ \A t \in Slot(p).threads : t < tids'[p] /\ (~corrupt' => t < Slot(p).count)
    <3>1. Slot(p).count <= tids'[p]
      BY <2>1, <2>2
    <3>2. ASSUME NEW t \in Slot(p).threads
          PROVE  t < tids'[p] /\ (~corrupt' => t < Slot(p).count)
      <4>1. t \in Nat
        BY <1>1, <2>1
      <4>2. t < tids[p] /\ (~corrupt => t < Slot(p).count)
        BY <2>2
      <4>3. t < tids'[p]
        BY <4>1, <4>2
      <4>4. QED
        BY <4>2, <4>3
    <3>3. QED
      BY <3>1, <3>2
  <2>4. \A t \in Tid : context'[<<p, t>>] # Null <=> t \in Slot(p).threads
    BY <1>2 DEF ContextsOf
  <2>5. QED
    BY <2>1, <2>3, <2>4 DEF ContextsOf
<1>3. CASE ~Known(p)
  BY <1>3 DEF ContextsOf, Untouched, SameSpace
<1>4. QED
  BY <1>2, <1>3

LEMMA MadeContexts ==
  ASSUME MemoryInv, Kernel, Types, NEW p \in Pid, Makes(p), \A q \in Pid : ContextsOf(q)
  PROVE  \A q \in Pid : ContextsOf(q)'
<1>1. PICK t \in Tid : t = tids[p] /\ CreateThread(p, t)
  BY DEF Makes
<1>2. /\ ~corrupt /\ Known(p) /\ t \notin Slot(p).threads
      /\ corrupt' = (t > Slot(p).count)
      /\ SameSpace(p) /\ Slot(p)'.count = Slot(p).count + 1
      /\ Slot(p)'.threads = Slot(p).threads \cup {t}
      /\ \A q \in Nat \ {p} : Untouched(q)
      /\ tids' = [tids EXCEPT ![p] = t + 1]
  BY <1>1, ThreadMade
<1>3. PICK c \in Context : context' = [context EXCEPT ![<<p, t>>] = c]
  BY <1>1, ThreadMade
<1>4. /\ tids \in [Pid -> Nat] /\ Pid \subseteq Nat /\ Tid \subseteq Nat /\ p \in Nat
      /\ context \in [Thread -> Context \cup {Null}] /\ c # Null
  BY PidIs, NullAssumption DEF Kernel, Types
<1>5. /\ Known(p)' /\ Slot(p).count \in Nat /\ Slot(p).threads \in SUBSET Tid
  BY <1>2, <1>4, SlotIs, Zenon DEF SameSpace
<1>6. ContextsOf(p)'
  <2>1. /\ Slot(p).count <= t
        /\ \A u \in Slot(p).threads : u < t /\ u < Slot(p).count
    BY <1>1, <1>2 DEF ContextsOf
  <2>2. tids'[p] = t + 1
    BY <1>2, <1>4
  <2>3. Slot(p).count + 1 <= t + 1
    BY <1>4, <1>5, <2>1
  <2>4. ASSUME NEW u \in Slot(p).threads \cup {t}
        PROVE  u < t + 1 /\ (~corrupt' => u < Slot(p).count + 1)
    <3>1. t \in Nat /\ u \in Nat
      BY <1>4, <1>5
    <3>2. CASE u = t
      <4>1. t < t + 1 /\ (~(t > Slot(p).count) => t < Slot(p).count + 1)
        BY <1>5, <3>1
      <4>2. QED
        BY <1>2, <3>2, <4>1, Zenon
    <3>3. CASE u \in Slot(p).threads
      <4>1. u < t /\ u < Slot(p).count
        BY <2>1, <3>3
      <4>2. u < t + 1 /\ u < Slot(p).count + 1
        BY <1>5, <3>1, <4>1
      <4>3. QED
        BY <4>2
    <3>4. QED
      BY <3>2, <3>3
  <2>5. ASSUME NEW u \in Tid
        PROVE  context'[<<p, u>>] # Null <=> u \in Slot(p).threads \cup {t}
    <3>1. <<p, u>> \in Thread /\ <<p, t>> \in Thread
      BY PidIs
    <3>2. CASE u = t
      BY <1>3, <1>4, <3>1, <3>2
    <3>3. CASE u # t
      <4>1. context'[<<p, u>>] = context[<<p, u>>]
        BY <1>3, <1>4, <3>1, <3>3
      <4>2. QED
        BY <1>2, <3>3, <4>1 DEF ContextsOf
    <3>4. QED
      BY <3>2, <3>3
  <2>6. QED
    BY <1>2, <1>5, <2>2, <2>3, <2>4, <2>5 DEF ContextsOf
<1>7. ASSUME NEW q \in Pid, q # p
      PROVE  ContextsOf(q)'
  <2>1. Untouched(q)
    BY <1>2, <1>4, <1>7
  <2>2. tids[q] \in Nat /\ tids'[q] = tids[q]
    BY <1>2, <1>4, <1>7
  <2>3. ASSUME NEW u \in Tid
        PROVE  context'[<<q, u>>] = context[<<q, u>>]
    <3>1. <<q, u>> \in Thread /\ <<q, u>> # <<p, t>>
      BY <1>7, PidIs
    <3>2. QED
      BY <1>3, <1>4, <3>1
  <2>4. QED
    BY <1>2, <2>1, <2>2, <2>3, ContextsStay
<1>8. QED
  BY <1>6, <1>7

LEMMA GoneContexts ==
  ASSUME MemoryInv, Kernel, Types, NEW x \in Thread, DestroyThread(x),
         \A q \in Pid : ContextsOf(q)
  PROVE  \A q \in Pid : ContextsOf(q)'
<1>1. PICK p \in Pid, t \in Tid : p = x[1] /\ t = x[2] /\ x = <<p, t>>
  BY PidIs
<1>2. /\ ~corrupt /\ ~corrupt' /\ SameSpace(p)
      /\ Known(p) => /\ Slot(p)'.count = Slot(p).count
                     /\ Slot(p)'.threads = IF t < Slot(p).count
                                           THEN Slot(p).threads \ {t}
                                           ELSE Slot(p).threads
      /\ \A q \in Nat \ {p} : Untouched(q)
      /\ context' = [context EXCEPT ![x] = Null] /\ tids' = tids
  BY <1>1, ThreadGone
<1>3. /\ tids \in [Pid -> Nat] /\ Pid \subseteq Nat /\ Tid \subseteq Nat /\ p \in Nat
      /\ context \in [Thread -> Context \cup {Null}]
  BY PidIs DEF Kernel, Types
<1>4. ASSUME NEW q \in Pid, NEW u \in Tid
      PROVE  context'[<<q, u>>] = IF q = p /\ u = t THEN Null ELSE context[<<q, u>>]
  <2>1. <<q, u>> \in Thread
    BY PidIs
  <2>2. QED
    BY <1>1, <1>2, <1>3, <2>1
<1>5. ContextsOf(p)'
  <2>1. CASE Known(p)
    <3>1. /\ Known(p)' /\ Slot(p).count \in Nat /\ Slot(p).threads \in SUBSET Tid
      BY <1>2, <1>3, <2>1, SlotIs, Zenon DEF SameSpace
    <3>2. /\ Slot(p).count <= tids[p]
          /\ \A u \in Slot(p).threads : u < tids[p] /\ u < Slot(p).count
      BY <1>2, <2>1 DEF ContextsOf
    <3>3. Slot(p)'.threads = Slot(p).threads \ {t}
      <4>1. t \in Slot(p).threads => t < Slot(p).count
        BY <3>2
      <4>2. QED
        BY <1>2, <2>1, <4>1
    <3>4. \A u \in Tid : context'[<<p, u>>] # Null <=> u \in Slot(p).threads \ {t}
      BY <1>4, <2>1 DEF ContextsOf
    <3>5. QED
      BY <1>2, <2>1, <3>1, <3>2, <3>3, <3>4 DEF ContextsOf
  <2>2. CASE ~Known(p)
    <3>1. ~Known(p)'
      BY <1>2, <2>2 DEF SameSpace
    <3>2. \A u \in Tid : context'[<<p, u>>] = Null
      BY <1>4, <2>2 DEF ContextsOf
    <3>3. QED
      BY <3>1, <3>2 DEF ContextsOf
  <2>3. QED
    BY <2>1, <2>2
<1>6. ASSUME NEW q \in Pid, q # p
      PROVE  ContextsOf(q)'
  <2>1. Untouched(q) /\ tids[q] \in Nat /\ tids'[q] = tids[q]
    BY <1>2, <1>3, <1>6
  <2>2. \A u \in Tid : context'[<<q, u>>] = context[<<q, u>>]
    BY <1>4, <1>6
  <2>3. QED
    BY <1>2, <2>1, <2>2, ContextsStay
<1>7. QED
  BY <1>5, <1>6

\* The TIDs the kernel has given only grow.
LEMMA KernelTids ==
  ASSUME Kernel, KernelStep
  PROVE  \A q \in Pid : tids[q] \in Nat /\ tids'[q] \in Nat /\ tids[q] <= tids'[q]
<1>1. tids \in [Pid -> Nat]
  BY DEF Kernel
<1>2. ASSUME NEW p \in Pid, tids' = [tids EXCEPT ![p] = tids[p] + 1]
      PROVE  \A q \in Pid : tids[q] \in Nat /\ tids'[q] \in Nat /\ tids[q] <= tids'[q]
  BY <1>1, <1>2
<1>3. ASSUME UNCHANGED tids
      PROVE  \A q \in Pid : tids[q] \in Nat /\ tids'[q] \in Nat /\ tids[q] <= tids'[q]
  BY <1>1, <1>3
<1>4. \A p \in Pid : FirstThread(p) \/ HandleCreate(p) \/ HandleRefused(p)
        => tids' = [tids EXCEPT ![p] = tids[p] + 1]
  BY DEF FirstThread, HandleCreate, HandleRefused, CreateThread
<1>5. \/ UNCHANGED tids
      \/ \E p \in Pid : FirstThread(p) \/ HandleCreate(p) \/ HandleRefused(p)
  BY DEF KernelStep, CreateProcess, DestroyProcess, Dispatch, Kill, SendInterrupt,
         HandleDump, HandleOther, HandleExit, DestroyThread, kernelVars
<1>6. QED
  BY <1>2, <1>3, <1>4, <1>5, Zenon

LEMMA KernelContexts ==
  ASSUME MemoryInv, Kernel, Cycle, Types, Contexts, KernelStep
  PROVE  Contexts'
<1> DEFINE All == \A q \in Pid : ContextsOf(q)
<1>1. All /\ Pid \subseteq Nat /\ Tid \subseteq Nat /\ tids \in [Pid -> Nat]
  BY PidIs DEF Contexts, Kernel
<1>2. Kernel'
  BY KernelKept
<1>3. ASSUME NEW p \in Pid, NEW size \in Sizes, CreateProcess(p, size)
      PROVE  All'
  <2>1. ProcessCreate(p, size) /\ p = Len(process) /\ UNCHANGED <<context, tids>>
    BY <1>3 DEF CreateProcess, userVars, kernelVars
  <2>2. /\ ~corrupt /\ ~corrupt' /\ ~Known(p) /\ Known(p)'
        /\ Slot(p)'.count = 0 /\ Slot(p)'.threads = {}
        /\ \A q \in Nat \ {p} : Untouched(q)
    BY <2>1, CreateEffect
  <2>3. ContextsOf(p)'
    <3>1. \A t \in Tid : context[<<p, t>>] = Null
      BY <1>1, <2>2 DEF ContextsOf
    <3>2. tids'[p] \in Nat /\ 0 <= tids'[p]
      BY <1>1, <2>1
    <3>3. QED
      BY <2>1, <2>2, <3>1, <3>2 DEF ContextsOf
  <2>4. ASSUME NEW q \in Pid, q # p PROVE ContextsOf(q)'
    <3>1. Untouched(q) /\ ContextsOf(q) /\ tids[q] \in Nat /\ tids'[q] = tids[q]
      BY <1>1, <2>1, <2>2, <2>4
    <3>2. QED
      BY <2>1, <2>2, <3>1, ContextsStay
  <2>5. QED
    BY <2>3, <2>4
<1>4. ASSUME NEW p \in Pid, DestroyProcess(p)
      PROVE  All'
  <2>1. /\ ProcessDestroy(p) /\ Slot(p).threads = {} /\ UNCHANGED <<context, tids>>
    BY <1>4 DEF DestroyProcess, userVars, kernelVars
  <2>2. /\ ~corrupt /\ ~corrupt' /\ Known(p) /\ ~Known(p)'
        /\ \A q \in Nat \ {p} : Untouched(q)
    BY <1>1, <2>1, DestroyEffect
  <2>3. ContextsOf(p)'
    <3>1. \A t \in Tid : context[<<p, t>>] = Null
      BY <1>1, <2>1, <2>2 DEF ContextsOf
    <3>2. QED
      BY <2>1, <2>2, <3>1 DEF ContextsOf
  <2>4. ASSUME NEW q \in Pid, q # p PROVE ContextsOf(q)'
    <3>1. Untouched(q) /\ ContextsOf(q) /\ tids[q] \in Nat /\ tids'[q] = tids[q]
      BY <1>1, <2>1, <2>2, <2>4
    <3>2. QED
      BY <2>1, <2>2, <3>1, ContextsStay
  <2>5. QED
    BY <2>3, <2>4
<1>5. ASSUME NEW p \in Pid, Makes(p)
      PROVE  All'
  BY <1>1, <1>5, MadeContexts
<1>6. ASSUME NEW x \in Thread, DestroyThread(x)
      PROVE  All'
  BY <1>1, <1>6, GoneContexts
<1>7. ASSUME UNCHANGED <<memVars, mainMemory, context, dump, cycleVars, flagVars>>
      PROVE  All'
  <2>1. UNCHANGED <<table, process, corrupt, context>>
    BY <1>7 DEF memVars
  <2>2. \A q \in Pid : tids[q] \in Nat /\ tids'[q] \in Nat /\ tids[q] <= tids'[q]
    BY <1>1, <1>2, <1>7, KernelTids
  <2>3. \A q \in Nat : Untouched(q)
    BY <2>1, TablesStay
  <2>4. ASSUME NEW q \in Pid PROVE ContextsOf(q)'
    BY <1>1, <2>1, <2>2, <2>3, ContextsStay
  <2>5. QED
    BY <2>4
<1>8. All'
  BY <1>3, <1>4, <1>5, <1>6, <1>7, KernelIsAll, Zenon DEF KernelIs
<1>9. exec' # Null => context'[exec'] # Null
  <2>1. CASE exec # Null
    BY <2>1, KernelMoves DEF Contexts
  <2>2. CASE exec = Null
    <3>1. ASSUME NEW x \in Thread, Dispatch(x)
          PROVE  exec' # Null => context'[exec'] # Null
      BY <3>1 DEF Dispatch, userVars
    <3>2. (\A x \in Thread : ~ Dispatch(x)) => exec' = Null
      BY <2>2 DEF KernelStep, CreateProcess, DestroyProcess, FirstThread, HandleCreate,
                  HandleRefused, Kill, SendInterrupt, HandleDump, HandleOther,
                  HandleExit, Handled, kernelVars
    <3>3. QED
      BY <3>1, <3>2
  <2>3. QED
    BY <2>1, <2>2
<1>10. QED
  BY <1>8, <1>9, Zenon DEF Contexts

LEMMA KernelMounted ==
  ASSUME MemoryInv, Kernel, Cycle, Types, Contexts, Mounted, KernelStep
  PROVE  Mounted'
<1>1. SUFFICES ASSUME OnBoard'
               PROVE  (/\ Has(PID, TID)
                       /\ EXEC_CONTEXT.base = PartitionOf(PID).base
                       /\ EXEC_CONTEXT.limit = PartitionOf(PID).size)'
  BY Zenon DEF Mounted
<1>2. UNCHANGED <<cpu, PID, TID, EXEC_CONTEXT>>
  BY KernelSpaces DEF cycleVars
<1>3. OnBoard /\ exec = <<PID, TID>> /\ exec # Null
  BY <1>1, <1>2 DEF OnBoard, Cycle
<1>4. exec' # Null /\ context'[exec'] # Null
  <2>1. Cycle' /\ Contexts'
    BY KernelKept, KernelContexts
  <2>2. exec' # Null
    BY <1>1, <2>1 DEF OnBoard, Cycle
  <2>3. QED
    BY <2>1, <2>2 DEF Contexts
<1>5. exec' = <<PID, TID>>
  BY <1>3, <1>4, KernelMoves
<1>6. PICK p \in Pid, t \in Tid : p = PID /\ t = TID
  <2>1. <<PID, TID>> \in Pid \X Tid
    BY <1>3 DEF Kernel, Thread
  <2>2. QED
    BY <2>1
<1>7. Known(p)' /\ t \in Slot(p)'.threads
  <2>1. ContextsOf(p)'
    BY KernelContexts DEF Contexts
  <2>2. context'[<<p, t>>] # Null
    BY <1>4, <1>5, <1>6
  <2>3. QED
    BY <2>1, <2>2 DEF ContextsOf
<1>8. /\ Known(p) /\ t < Slot(p).count /\ EXEC_CONTEXT.base = PartitionOf(p).base
      /\ EXEC_CONTEXT.limit = PartitionOf(p).size
  BY <1>3, <1>6 DEF Mounted, Has
<1>9. /\ SameSpace(p) /\ Slot(p)'.count \in Nat /\ Slot(p).count \in Nat
      /\ Slot(p).count <= Slot(p)'.count
  BY <1>7, <1>8, KernelSpaces
<1>10. t < Slot(p)'.count
  BY <1>8, <1>9, PidIs
<1>11. PartitionOf(p)' = PartitionOf(p)
  BY <1>8, <1>9 DEF SameSpace
<1>12. /\ Has(p, t)' /\ EXEC_CONTEXT'.base = PartitionOf(p)'.base
       /\ EXEC_CONTEXT'.limit = PartitionOf(p)'.size
  BY <1>2, <1>7, <1>8, <1>10, <1>11 DEF Has
<1>13. p = PID' /\ t = TID'
  BY <1>2, <1>6
<1>14. QED
  BY <1>12, <1>13, Zenon

LEMMA KernelDumping ==
  ASSUME MemoryInv, Kernel, Cycle, Types, Dumping, KernelStep
  PROVE  Dumping'
<1>1. UNCHANGED dump
  BY KernelSpaces
<1>2. SUFFICES ASSUME dump # Null PROVE Known(dump.thread[1])'
  BY <1>1 DEF Dumping
<1>3. PICK p \in Pid : p = dump.thread[1]
  <2>1. dump.thread \in Thread
    BY <1>2 DEF Types, Dump
  <2>2. QED
    BY <2>1, PidIs
<1>4. Known(p)
  BY <1>2, <1>3 DEF Dumping
<1>5. Known(p)'
  BY <1>2, <1>4, KernelSpaces
<1>6. p = dump'.thread[1]
  BY <1>1, <1>3
<1>7. QED
  BY <1>5, <1>6, Zenon

LEMMA KernelCalling ==
  ASSUME MemoryInv, Kernel, Cycle, Types, Contexts, Calling, KernelStep
  PROVE  Calling'
<1>1. UNCHANGED <<cpu, PID, TID, EXEC_CONTEXT, opcode, SYSCALL_CALLED,
                  SYSCALL_INSTRUCTION, EVICTION_REASON>>
  BY KernelSpaces DEF cycleVars
<1>2. Cycle'
  BY KernelKept
<1>3. ASSUME cpu \in {"CHECK", "UPDATE", "EVICT"}
      PROVE  Saved' = Saved
  <2>1. exec = <<PID, TID>> /\ exec # Null /\ exec' # Null
    BY <1>1, <1>2, <1>3 DEF Cycle
  <2>2. context'[exec] = context[exec]
    BY <2>1, KernelMoves
  <2>3. QED
    BY <1>1, <2>1, <2>2 DEF Saved
<1>4. ASSUME eviction' # Null
      PROVE  Delivers(eviction'.reason, eviction'.call, context'[exec'].code,
                      context'[exec'].regs)
  <2>1. eviction' = eviction /\ exec # Null /\ exec' # Null
    BY <1>2, <1>4, KernelMoves DEF Cycle
  <2>2. exec' = exec /\ context'[exec'] = context[exec]
    BY <2>1, KernelMoves
  <2>3. Delivers(eviction.reason, eviction.call, context[exec].code,
                 context[exec].regs)
    BY <1>4, <2>1 DEF Calling
  <2>4. QED
    BY <2>1, <2>2, <2>3, Zenon
<1>5. UNCHANGED regs
  BY <1>1 DEF regs
<1>6. QED
  BY <1>1, <1>3, <1>4, <1>5, Zenon DEF Calling

LEMMA KernelAnswered ==
  ASSUME MemoryInv, Kernel, Cycle, Types, Contexts, Answered, KernelStep
  PROVE  Answered'
<1>1. SUFFICES ASSUME exec' # Null, cpu' = "RECEIVE", dispatch' = Null, eviction' = Null
               PROVE  corrupt' /\ ~Has(exec[1], exec[2])'
  BY Zenon DEF Answered
<1>2. exec # Null /\ exec' = exec /\ dispatch = Null /\ eviction = Null
  BY <1>1, KernelMoves
<1>3. cpu = "RECEIVE"
  BY <1>1, KernelSpaces DEF cycleVars
<1>4. corrupt /\ ~Has(exec[1], exec[2])
  BY <1>2, <1>3 DEF Answered
<1>5. UNCHANGED <<table, process, corrupt>>
  BY <1>4, KernelSpaces
<1>6. QED
  BY <1>2, <1>4, <1>5 DEF Has, Known, Slot

-----------------------------------------------------------------------------
(* The steps of dumps *)

LEMMA DumpKept ==
  ASSUME MemoryInv, Kernel, Cycle, Types, Contexts, Mounted, Dumping, Calling,
         Answered, DumpStep
  PROVE  /\ Types' /\ Contexts' /\ Mounted' /\ Dumping' /\ Calling' /\ Answered'
<1>1. /\ UNCHANGED <<table, process, corrupt, mainMemory, context>>
      /\ UNCHANGED <<tids, exec, dispatch, eviction, sent>>
      /\ UNCHANGED <<cpu, PID, TID, EXEC_CONTEXT, opcode, SYSCALL_CALLED,
                     SYSCALL_INSTRUCTION, EVICTION_REASON, KERNEL_INTERRUPT>>
  BY DEF DumpStep, BeginDump, DumpByte, EndDump, memVars, kernelVars, cycleVars, flagVars
<1>2. Contexts' /\ Mounted' /\ Calling' /\ Answered'
  <2>1. Contexts'
    BY <1>1 DEF Contexts, ContextsOf, Has, Known, Slot
  <2>2. Mounted'
    <3>1. UNCHANGED Has(PID, TID)
      BY <1>1 DEF Has, Known, Slot
    <3>2. UNCHANGED PartitionOf(PID)
      BY <1>1 DEF PartitionOf, Slot
    <3>3. QED
      BY <1>1, <3>1, <3>2 DEF Mounted, OnBoard
  <2>3. Calling'
    BY <1>1 DEF Calling, Delivers, Saved, regs
  <2>4. Answered'
    BY <1>1 DEF Answered, Has, Known, Slot
  <2>5. QED
    BY <2>1, <2>2, <2>3, <2>4
<1>3. /\ dump' \in Dump \cup {Null} /\ petition' \in Thread \cup {Null}
      /\ dump' # Null => Known(dump'.thread[1])
  <2>1. 0 \in Nat /\ 0 \in Byte
    BY OpcodesAssumption DEF Byte
  <2>2. CASE BeginDump
    <3>1. /\ petition # Null /\ petition' = Null
          /\ dump' = IF Has(petition[1], petition[2])
                     THEN [thread |-> petition, read |-> 0, byte |-> 0] ELSE Null
      BY <2>2 DEF BeginDump
    <3>2. [thread |-> petition, read |-> 0, byte |-> 0] \in Dump
      BY <2>1, <3>1 DEF Types, Dump
    <3>3. [thread |-> petition, read |-> 0, byte |-> 0].thread[1] = petition[1]
      OBVIOUS
    <3>4. QED
      BY <3>1, <3>2, <3>3 DEF Has
  <2>3. CASE DumpByte
    <3>1. PICK d \in Dump : d = dump
      BY <2>3 DEF DumpByte, Types
    <3>2. PICK p \in Pid : p = d.thread[1]
      BY PidIs DEF Dump
    <3> DEFINE a == PartitionOf(p).base + d.read
    <3>3. /\ d # Null /\ d.read < Slot(p).size /\ petition' = petition
          /\ dump' = [d EXCEPT !.read = @ + 1, !.byte = mainMemory[a]]
      BY <2>3, <3>1, <3>2 DEF DumpByte
    <3>4. Known(p) /\ p \in Nat
      BY <3>1, <3>2, <3>3, PidIs DEF Dumping
    <3>5. a \in 0 .. MemorySize - 1
      <4>1. d.read \in Nat /\ MemorySize \in Nat
        BY MemoryAssumption DEF Dump
      <4>2. QED
        BY <3>3, <3>4, <4>1, PartitionFits
    <3>6. mainMemory[a] \in Byte
      BY <3>5 DEF Types
    <3> HIDE DEF a
    <3>7. dump' \in Dump /\ dump'.thread = d.thread
      <4>1. PICK n \in Nat : n = d.read + 1
        BY DEF Dump
      <4>2. PICK b \in Byte : b = mainMemory[a]
        BY <3>6
      <4>3. dump' = [d EXCEPT !.read = n, !.byte = b]
        BY <3>3, <4>1, <4>2, Zenon
      <4>4. [d EXCEPT !.read = n, !.byte = b] \in Dump
        BY DEF Dump
      <4>5. [d EXCEPT !.read = n, !.byte = b].thread = d.thread
        BY DEF Dump
      <4>6. QED
        BY <4>3, <4>4, <4>5, Zenon
    <3>8. petition' \in Thread \cup {Null}
      BY <3>3 DEF Types
    <3>9. Known(dump'.thread[1])
      BY <3>2, <3>4, <3>7, Zenon
    <3>10. QED
      BY <3>7, <3>8, <3>9
  <2>4. CASE EndDump
    BY <2>4 DEF EndDump, Types
  <2>5. QED
    BY <2>2, <2>3, <2>4 DEF DumpStep
<1>4. Types'
  BY <1>1, <1>3 DEF Types
<1>5. Dumping'
  BY <1>1, <1>3 DEF Dumping, Known
<1>6. QED
  BY <1>2, <1>4, <1>5

-----------------------------------------------------------------------------
(* The steps of the CPU *)

LEMMA RunningIs ==
  ASSUME Kernel, Cycle, Contexts, Types, cpu \notin {"RECEIVE", "TID"}
  PROVE  /\ exec = <<PID, TID>> /\ <<PID, TID>> \in Thread /\ exec # Null
         /\ PID \in Pid /\ TID \in Tid /\ PID \in Nat /\ TID \in Nat
         /\ Saved # Null /\ Saved \in Context
         /\ Known(PID) /\ TID \in Slot(PID).threads /\ TID < tids[PID]
         /\ corrupt \/ TID < Slot(PID).count
<1>1. exec = <<PID, TID>> /\ <<PID, TID>> \in Thread /\ exec # Null
  BY DEF Kernel, Cycle
<1>2. PID \in Pid /\ TID \in Tid /\ PID \in Nat /\ TID \in Nat
  <2>1. PID \in Pid /\ TID \in Tid
    BY <1>1 DEF Thread
  <2>2. QED
    BY <2>1, PidIs
<1>3. Saved # Null /\ Saved \in Context
  BY <1>1 DEF Contexts, Saved, Types
<1>4. PICK p \in Pid, t \in Tid : p = PID /\ t = TID
  BY <1>2
<1>5. /\ Known(p) /\ t \in Slot(p).threads /\ t < tids[p]
      /\ corrupt \/ t < Slot(p).count
  BY <1>3, <1>4 DEF Contexts, ContextsOf, Saved
<1>6. QED
  BY <1>1, <1>2, <1>3, <1>4, <1>5

\* What is fetched is an instruction of the program.
LEMMA FetchedIs ==
  ASSUME Kernel, Cycle, Contexts, Types, NEW op, Executing(op)
  PROVE  /\ cpu = "EXECUTE" /\ Fetched \in Instruction /\ Fetched.op \in op
         /\ regs \in Registers /\ regs["PC"] \in Nat /\ regs["PC"] \in Word
         /\ regs["PC"] < Len(Saved.code) /\ Fetched = Saved.code[regs["PC"] + 1]
         /\ Has(PID, TID)
<1>1. cpu = "EXECUTE" /\ Fetches /\ Fetched.op \in op
  BY DEF Executing
<1>2. regs \in Registers
  BY DEF Types, regs
<1>3. regs["PC"] \in Word /\ regs["PC"] \in Nat
  BY <1>2, OpcodesAssumption, ModulusIs DEF Registers, Word
<1>4. Saved.code \in Seq(Instruction)
  BY <1>1, RunningIs, ExecutionAssumption DEF Context
<1>5. Code = Saved.code
  BY DEF Code, Saved
<1>6. Has(PID, TID) /\ regs["PC"] < Len(Saved.code)
  BY <1>1, <1>5 DEF Fetches
<1>7. regs["PC"] + 1 \in 1 .. Len(Saved.code)
  BY <1>3, <1>4, <1>6
<1>8. Saved.code[regs["PC"] + 1] \in Instruction
  BY <1>4, <1>7, ElementOfSeq
<1>9. Fetched = Saved.code[regs["PC"] + 1]
  BY <1>5, Zenon DEF Fetched
<1>10. QED
  BY <1>1, <1>2, <1>3, <1>6, <1>8, <1>9

\* The address of an access that mmu lets pass lies in the partition.
LEMMA Translated ==
  ASSUME MemoryInv, Kernel, Cycle, Contexts, Types, Mounted, cpu = "EXECUTE",
         NEW a \in Word, ~Faults(a)
  PROVE  /\ a \in Nat /\ RegisterBytes \in Nat
         /\ a + RegisterBytes < PartitionOf(PID).size
         /\ Physical(a) = PartitionOf(PID).base + a
         /\ Physical(a) \in Nat
         /\ Physical(a) + RegisterBytes <= MemorySize
<1>1. PID \in Nat /\ Known(PID)
  BY RunningIs
<1>2. PICK base \in Nat, size \in Nat :
        /\ base = PartitionOf(PID).base /\ size = PartitionOf(PID).size
        /\ base + size <= MemorySize
  BY <1>1, PartitionFits
<1>3. EXEC_CONTEXT.base = base /\ EXEC_CONTEXT.limit = size
  BY <1>2 DEF Mounted, OnBoard
<1>4. a \in Nat /\ RegisterBytes \in Nat /\ MemorySize \in Nat
  BY OpcodesAssumption, MemoryAssumption, ModulusIs DEF Word
<1>5. ~ (base + a + RegisterBytes >= base + size)
  BY <1>3 DEF Faults
<1>6. a + RegisterBytes < size /\ base + a + RegisterBytes <= MemorySize
      /\ base + a \in Nat
  BY <1>2, <1>4, <1>5
<1>7. Physical(a) = base + a
  BY <1>3 DEF Physical
<1>8. QED
  BY <1>2, <1>4, <1>6, <1>7

LEMMA AddressIs ==
  ASSUME NEW i \in Instruction, regs \in Registers
  PROVE  AddressOf(i) \in Word
BY DEF AddressOf, Instruction, Registers

\* What mmu and memory answer to a read.
Loaded(a) == [k \in 1 .. RegisterBytes |-> mainMemory[Physical(a) + k - 1]]

LEMMA LoadedIs ==
  ASSUME MemoryInv, Kernel, Cycle, Contexts, Types, Mounted, cpu = "EXECUTE",
         NEW a \in Word, ~Faults(a)
  PROVE  Loaded(a) \in [1 .. RegisterBytes -> Byte] /\ WordOf(Loaded(a)) \in Word
<1>1. PICK b \in Nat : b = Physical(a) /\ b + RegisterBytes <= MemorySize
  BY Translated
<1>2. RegisterBytes \in Nat /\ MemorySize \in Nat
  BY OpcodesAssumption, MemoryAssumption
<1>3. ASSUME NEW k \in 1 .. RegisterBytes
      PROVE  mainMemory[b + k - 1] \in Byte
  <2>1. b + k - 1 \in 0 .. MemorySize - 1
    BY <1>1, <1>2
  <2>2. QED
    BY <2>1 DEF Types
<1>4. Loaded(a) \in [1 .. RegisterBytes -> Byte]
  BY <1>1, <1>3 DEF Loaded
<1>5. QED
  BY <1>4, WordOfBytes

LEMMA OverwrittenIs ==
  ASSUME Types, NEW a \in Nat, NEW bytes \in [1 .. RegisterBytes -> Byte]
  PROVE  /\ Overwritten(a, bytes) \in [0 .. MemorySize - 1 -> Byte]
         /\ \A b \in 0 .. MemorySize - 1 :
              Overwritten(a, bytes)[b] = IF b - a + 1 \in 1 .. RegisterBytes
                                         THEN bytes[b - a + 1] ELSE mainMemory[b]
<1>1. /\ mainMemory \in [0 .. MemorySize - 1 -> Byte]
      /\ DOMAIN mainMemory = 0 .. MemorySize - 1 /\ DOMAIN bytes = 1 .. RegisterBytes
  BY DEF Types
<1>2. \A b \in 0 .. MemorySize - 1 :
        (IF b - a + 1 \in 1 .. RegisterBytes THEN bytes[b - a + 1] ELSE mainMemory[b])
          \in Byte
  BY <1>1
<1>3. Overwritten(a, bytes) =
        [b \in 0 .. MemorySize - 1 |->
           IF b - a + 1 \in 1 .. RegisterBytes THEN bytes[b - a + 1] ELSE mainMemory[b]]
  BY <1>1, Zenon DEF Overwritten
<1>4. QED
  BY <1>2, <1>3

\* The registers after an instruction that succeeds.
LEMMA NewRegisters ==
  ASSUME Types, NEW r \in Registers
  PROVE  /\ [EXEC_CONTEXT EXCEPT !.regs = r]
              \in [regs : Registers, base : Nat, limit : Nat]
         /\ [EXEC_CONTEXT EXCEPT !.regs = r].regs = r
         /\ [EXEC_CONTEXT EXCEPT !.regs = r].base = EXEC_CONTEXT.base
         /\ [EXEC_CONTEXT EXCEPT !.regs = r].limit = EXEC_CONTEXT.limit
BY DEF Types

\* What the instructions do: they go on with new registers, or fail with the
\* old ones; the PC of a call is already past it.
GoesOn(r, call) ==
  /\ cpu' = "CHECK" /\ r \in Registers
  /\ EXEC_CONTEXT' = [EXEC_CONTEXT EXCEPT !.regs = r]
  /\ SYSCALL_CALLED' = call /\ opcode' = Fetched.op
  /\ EVICTION_REASON' = EVICTION_REASON
ExecuteIs ==
  /\ cpu = "EXECUTE"
  /\ UNCHANGED <<memVars, context, dump, petition, kernelVars, flagVars, PID, TID>>
  /\ mainMemory' \in [0 .. MemorySize - 1 -> Byte]
  /\ \/ /\ \E r \in Registers : GoesOn(r, FALSE)
        /\ opcode' # "EXIT" /\ UNCHANGED SYSCALL_INSTRUCTION
     \/ /\ GoesOn(Advanced(regs), TRUE) /\ Has(PID, TID)
        /\ SYSCALL_INSTRUCTION' = Fetched /\ Fetched \in Instruction
        /\ Fetched = Saved.code[regs["PC"] + 1]
     \/ /\ cpu' \in {"UPDATE", "ABORTED"} /\ EVICTION_REASON' \in {"ERROR", "SEGFAULT"}
        /\ EXEC_CONTEXT' \in [regs : Registers, base : Nat, limit : Nat]
        /\ EXEC_CONTEXT'.base = EXEC_CONTEXT.base
        /\ EXEC_CONTEXT'.limit = EXEC_CONTEXT.limit
        /\ SYSCALL_INSTRUCTION' \in Instruction \cup {SYSCALL_INSTRUCTION}
        /\ UNCHANGED <<opcode, SYSCALL_CALLED>>
ExecuteStep ==
  \/ FetchFails \/ ExecuteRegisters \/ ExecuteCall \/ ExecuteBadCall
  \/ ExecuteBad \/ ExecuteRead \/ ExecuteWrite \/ ExecuteFaults

LEMMA ExecuteIsAll ==
  ASSUME MemoryInv, Kernel, Cycle, Types, Contexts, Mounted, ExecuteStep
  PROVE  ExecuteIs
<1>1. /\ regs \in Registers /\ mainMemory \in [0 .. MemorySize - 1 -> Byte]
      /\ EXEC_CONTEXT \in [regs : Registers, base : Nat, limit : Nat]
  BY DEF Types, regs
<1>2. CASE FetchFails \/ ExecuteBad \/ ExecuteFaults
  BY <1>1, <1>2 DEF FetchFails, ExecuteBad, ExecuteFaults, Executing, Fails, ExecuteIs,
                    userVars
<1>3. CASE ExecuteRegisters
  <2>1. Executing({"SET", "SUM", "SUB", "JNZ", "LOG"})
    BY <1>3 DEF ExecuteRegisters
  <2>2. /\ cpu = "EXECUTE" /\ Fetched \in Instruction
        /\ Fetched.op \in {"SET", "SUM", "SUB", "JNZ", "LOG"}
    BY <2>1, FetchedIs
  <2>3. Computed(regs, Fetched) \in Registers
    BY <1>1, <2>2, ComputedType
  <2>4. /\ Succeeds(Computed(regs, Fetched), FALSE)
        /\ UNCHANGED <<memVars, userVars, kernelVars, flagVars, PID, TID,
                       SYSCALL_INSTRUCTION>>
    BY <1>3 DEF ExecuteRegisters
  <2>5. GoesOn(Computed(regs, Fetched), FALSE) /\ opcode' # "EXIT"
    BY <2>2, <2>3, <2>4 DEF Succeeds, GoesOn
  <2>6. QED
    BY <1>1, <2>2, <2>3, <2>4, <2>5 DEF ExecuteIs, userVars
<1>4. CASE ExecuteCall
  <2>1. Executing({"CALL", "EXIT"})
    BY <1>4 DEF ExecuteCall
  <2>2. /\ cpu = "EXECUTE" /\ Fetched \in Instruction
        /\ Fetched.op \in {"CALL", "EXIT"} /\ Has(PID, TID)
        /\ Fetched = Saved.code[regs["PC"] + 1]
    BY <2>1, FetchedIs
  <2>3. Computed(regs, Fetched) = Advanced(regs) /\ Computed(regs, Fetched) \in Registers
    <3>1. Computed(regs, Fetched) = Advanced(regs)
      BY <2>2 DEF Computed
    <3>2. QED
      BY <1>1, <2>2, <3>1, ComputedType
  <2>4. /\ Succeeds(Computed(regs, Fetched), TRUE)
        /\ UNCHANGED <<memVars, userVars, kernelVars, flagVars, PID, TID>>
        /\ SYSCALL_INSTRUCTION' = Fetched
    BY <1>4 DEF ExecuteCall
  <2>5. GoesOn(Advanced(regs), TRUE)
    BY <2>3, <2>4 DEF Succeeds, GoesOn
  <2>6. QED
    BY <1>1, <2>2, <2>4, <2>5 DEF ExecuteIs, userVars
<1>5. CASE ExecuteBadCall
  <2>1. Executing({"BADCALL"})
    BY <1>5 DEF ExecuteBadCall
  <2>2. cpu = "EXECUTE" /\ Fetched \in Instruction
    BY <2>1, FetchedIs
  <2>3. Computed(regs, Fetched) \in Registers
    BY <1>1, <2>2, ComputedType
  <2>4. /\ EXEC_CONTEXT' \in [regs : Registers, base : Nat, limit : Nat]
        /\ EXEC_CONTEXT'.base = EXEC_CONTEXT.base
        /\ EXEC_CONTEXT'.limit = EXEC_CONTEXT.limit
    BY <1>5, <2>3, NewRegisters DEF ExecuteBadCall
  <2>5. /\ Fails("ERROR") /\ SYSCALL_INSTRUCTION' = Fetched
        /\ UNCHANGED <<memVars, userVars, kernelVars, flagVars, PID, TID, opcode,
                       SYSCALL_CALLED>>
    BY <1>5 DEF ExecuteBadCall
  <2>6. QED
    BY <1>1, <2>2, <2>4, <2>5 DEF ExecuteIs, Fails, userVars
<1>6. CASE ExecuteRead
  <2>1. Executing({"READ_MEM"}) /\ ~Faults(AddressOf(Fetched))
    BY <1>6 DEF ExecuteRead
  <2>2. cpu = "EXECUTE" /\ Fetched \in Instruction /\ Fetched.op = "READ_MEM"
    BY <2>1, FetchedIs
  <2>3. PICK a \in Word : a = AddressOf(Fetched)
    BY <1>1, <2>2, AddressIs
  <2>4. WordOf(Loaded(a)) \in Word
    BY <2>1, <2>2, <2>3, LoadedIs
  <2>5. Put(regs, Fetched.a, WordOf(Loaded(a))) \in Registers
    BY <1>1, <2>2, <2>4, PutType DEF Instruction
  <2>6. /\ Succeeds(Put(regs, Fetched.a, WordOf(Loaded(a))), FALSE)
        /\ UNCHANGED <<memVars, userVars, kernelVars, flagVars, PID, TID,
                       SYSCALL_INSTRUCTION>>
    BY <1>6, <2>3 DEF ExecuteRead, Loaded
  <2>7. GoesOn(Put(regs, Fetched.a, WordOf(Loaded(a))), FALSE) /\ opcode' # "EXIT"
    BY <2>2, <2>5, <2>6 DEF Succeeds, GoesOn
  <2>8. QED
    BY <1>1, <2>2, <2>5, <2>6, <2>7 DEF ExecuteIs, userVars
<1>7. CASE ExecuteWrite
  <2>1. Executing({"WRITE_MEM"}) /\ ~Faults(AddressOf(Fetched))
    BY <1>7 DEF ExecuteWrite
  <2>2. cpu = "EXECUTE" /\ Fetched \in Instruction /\ Fetched.op = "WRITE_MEM"
    BY <2>1, FetchedIs
  <2>3. PICK a \in Word : a = AddressOf(Fetched)
    BY <1>1, <2>2, AddressIs
  <2>4. PICK b \in Nat : b = Physical(a)
    BY <2>1, <2>2, <2>3, Translated
  <2>5. BytesOf(regs[Fetched.b]) \in [1 .. RegisterBytes -> Byte]
    <3>1. regs[Fetched.b] \in Word
      BY <1>1, <2>2 DEF Instruction, Registers
    <3>2. QED
      BY <3>1, BytesOfWord
  <2>6. mainMemory' \in [0 .. MemorySize - 1 -> Byte]
    <3>1. mainMemory' = Overwritten(b, BytesOf(regs[Fetched.b]))
      BY <1>7, <2>3, <2>4 DEF ExecuteWrite
    <3>2. QED
      BY <2>5, <3>1, OverwrittenIs
  <2>7. Advanced(regs) \in Registers
    <3>1. 0 \in Word /\ "PC" \in Register
      BY ModulusIs, OpcodesAssumption
    <3>2. QED
      BY <1>1, <3>1, PutType
  <2>8. /\ Succeeds(Advanced(regs), FALSE)
        /\ UNCHANGED <<memVars, context, dump, petition, kernelVars, flagVars, PID,
                       TID, SYSCALL_INSTRUCTION>>
    BY <1>7 DEF ExecuteWrite
  <2>9. GoesOn(Advanced(regs), FALSE) /\ opcode' # "EXIT"
    BY <2>2, <2>7, <2>8 DEF Succeeds, GoesOn
  <2>10. QED
    BY <2>2, <2>6, <2>7, <2>8, <2>9 DEF ExecuteIs
<1>8. QED
  BY <1>2, <1>3, <1>4, <1>5, <1>6, <1>7 DEF ExecuteStep

-----------------------------------------------------------------------------
(* Every step of the CPU, conjunct by conjunct *)

CpuStill == UNCHANGED <<table, process, corrupt, tids, exec, dump, petition>>

LEMMA CpuIs ==
  ASSUME CpuStep
  PROVE  /\ CpuStill
         /\ \/ ReceivePid \/ ReceiveTid \/ Reset \/ SeekContext \/ ContextRefused
            \/ ExecuteStep \/ Check \/ Update \/ Evict \/ ReceiveInterrupt
<1>1. CpuStill
  BY DEF CpuStep, ReceivePid, ReceiveTid, Reset, SeekContext, ContextRefused, FetchFails,
         ExecuteRegisters, ExecuteCall, ExecuteBadCall, ExecuteBad, ExecuteRead,
         ExecuteWrite, ExecuteFaults, Check, Update, Evict, ReceiveInterrupt, kernelVars,
         userVars, memVars, CpuStill
<1>2. QED
  BY <1>1 DEF CpuStep, ExecuteStep

\* What memory says of processes and threads is as before.
LEMMA CpuSees ==
  ASSUME CpuStill
  PROVE  \A p, t : /\ Known(p)' = Known(p) /\ Slot(p)' = Slot(p)
                   /\ PartitionOf(p)' = PartitionOf(p) /\ Has(p, t)' = Has(p, t)
BY DEF CpuStill, Known, Slot, PartitionOf, Has

\* The registers go back to the context, which stays a context.
LEMMA Updated ==
  ASSUME Kernel, Cycle, Contexts, Types, Mounted, Update
  PROVE  /\ regs \in Registers
         /\ context' = [context EXCEPT ![<<PID, TID>>] = [Saved EXCEPT !.regs = regs]]
         /\ [Saved EXCEPT !.regs = regs] \in Context
         /\ [Saved EXCEPT !.regs = regs].regs = regs
         /\ [Saved EXCEPT !.regs = regs].code = Saved.code
         /\ [Saved EXCEPT !.regs = regs] # Null
<1>1. cpu = "UPDATE" /\ Has(PID, TID)
  BY DEF Update, Goes, Mounted, OnBoard
<1>2. context' = [context EXCEPT ![<<PID, TID>>].regs = regs]
  BY <1>1 DEF Update
<1>3. context' = [context EXCEPT ![<<PID, TID>>] = [Saved EXCEPT !.regs = regs]]
  BY <1>2, Zenon DEF Saved
<1>4. Saved \in Context
  BY <1>1, RunningIs
<1>5. PICK r \in Registers : r = regs
  BY DEF Types, regs
<1>6. PICK s \in Context : s = Saved
  BY <1>4
<1>7. /\ [s EXCEPT !.regs = r] \in Context
      /\ [s EXCEPT !.regs = r].regs = r
      /\ [s EXCEPT !.regs = r].code = s.code
  BY DEF Context, Registers
<1>8. [s EXCEPT !.regs = r] # Null
  BY <1>7, NullAssumption
<1>9. QED
  BY <1>3, <1>5, <1>6, <1>7, <1>8, Zenon

\* What the contexts become in a step of the CPU.
LEMMA CpuContext ==
  ASSUME Kernel, Cycle, Contexts, Types, Mounted, CpuStep, ~Update
  PROVE  UNCHANGED context
BY DEF CpuStep, ReceivePid, ReceiveTid, Reset, SeekContext, ContextRefused, FetchFails,
       ExecuteRegisters, ExecuteCall, ExecuteBadCall, ExecuteBad, ExecuteRead,
       ExecuteWrite, ExecuteFaults, Check, Evict, ReceiveInterrupt, userVars

LEMMA VerdictIs ==
  ASSUME KERNEL_INTERRUPT \in {"NONE", "QUANTUM", "KILL"}, SYSCALL_CALLED \in BOOLEAN
  PROVE  /\ Verdict \in {"EXIT", "KILL", "SYSCALL", "QUANTUM", "NONE"}
         /\ Verdict = "EXIT" => opcode = "EXIT"
         /\ Verdict = "SYSCALL" => SYSCALL_CALLED
         /\ Verdict \in {"QUANTUM", "NONE"} => ~SYSCALL_CALLED
BY DEF Verdict

LEMMA CpuTypes ==
  ASSUME MemoryInv, Kernel, Cycle, Types, Contexts, Mounted, CpuStep
  PROVE  Types'
<1>1. CpuStill /\ UNCHANGED <<dump, petition>>
  BY CpuIs DEF CpuStill
<1>2. CASE ReceivePid \/ ReceiveTid \/ Reset \/ ContextRefused
  BY <1>1, <1>2 DEF ReceivePid, ReceiveTid, Reset, ContextRefused, ResetInterrupt, Goes,
                    Types, userVars, kernelVars, flagVars, Place
<1>3. CASE SeekContext
  <2>1. cpu = "CONTEXT" /\ cpu' = "EXECUTE"
    BY <1>3 DEF SeekContext, Goes
  <2>2. Saved \in Context /\ PID \in Nat /\ Known(PID)
    BY <2>1, RunningIs
  <2>3. /\ Saved.regs \in Registers
        /\ PartitionOf(PID).base \in Nat /\ PartitionOf(PID).size \in Nat
    BY <2>2, PartitionFits DEF Context, Registers
  <2>4. EXEC_CONTEXT' = [regs |-> Saved.regs, base |-> PartitionOf(PID).base,
                         limit |-> PartitionOf(PID).size]
    BY <1>3 DEF SeekContext, Saved
  <2>5. EXEC_CONTEXT' \in [regs : Registers, base : Nat, limit : Nat]
    BY <2>3, <2>4
  <2>6. QED
    BY <1>1, <1>3, <2>1, <2>5 DEF SeekContext, Types, userVars, kernelVars, flagVars, Place
<1>4. CASE ExecuteStep
  <2>1. ExecuteIs
    BY <1>4, ExecuteIsAll
  <2>2. EXEC_CONTEXT' \in [regs : Registers, base : Nat, limit : Nat]
    <3>1. ASSUME NEW r \in Registers, EXEC_CONTEXT' = [EXEC_CONTEXT EXCEPT !.regs = r]
          PROVE  EXEC_CONTEXT' \in [regs : Registers, base : Nat, limit : Nat]
      BY <3>1, NewRegisters
    <3>2. QED
      BY <2>1, <3>1 DEF ExecuteIs, GoesOn
  <2>3. /\ cpu' \in Place /\ EVICTION_REASON' \in Reason /\ SYSCALL_CALLED' \in BOOLEAN
        /\ SYSCALL_INSTRUCTION' \in Instruction \cup {Null}
    BY <2>1 DEF ExecuteIs, GoesOn, Types, Place, Reason
  <2>4. /\ mainMemory' \in [0 .. MemorySize - 1 -> Byte]
        /\ UNCHANGED <<context, dump, petition, eviction, sent, KERNEL_INTERRUPT>>
    BY <2>1 DEF ExecuteIs, kernelVars, flagVars
  <2>5. QED
    BY <2>2, <2>3, <2>4 DEF Types
<1>5. CASE Check
  <2>1. Verdict = "NONE" \/ Verdict \in Reason
    BY VerdictIs DEF Types, Reason
  <2>2. /\ cpu' \in Place /\ EVICTION_REASON' \in {EVICTION_REASON, Verdict}
        /\ EVICTION_REASON' = Verdict => Verdict # "NONE" \/ EVICTION_REASON = Verdict
        /\ UNCHANGED <<mainMemory, context, eviction, EXEC_CONTEXT, SYSCALL_CALLED, sent,
                       SYSCALL_INSTRUCTION, KERNEL_INTERRUPT>>
    BY <1>5 DEF Check, Fails, Place, userVars, kernelVars
  <2>3. QED
    BY <1>1, <2>1, <2>2 DEF Types
<1>6. CASE Update
  <2>1. context' \in [Thread -> Context \cup {Null}]
    <3>1. context \in [Thread -> Context \cup {Null}]
      BY DEF Types
    <3>2. PICK c \in Context : context' = [context EXCEPT ![<<PID, TID>>] = c]
      BY <1>6, Updated
    <3>3. QED
      BY <3>1, <3>2
  <2>2. QED
    BY <1>1, <1>6, <2>1 DEF Update, Goes, Types, Place, kernelVars, flagVars
<1>7. CASE Evict
  <2>1. [reason |-> EVICTION_REASON, call |-> SYSCALL_INSTRUCTION] \in Eviction
    BY DEF Types, Reason, Eviction
  <2>2. eviction' \in Eviction
    BY <1>7, <2>1 DEF Evict
  <2>3. QED
    BY <1>1, <1>7, <2>2 DEF Evict, Goes, Types, Place, userVars, flagVars
<1>8. CASE ReceiveInterrupt
  <2>1. KERNEL_INTERRUPT' \in {"NONE", "QUANTUM", "KILL"} /\ sent' = Null
    BY <1>8 DEF ReceiveInterrupt, Types
  <2>2. QED
    BY <1>1, <1>8, <2>1 DEF ReceiveInterrupt, Types, userVars, cycleVars
<1>9. QED
  BY <1>2, <1>3, <1>4, <1>5, <1>6, <1>7, <1>8, CpuIs

LEMMA CpuContexts ==
  ASSUME MemoryInv, Kernel, Cycle, Types, Contexts, Mounted, CpuStep
  PROVE  Contexts'
<1>1. CpuStill /\ UNCHANGED <<tids, exec, corrupt>>
  BY CpuIs DEF CpuStill
<1>2. ASSUME NEW p \in Pid
      PROVE  Known(p)' = Known(p) /\ Slot(p)' = Slot(p)
  BY <1>1, CpuSees
<1>3. \A x \in Thread : context'[x] # Null <=> context[x] # Null
  <2>1. CASE Update
    <3>1. PICK c \in Context : /\ context' = [context EXCEPT ![<<PID, TID>>] = c]
                               /\ c # Null
      BY <2>1, Updated
    <3>2. context[<<PID, TID>>] # Null
      BY <2>1, RunningIs DEF Update, Goes, Saved
    <3>3. QED
      BY <3>1, <3>2 DEF Types
  <2>2. CASE ~Update
    BY <2>2, CpuContext
  <2>3. QED
    BY <2>1, <2>2
<1>4. ASSUME NEW p \in Pid
      PROVE  ContextsOf(p)'
  <2>1. \A t \in Tid : <<p, t>> \in Thread
    BY DEF Thread
  <2>2. QED
    BY <1>1, <1>2, <1>3, <2>1 DEF Contexts, ContextsOf
<1>5. (exec # Null => context[exec] # Null)'
  BY <1>1, <1>3 DEF Contexts, Kernel
<1>6. QED
  BY <1>4, <1>5 DEF Contexts

LEMMA CpuMounted ==
  ASSUME MemoryInv, Kernel, Cycle, Types, Contexts, Mounted, CpuStep
  PROVE  Mounted'
<1>1. CpuStill
  BY CpuIs
<1>2. /\ Has(PID, TID)' = Has(PID', TID')
      /\ PartitionOf(PID)' = PartitionOf(PID')
  BY <1>1, CpuSees DEF CpuStill, Has, Known, Slot, PartitionOf
<1>3. CASE ReceivePid \/ ReceiveTid \/ Reset \/ ContextRefused \/ Evict
  <2>1. cpu' \in {"TID", "RESET", "CONTEXT", "RECEIVE"}
    BY <1>3 DEF ReceivePid, ReceiveTid, Reset, ContextRefused, Evict, Goes
  <2>2. QED
    BY <2>1 DEF Mounted, OnBoard
<1>4. CASE SeekContext
  <2>1. /\ PID' = PID /\ TID' = TID /\ Has(PID, TID)
        /\ EXEC_CONTEXT'.base = PartitionOf(PID).base
        /\ EXEC_CONTEXT'.limit = PartitionOf(PID).size
    BY <1>4 DEF SeekContext
  <2>2. QED
    BY <1>2, <2>1 DEF Mounted
<1>5. ASSUME cpu \in {"EXECUTE", "CHECK", "UPDATE", "ABORTED"}, UNCHANGED <<PID, TID>>,
             EXEC_CONTEXT'.base = EXEC_CONTEXT.base,
             EXEC_CONTEXT'.limit = EXEC_CONTEXT.limit
      PROVE  Mounted'
  BY <1>2, <1>5 DEF Mounted, OnBoard
<1>6. CASE ExecuteStep
  <2>1. ExecuteIs
    BY <1>6, ExecuteIsAll
  <2>2. cpu = "EXECUTE" /\ UNCHANGED <<PID, TID>>
    BY <2>1 DEF ExecuteIs
  <2>3. /\ EXEC_CONTEXT'.base = EXEC_CONTEXT.base
        /\ EXEC_CONTEXT'.limit = EXEC_CONTEXT.limit
    <3>1. ASSUME NEW r \in Registers, EXEC_CONTEXT' = [EXEC_CONTEXT EXCEPT !.regs = r]
          PROVE  /\ EXEC_CONTEXT'.base = EXEC_CONTEXT.base
                 /\ EXEC_CONTEXT'.limit = EXEC_CONTEXT.limit
      BY <3>1, NewRegisters
    <3>2. QED
      BY <2>1, <3>1 DEF ExecuteIs, GoesOn
  <2>4. QED
    BY <1>5, <2>2, <2>3
<1>7. CASE Check \/ Update
  <2>1. cpu \in {"CHECK", "UPDATE"} /\ UNCHANGED <<PID, TID, EXEC_CONTEXT>>
    BY <1>7 DEF Check, Update, Goes
  <2>2. QED
    BY <1>5, <2>1
<1>8. CASE ReceiveInterrupt
  <2>1. UNCHANGED <<cpu, PID, TID, EXEC_CONTEXT>>
    BY <1>8 DEF ReceiveInterrupt, cycleVars
  <2>2. QED
    BY <1>2, <2>1 DEF Mounted, OnBoard
<1>9. QED
  BY <1>3, <1>4, <1>6, <1>7, <1>8, CpuIs

LEMMA CpuAnswered ==
  ASSUME MemoryInv, Kernel, Cycle, Types, Contexts, Mounted, Answered, CpuStep
  PROVE  Answered'
<1>1. CpuStill /\ UNCHANGED <<exec, corrupt>>
  BY CpuIs DEF CpuStill
<1>2. Has(exec[1], exec[2])' = Has(exec[1], exec[2])
  BY <1>1, CpuSees DEF Has, Known, Slot, CpuStill
<1>3. CASE ContextRefused
  <2>1. cpu = "CONTEXT" /\ ~Has(PID, TID)
    BY <1>3 DEF ContextRefused, Goes
  <2>2. /\ exec = <<PID, TID>> /\ Known(PID) /\ TID \in Slot(PID).threads
        /\ corrupt \/ TID < Slot(PID).count
    BY <2>1, RunningIs
  <2>3. corrupt /\ ~Has(exec[1], exec[2])
    BY <2>1, <2>2 DEF Has
  <2>4. QED
    BY <1>1, <1>2, <2>3 DEF Answered
<1>4. CASE Evict
  <2>1. [reason |-> EVICTION_REASON, call |-> SYSCALL_INSTRUCTION] \in Eviction
    BY DEF Types, Reason, Eviction
  <2>2. eviction' # Null
    BY <1>4, <2>1, NullAssumption DEF Evict
  <2>3. QED
    BY <2>2 DEF Answered
<1>5. CASE ReceivePid \/ ReceiveTid \/ Reset \/ SeekContext \/ ExecuteStep \/ Check \/ Update
  <2>1. cpu' # "RECEIVE"
    BY <1>5, ExecuteIsAll DEF ReceivePid, ReceiveTid, Reset, SeekContext, ExecuteIs, GoesOn,
                              Check, Fails, Update, Goes
  <2>2. QED
    BY <2>1 DEF Answered
<1>6. CASE ReceiveInterrupt
  <2>1. UNCHANGED <<cpu, dispatch, eviction>>
    BY <1>6 DEF ReceiveInterrupt, cycleVars
  <2>2. QED
    BY <1>1, <1>2, <2>1 DEF Answered
<1>7. QED
  BY <1>3, <1>4, <1>5, <1>6, CpuIs

\* A call that is followed by the advance of the PC is found behind it.
LEMMA CallBehind ==
  ASSUME NEW r \in Registers, NEW code, NEW call, call = code[r["PC"] + 1]
  PROVE  Delivers("SYSCALL", call, code, Advanced(r))
<1>1. PICK n \in Word : n = r["PC"]
  BY OpcodesAssumption DEF Registers
<1>2. (((n + 1) % Modulus) - 1) % Modulus = n
  BY PcBack
<1>3. PICK m \in Word : m = (n + 1) % Modulus
  BY <1>1, Moduli, ModulusIs
<1>4. Advanced(r)["PC"] = m
  BY <1>1, <1>3, OpcodesAssumption DEF Advanced, Registers
<1>5. ((Advanced(r)["PC"] - 1) % Modulus) + 1 = n + 1
  BY <1>2, <1>3, <1>4
<1>6. call = code[n + 1]
  BY <1>1
<1>7. QED
  BY <1>5, <1>6 DEF Delivers

LEMMA CpuCalling ==
  ASSUME MemoryInv, Kernel, Cycle, Types, Contexts, Mounted, Calling, CpuStep
  PROVE  Calling'
<1> DEFINE NoCall == cpu \in {"TID", "RESET", "CONTEXT", "EXECUTE"}
                       => SYSCALL_INSTRUCTION = Null
           Sent == eviction # Null =>
                     Delivers(eviction.reason, eviction.call, context[exec].code,
                              context[exec].regs)
<1>1. UNCHANGED exec
  BY CpuIs DEF CpuStill
<1>2. NoCall /\ Sent
  BY DEF Calling
<1>3. ASSUME ~Update, ~Evict
      PROVE  Sent'
  <2>1. UNCHANGED <<eviction, context>>
    BY <1>3, CpuContext DEF CpuStep, ReceivePid, ReceiveTid, Reset, SeekContext,
         ContextRefused, FetchFails, ExecuteRegisters, ExecuteCall, ExecuteBadCall,
         ExecuteBad, ExecuteRead, ExecuteWrite, ExecuteFaults, Check, ReceiveInterrupt,
         kernelVars
  <2>2. QED
    BY <1>1, <1>2, <2>1
<1>4. CASE ReceivePid
  <2>1. cpu' = "TID" /\ SYSCALL_INSTRUCTION' = Null /\ ~Update /\ ~Evict
    BY <1>4 DEF ReceivePid, Update, Evict, Goes
  <2>2. QED
    BY <1>3, <2>1 DEF Calling
<1>5. CASE ReceiveTid \/ Reset \/ SeekContext \/ ContextRefused
  <2>1. /\ cpu \in {"TID", "RESET", "CONTEXT"} /\ ~Update /\ ~Evict
        /\ cpu' \in {"RESET", "CONTEXT", "EXECUTE", "RECEIVE"}
        /\ SYSCALL_INSTRUCTION' = SYSCALL_INSTRUCTION
    BY <1>5 DEF ReceiveTid, Reset, SeekContext, ContextRefused, Goes, Update, Evict
  <2>2. QED
    BY <1>2, <1>3, <2>1 DEF Calling
<1>6. CASE ExecuteStep
  <2>1. ExecuteIs
    BY <1>6, ExecuteIsAll
  <2>2. /\ cpu = "EXECUTE" /\ SYSCALL_INSTRUCTION = Null /\ ~Update /\ ~Evict
        /\ UNCHANGED <<context, PID, TID>>
    BY <1>2, <2>1 DEF ExecuteIs, Update, Evict, Goes
  <2>3. Saved' = Saved /\ regs \in Registers
    BY <2>2 DEF Saved, Types, regs
  <2>4. CASE \E r \in Registers : GoesOn(r, FALSE) /\ opcode' # "EXIT"
                                  /\ UNCHANGED SYSCALL_INSTRUCTION
    <3>1. /\ cpu' = "CHECK" /\ SYSCALL_CALLED' = FALSE /\ opcode' # "EXIT"
          /\ SYSCALL_INSTRUCTION' = Null
      BY <2>2, <2>4 DEF GoesOn
    <3>2. QED
      BY <1>3, <2>2, <3>1 DEF Calling
  <2>5. CASE GoesOn(Advanced(regs), TRUE) /\ SYSCALL_INSTRUCTION' = Fetched
             /\ Fetched = Saved.code[regs["PC"] + 1]
    <3>1. /\ cpu' = "CHECK" /\ SYSCALL_CALLED' = TRUE /\ Advanced(regs) \in Registers
          /\ regs' = Advanced(regs)
      BY <2>5, NewRegisters DEF GoesOn, regs
    <3>2. Delivers("SYSCALL", Fetched, Saved.code, Advanced(regs))
      BY <2>3, <2>5, CallBehind
    <3>3. Delivers("SYSCALL", SYSCALL_INSTRUCTION', Saved'.code, regs')
      BY <2>3, <2>5, <3>1, <3>2
    <3>4. QED
      BY <1>3, <2>2, <3>1, <3>3 DEF Calling, Delivers
  <2>6. CASE cpu' \in {"UPDATE", "ABORTED"} /\ EVICTION_REASON' \in {"ERROR", "SEGFAULT"}
    BY <1>3, <2>2, <2>6 DEF Calling, Delivers
  <2>7. QED
    BY <2>1, <2>4, <2>5, <2>6 DEF ExecuteIs
<1>7. CASE Check
  <2>1. /\ cpu = "CHECK" /\ ~Update /\ ~Evict
        /\ UNCHANGED <<context, PID, TID, EXEC_CONTEXT, SYSCALL_INSTRUCTION>>
        /\ \/ Verdict = "NONE" /\ cpu' = "EXECUTE"
           \/ Verdict # "NONE" /\ cpu' = "UPDATE" /\ EVICTION_REASON' = Verdict
    BY <1>7 DEF Check, Fails, Update, Evict, Goes, userVars
  <2>2. /\ opcode = "EXIT" => SYSCALL_CALLED
        /\ SYSCALL_CALLED => Delivers("SYSCALL", SYSCALL_INSTRUCTION, Saved.code, regs)
        /\ ~SYSCALL_CALLED => SYSCALL_INSTRUCTION = Null
    BY <2>1 DEF Calling
  <2>3. /\ Verdict \in {"EXIT", "SYSCALL"} => SYSCALL_CALLED
        /\ Verdict \in {"QUANTUM", "NONE"} => ~SYSCALL_CALLED
    BY <2>2, VerdictIs DEF Types
  <2>4. Delivers(Verdict, SYSCALL_INSTRUCTION, Saved.code, regs)
    BY <2>2, <2>3 DEF Delivers
  <2>5. Saved' = Saved /\ regs' = regs
    BY <2>1 DEF Saved, regs
  <2>6. CASE Verdict = "NONE" /\ cpu' = "EXECUTE"
    <3>1. SYSCALL_INSTRUCTION' = Null
      BY <2>1, <2>2, <2>3, <2>6
    <3>2. QED
      BY <1>3, <2>1, <2>6, <3>1 DEF Calling
  <2>7. CASE cpu' = "UPDATE" /\ EVICTION_REASON' = Verdict
    <3>1. Delivers(EVICTION_REASON', SYSCALL_INSTRUCTION', Saved'.code, regs')
      BY <2>1, <2>4, <2>5, <2>7
    <3>2. QED
      BY <1>3, <2>1, <2>7, <3>1 DEF Calling, Delivers
  <2>8. QED
    BY <2>1, <2>6, <2>7
<1>8. CASE Update
  <2>1. /\ cpu = "UPDATE" /\ cpu' = "EVICT" /\ eviction' = eviction
        /\ UNCHANGED <<PID, TID, SYSCALL_INSTRUCTION, EVICTION_REASON>>
    BY <1>8 DEF Update, Goes, kernelVars
  <2>2. eviction = Null
    BY <2>1 DEF Cycle
  <2>3. Delivers(EVICTION_REASON, SYSCALL_INSTRUCTION, Saved.code, regs)
    BY <2>1 DEF Calling
  <2>4. <<PID, TID>> \in Thread
    BY <2>1, RunningIs
  <2>5. Saved'.regs = regs /\ Saved'.code = Saved.code
    <3>1. context' = [context EXCEPT ![<<PID, TID>>] = [Saved EXCEPT !.regs = regs]]
      BY <1>8, Updated
    <3>2. Saved' = [Saved EXCEPT !.regs = regs]
      BY <2>1, <2>4, <3>1 DEF Saved, Types
    <3>3. QED
      BY <1>8, <3>2, Updated
  <2>6. Delivers(EVICTION_REASON', SYSCALL_INSTRUCTION', Saved'.code, Saved'.regs)
    BY <2>1, <2>3, <2>5
  <2>7. QED
    BY <2>1, <2>2, <2>6 DEF Calling, Delivers
<1>9. CASE Evict
  <2>1. /\ cpu = "EVICT" /\ cpu' = "RECEIVE" /\ UNCHANGED context
        /\ eviction'.reason = EVICTION_REASON /\ eviction'.call = SYSCALL_INSTRUCTION
    BY <1>9 DEF Evict, Goes, userVars
  <2>2. Delivers(EVICTION_REASON, SYSCALL_INSTRUCTION, Saved.code, Saved.regs)
    BY <2>1 DEF Calling
  <2>3. exec = <<PID, TID>>
    BY <2>1, RunningIs
  <2>4. Delivers(eviction'.reason, eviction'.call, context'[exec'].code,
                 context'[exec'].regs)
    BY <1>1, <2>1, <2>2, <2>3 DEF Saved
  <2>5. QED
    BY <2>1, <2>4 DEF Calling, Delivers
<1>10. CASE ReceiveInterrupt
  <2>1. UNCHANGED <<cpu, PID, TID, EXEC_CONTEXT, opcode, SYSCALL_CALLED, context,
                    SYSCALL_INSTRUCTION, EVICTION_REASON, eviction>>
    BY <1>10 DEF ReceiveInterrupt, cycleVars, userVars
  <2>2. QED
    BY <1>1, <2>1 DEF Calling, Delivers, Saved, regs
<1>11. QED
  BY <1>4, <1>5, <1>6, <1>7, <1>8, <1>9, <1>10, CpuIs

-----------------------------------------------------------------------------
(* The invariant holds *)

\* Nobody is known, nobody runs and nothing is asked for.
LEMMA InitInv == Init => IInv
<1> SUFFICES ASSUME Init PROVE IInv
  OBVIOUS
<1>1. MemoryInv
  BY MemoryInitInv DEF Init
<1>2. Kernel /\ Cycle
  BY DEF Init, Kernel, Cycle, Interrupting
<1>3. Types
  <2>1. 0 \in Byte /\ 0 \in Word /\ 0 \in Nat
    BY OpcodesAssumption, ModulusIs DEF Byte
  <2>2. ZeroRegisters \in Registers
    BY <2>1 DEF ZeroRegisters, Registers
  <2>3. EXEC_CONTEXT \in [regs : Registers, base : Nat, limit : Nat]
    BY <2>1, <2>2 DEF Init
  <2>4. mainMemory \in [0 .. MemorySize - 1 -> Byte]
    BY <2>1 DEF Init
  <2>5. QED
    BY <2>3, <2>4 DEF Init, Types, Place, Reason
<1>4. \A p \in Nat : ~Known(p)
  <2>1. process = <<>>
    BY DEF Init, MemoryInit
  <2>2. Len(process) = 0
    BY <2>1
  <2>3. QED
    BY <2>2 DEF Known
<1>5. Contexts
  BY <1>4, PidIs DEF Init, Contexts, ContextsOf, Thread
<1>6. Mounted /\ Dumping /\ Calling /\ Answered
  BY DEF Init, Mounted, OnBoard, Dumping, Calling, Answered
<1>7. QED
  BY <1>1, <1>2, <1>3, <1>5, <1>6 DEF IInv

LEMMA NextInv == IInv /\ [Next]_vars => IInv'
<1> SUFFICES ASSUME IInv, [Next]_vars PROVE IInv'
  OBVIOUS
<1>1. /\ MemoryInv /\ Kernel /\ Cycle /\ Types
      /\ Contexts /\ Mounted /\ Dumping /\ Calling /\ Answered
  BY DEF IInv
<1>2. CASE KernelStep
  <2>1. MemoryInv' /\ Kernel' /\ Cycle'
    BY <1>1, <1>2, TableKept, KernelKept DEF Next
  <2>2. Types' /\ Contexts' /\ Mounted' /\ Dumping' /\ Calling' /\ Answered'
    BY <1>1, <1>2, KernelTypes, KernelContexts, KernelMounted, KernelDumping,
       KernelCalling, KernelAnswered
  <2>3. QED
    BY <2>1, <2>2 DEF IInv
<1>3. CASE DumpStep
  <2>1. MemoryInv'
    BY <1>1, <1>3, TableKept DEF Next
  <2>2. Kernel' /\ Cycle'
    <3>1. UNCHANGED <<kernelVars, cycleVars, flagVars>>
      BY <1>3 DEF DumpStep, BeginDump, DumpByte, EndDump
    <3>2. QED
      BY <1>1, <3>1 DEF Kernel, Cycle, kernelVars, cycleVars, flagVars, Interrupting
  <2>3. Types' /\ Contexts' /\ Mounted' /\ Dumping' /\ Calling' /\ Answered'
    BY <1>1, <1>3, DumpKept
  <2>4. QED
    BY <2>1, <2>2, <2>3 DEF IInv
<1>4. CASE CpuStep
  <2>1. MemoryInv' /\ Kernel' /\ Cycle'
    BY <1>1, <1>4, TableKept, CpuKept DEF Next
  <2>2. Types' /\ Contexts' /\ Mounted' /\ Calling' /\ Answered'
    BY <1>1, <1>4, CpuTypes, CpuContexts, CpuMounted, CpuCalling, CpuAnswered
  <2>3. Dumping'
    <3>1. CpuStill
      BY <1>4, CpuIs
    <3>2. QED
      BY <1>1, <3>1, CpuSees DEF Dumping, CpuStill
  <2>4. QED
    BY <2>1, <2>2, <2>3 DEF IInv
<1>5. CASE UNCHANGED vars
  <2>1. MemoryInv'
    BY <1>1, <1>5, TableStays DEF vars
  <2>2. Kernel' /\ Cycle'
    BY <1>1, <1>5 DEF vars, Kernel, Cycle, kernelVars, cycleVars, flagVars, Interrupting
  <2>3. Types' /\ Dumping' /\ Answered'
    BY <1>1, <1>5 DEF vars, memVars, userVars, kernelVars, cycleVars, flagVars, Types,
                      Dumping, Answered, Has, Known, Slot
  <2>4. Contexts' /\ Mounted'
    BY <1>1, <1>5 DEF vars, memVars, userVars, kernelVars, cycleVars, flagVars, Contexts,
                      ContextsOf, Mounted, OnBoard, Has, Known, Slot, PartitionOf
  <2>5. Calling'
    BY <1>1, <1>5 DEF vars, memVars, userVars, kernelVars, cycleVars, flagVars, Calling,
                      Delivers, Saved, regs
  <2>6. QED
    BY <2>1, <2>2, <2>3, <2>4, <2>5 DEF IInv
<1>6. QED
  BY <1>2, <1>3, <1>4, <1>5 DEF Next

THEOREM Invariance == Spec => []IInv
BY InitInv, NextInv, PTL DEF Spec

\* Memory, contexts, dumps and what is in the sockets have their types: what is
\* read from the user space is a byte and what is put into a register is a word.
THEOREM TypeCorrect == Spec => []TypeOK
<1>1. IInv => TypeOK
  <2>1. Kernel /\ Cycle => dispatch \in {exec, Null}
    BY DEF Kernel, Cycle
  <2>2. QED
    BY <2>1, InvIs DEF IInv, Kernel, Types, TypeOK, Registers, Place
<1>2. QED
  BY Invariance, <1>1, PTL

\* While programs run, are killed and dumped, the partition table stays sound:
\* no gap or overlap, no partition shared or lost, no two free neighbours.
THEOREM TableSound == Spec => [](Tiling /\ Owned /\ Coalesced)
<1>1. IInv => Tiling /\ Owned /\ Coalesced
  BY DEF IInv, MemoryInv
<1>2. QED
  BY Invariance, <1>1, PTL

\* The CPU acts on no interrupt sent to another thread than the running one,
\* although the handler compares with a PID and a TID that a dispatch is just
\* overwriting.
THEOREM InterruptsAreAddressed == Spec => []InterruptAddressed
<1>1. IInv => InterruptAddressed
  BY DEF IInv, Cycle, Interrupting, Preempts, InterruptAddressed
<1>2. QED
  BY Invariance, <1>1, PTL

\* What an eviction delivers is the call that the saved registers are just past,
\* and the end of a quantum delivers none: neither a flag left by an earlier
\* thread nor an interrupt makes a call twice or loses one.
THEOREM CallsDelivered == Spec => []CallDelivered
<1>1. Calling => CallDelivered
  BY DEF Calling, Delivers, CallDelivered
<1>2. QED
  BY Invariance, <1>1, PTL DEF IInv

\* A CPU that waits for a dispatch while the kernel waits for an eviction was
\* refused the context of a thread, of a process that has been given more TIDs
\* than memory counts threads of it, after a write out of the bounds of memory's
\* array: it takes a THREAD_CREATE that was refused.
THEOREM RefusalsExplained == Spec => []Unanswered
<1>1. IInv => Unanswered
  <2> SUFFICES ASSUME IInv, exec # Null, dispatch = Null, eviction = Null,
                      cpu = "RECEIVE"
               PROVE  corrupt /\ tids[exec[1]] > Slot(exec[1]).count
    BY DEF Unanswered
  <2>1. corrupt /\ ~Has(exec[1], exec[2]) /\ exec \in Thread /\ context[exec] # Null
    BY DEF IInv, Answered, Kernel, Contexts
  <2>2. PICK p \in Pid, t \in Tid : exec = <<p, t>> /\ p = exec[1] /\ t = exec[2]
    BY <2>1 DEF Thread
  <2>3. Known(p) /\ t \in Slot(p).threads /\ t < tids[p]
    BY <2>1, <2>2 DEF IInv, Contexts, ContextsOf
  <2>4. p \in Nat /\ t \in Nat /\ tids[p] \in Nat
    BY PidIs DEF IInv, Kernel
  <2>5. PICK n \in Nat : n = Slot(p).count
    BY <2>3, <2>4, SlotIs DEF IInv
  <2>6. ~ (t < n)
    BY <2>1, <2>2, <2>3, <2>5 DEF Has
  <2>7. tids[p] > n
    BY <2>3, <2>4, <2>5, <2>6
  <2>8. QED
    BY <2>1, <2>2, <2>5, <2>7
<1>2. QED
  BY Invariance, <1>1, PTL

-----------------------------------------------------------------------------
(* The machine that programs see                                           *)

Spaces == [p \in Pid |-> SpaceOf(p)]
Threads == [x \in Thread |-> ThreadOf(x)]
Hidden == UNCHANGED <<Spaces, Threads, DumpOf>>

\* The bytes of the partition of a process are a sequence.
Bytes(p) == BytesOfPartition(PartitionOf(p))

LEMMA BytesAre ==
  ASSUME MemoryInv, Types, NEW p \in Nat, Known(p)
  PROVE  /\ PartitionOf(p).base \in Nat /\ PartitionOf(p).size \in Nat
         /\ Bytes(p) \in Seq(Byte) /\ Len(Bytes(p)) = PartitionOf(p).size
         /\ DOMAIN Bytes(p) = 1 .. PartitionOf(p).size
         /\ \A k \in 1 .. PartitionOf(p).size :
              /\ PartitionOf(p).base + k - 1 \in 0 .. MemorySize - 1
              /\ Bytes(p)[k] = mainMemory[PartitionOf(p).base + k - 1]
              /\ Bytes(p)[k] \in Byte
<1>1. PICK b \in Nat, n \in Nat :
        b = PartitionOf(p).base /\ n = PartitionOf(p).size /\ b + n <= MemorySize
  BY PartitionFits
<1>2. Bytes(p) = [k \in 1 .. n |-> mainMemory[b + k - 1]]
  BY <1>1 DEF Bytes, BytesOfPartition
<1>3. \A k \in 1 .. n : b + k - 1 \in 0 .. MemorySize - 1
  <2>1. MemorySize \in Nat
    BY MemoryAssumption
  <2>2. QED
    BY <1>1, <2>1
<1>4. \A k \in 1 .. n : mainMemory[b + k - 1] \in Byte
  BY <1>3 DEF Types
<1>5. [k \in 1 .. n |-> mainMemory[b + k - 1]] \in [1 .. n -> Byte]
  BY <1>4
<1>6. \A f : f \in [1 .. n -> Byte] => f \in Seq(Byte) /\ Len(f) = n
  OBVIOUS
<1>7. QED
  BY <1>1, <1>2, <1>3, <1>4, <1>5, <1>6, Zenon

LEMMA SpaceIs ==
  ASSUME MemoryInv, Types, NEW p \in Pid
  PROVE  /\ Known(p) => /\ SpaceOf(p) = [size |-> Slot(p).size, bytes |-> Bytes(p)]
                        /\ SpaceOf(p) \in [size : Nat, bytes : Seq(Byte)]
                        /\ SpaceOf(p).size = Slot(p).size
                        /\ SpaceOf(p).bytes = Bytes(p)
         /\ SpaceOf(p) = Null <=> ~Known(p)
         /\ Spaces[p] = SpaceOf(p)
<1>1. p \in Nat
  BY PidIs
<1>2. ASSUME Known(p)
      PROVE  /\ SpaceOf(p) = [size |-> Slot(p).size, bytes |-> Bytes(p)]
             /\ SpaceOf(p) \in [size : Nat, bytes : Seq(Byte)]
             /\ SpaceOf(p).size = Slot(p).size
             /\ SpaceOf(p).bytes = Bytes(p)
  <2>1. SpaceOf(p) = [size |-> Slot(p).size, bytes |-> Bytes(p)]
    BY <1>2 DEF SpaceOf, Bytes
  <2>2. Slot(p).size \in Nat /\ Bytes(p) \in Seq(Byte)
    BY <1>1, <1>2, SlotIs, BytesAre
  <2>3. QED
    BY <2>1, <2>2
<1>3. ~Known(p) => SpaceOf(p) = Null
  BY DEF SpaceOf
<1>4. QED
  BY <1>2, <1>3, NullAssumption DEF Spaces

LEMMA SpaceIsAll ==
  \A p \in Pid : MemoryInv /\ Types =>
    /\ Known(p) => /\ SpaceOf(p) = [size |-> Slot(p).size, bytes |-> Bytes(p)]
                   /\ SpaceOf(p) \in [size : Nat, bytes : Seq(Byte)]
    /\ SpaceOf(p) = Null <=> ~Known(p)
BY SpaceIs

LEMMA SpaceIsNext ==
  (\A p \in Pid : MemoryInv /\ Types =>
    /\ Known(p) => /\ SpaceOf(p) = [size |-> Slot(p).size, bytes |-> Bytes(p)]
                   /\ SpaceOf(p) \in [size : Nat, bytes : Seq(Byte)]
    /\ SpaceOf(p) = Null <=> ~Known(p))'
BY SpaceIsAll, PTL

\* A process keeps its memory as long as it keeps its partition, and nobody
\* writes there.
LEMMA SpaceStays ==
  ASSUME MemoryInv, Types, NEW p \in Nat, SameSpace(p),
         Known(p) => \A k \in 1 .. PartitionOf(p).size :
                       mainMemory'[PartitionOf(p).base + k - 1]
                         = mainMemory[PartitionOf(p).base + k - 1]
  PROVE  SpaceOf(p)' = SpaceOf(p)
<1>1. CASE ~Known(p)
  BY <1>1 DEF SameSpace, SpaceOf
<1>2. CASE Known(p)
  <2>1. /\ Known(p)' /\ Slot(p)'.size = Slot(p).size
        /\ PartitionOf(p)' = PartitionOf(p)
    BY <1>2 DEF SameSpace
  <2>2. Bytes(p)' = Bytes(p)
    BY <1>2, <2>1 DEF Bytes, BytesOfPartition
  <2>3. SpaceOf(p) = [size |-> Slot(p).size, bytes |-> Bytes(p)]
    BY <1>2 DEF SpaceOf, Bytes
  <2>4. SpaceOf(p)' = [size |-> Slot(p).size, bytes |-> Bytes(p)]
    BY <2>1, <2>2 DEF SpaceOf, Bytes
  <2>5. QED
    BY <2>3, <2>4
<1>3. QED
  BY <1>1, <1>2

LEMMA SpacesStay ==
  ASSUME MemoryInv, Types, UNCHANGED mainMemory, \A p \in Pid : SameSpace(p)
  PROVE  UNCHANGED Spaces
<1>1. \A p \in Pid : SpaceOf(p)' = SpaceOf(p)
  BY SpaceStays, PidIs
<1>2. QED
  BY <1>1 DEF Spaces

\* A thread has registers, in the CPU or in memory, while it has a context.
LEMMA ThreadIs ==
  ASSUME IInv, NEW x \in Thread
  PROVE  /\ ThreadOf(x) = Null <=> context[x] = Null
         /\ context[x] # Null => context[x] \in Context /\ ThreadOf(x) \in Context
         /\ OnCpu(x) => /\ x = exec /\ x = <<PID, TID>> /\ context[x] # Null
                        /\ ThreadOf(x) = [Saved EXCEPT !.regs = regs]
                        /\ ThreadOf(x).regs = regs /\ ThreadOf(x).code = Saved.code
         /\ ~OnCpu(x) => ThreadOf(x) = context[x]
         /\ Threads[x] = ThreadOf(x)
<1>1. /\ Kernel /\ Cycle /\ Types /\ Contexts
  BY DEF IInv
<1>2. OnCpu(x) => x = exec /\ x = <<PID, TID>> /\ context[x] # Null /\ context[x] = Saved
  BY <1>1, RunningIs DEF OnCpu, Saved
<1>3. context[x] # Null => context[x] \in Context
  BY <1>1 DEF Types
<1>4. regs \in Registers
  BY <1>1 DEF Types, regs
<1>5. \A s \in Context, r \in Registers :
        /\ [s EXCEPT !.regs = r] \in Context /\ [s EXCEPT !.regs = r].regs = r
        /\ [s EXCEPT !.regs = r].code = s.code
  BY DEF Context, Registers
<1>6. OnCpu(x) => /\ ThreadOf(x) = [Saved EXCEPT !.regs = regs]
                  /\ ThreadOf(x) \in Context
                  /\ ThreadOf(x).regs = regs /\ ThreadOf(x).code = Saved.code
  <2>1. SUFFICES ASSUME OnCpu(x)
                 PROVE  /\ ThreadOf(x) = [Saved EXCEPT !.regs = regs]
                        /\ ThreadOf(x) \in Context
                        /\ ThreadOf(x).regs = regs /\ ThreadOf(x).code = Saved.code
    OBVIOUS
  <2>2. ThreadOf(x) = [Saved EXCEPT !.regs = regs] /\ Saved \in Context
    BY <1>2, <1>3, <2>1, Zenon DEF ThreadOf
  <2>3. PICK s \in Context, r \in Registers : s = Saved /\ r = regs
    BY <1>4, <2>2
  <2>4. ThreadOf(x) = [s EXCEPT !.regs = r]
    BY <2>2, <2>3, Zenon
  <2>5. /\ [s EXCEPT !.regs = r] \in Context /\ [s EXCEPT !.regs = r].regs = r
        /\ [s EXCEPT !.regs = r].code = s.code
    BY <1>5
  <2>6. QED
    BY <2>3, <2>4, <2>5
<1>7. ~OnCpu(x) => ThreadOf(x) = context[x]
  BY DEF ThreadOf
<1>8. Threads[x] = ThreadOf(x)
  BY DEF Threads
<1>9. QED
  BY <1>2, <1>3, <1>6, <1>7, <1>8, NullAssumption, Zenon

LEMMA ThreadIsAll ==
  IInv => \A x \in Thread :
    /\ ThreadOf(x) = Null <=> context[x] = Null
    /\ OnCpu(x) => /\ x = <<PID, TID>>
                   /\ ThreadOf(x) = [Saved EXCEPT !.regs = regs]
    /\ ~OnCpu(x) => ThreadOf(x) = context[x]
BY ThreadIs

LEMMA ThreadIsNext ==
  IInv' => (\A x \in Thread :
    /\ ThreadOf(x) = Null <=> context[x] = Null
    /\ OnCpu(x) => /\ x = <<PID, TID>>
                   /\ ThreadOf(x) = [Saved EXCEPT !.regs = regs]
    /\ ~OnCpu(x) => ThreadOf(x) = context[x])'
BY ThreadIsAll, PTL

\* A thread stays as it is if neither its context nor the CPU changes.
LEMMA ThreadStays ==
  ASSUME NEW x \in Thread, context'[x] = context[x],
         UNCHANGED <<cpu, PID, TID, EXEC_CONTEXT>>
  PROVE  ThreadOf(x)' = ThreadOf(x)
BY DEF ThreadOf, OnCpu, regs

LEMMA ThreadsStay ==
  ASSUME UNCHANGED <<context, cpu, PID, TID, EXEC_CONTEXT>>
  PROVE  UNCHANGED Threads
<1>1. \A x \in Thread : ThreadOf(x)' = ThreadOf(x)
  BY ThreadStays
<1>2. QED
  BY <1>1 DEF Threads

LEMMA DumpIs ==
  /\ dump = Null => DumpOf = Null
  /\ dump # Null =>
       DumpOf = [pid |-> dump.thread[1], read |-> dump.read, byte |-> dump.byte]
BY DEF DumpOf
LEMMA DumpStays == UNCHANGED dump => UNCHANGED DumpOf
BY DEF DumpOf

LEMMA BytesFit ==
  \A p \in Pid : MemoryInv /\ Types /\ Known(p) =>
    Slot(p).size \in 0 .. MemorySize /\ Len(Bytes(p)) \in Slot(p).size .. MemorySize
<1> SUFFICES ASSUME MemoryInv, Types, NEW p \in Pid, Known(p)
             PROVE  /\ Slot(p).size \in 0 .. MemorySize
                    /\ Len(Bytes(p)) \in Slot(p).size .. MemorySize
  OBVIOUS
<1>1. p \in Nat /\ MemorySize \in Nat
  BY PidIs, MemoryAssumption
<1>2. PICK b \in Nat, n \in Nat, m \in Nat :
        /\ b = PartitionOf(p).base /\ n = PartitionOf(p).size /\ m = Slot(p).size
        /\ b + n <= MemorySize /\ m <= n
  BY <1>1, PartitionFits
<1>3. Len(Bytes(p)) = n
  BY <1>1, <1>2, BytesAre
<1>4. m \in 0 .. MemorySize /\ n \in m .. MemorySize
  BY <1>1, <1>2
<1>5. QED
  BY <1>2, <1>3, <1>4
LEMMA BytesFitNext ==
  (\A p \in Pid : MemoryInv /\ Types /\ Known(p) =>
    Slot(p).size \in 0 .. MemorySize /\ Len(Bytes(p)) \in Slot(p).size .. MemorySize)'
BY BytesFit, PTL

-----------------------------------------------------------------------------
(* The steps of the kernel are those of the machine *)

LEMMA CreateStep ==
  ASSUME IInv, IInv', NEW p \in Pid, NEW size \in Sizes, CreateProcess(p, size)
  PROVE  Abstract!CreateProcess(p)
<1>1. MemoryInv /\ Types /\ MemoryInv' /\ Types'
  BY DEF IInv
<1>2. /\ ProcessCreate(p, size) /\ p = Len(process)
      /\ UNCHANGED <<mainMemory, context, dump, cpu, PID, TID, EXEC_CONTEXT>>
  BY DEF CreateProcess, userVars, cycleVars
<1>3. ~Known(p) /\ Known(p)' /\ \A q \in Nat \ {p} : Untouched(q)
  BY <1>1, <1>2, CreateEffect
<1>4. ASSUME NEW q \in Pid, q # p PROVE SpaceOf(q)' = SpaceOf(q)
  <2>1. q \in Nat /\ SameSpace(q)
    BY <1>3, <1>4, PidIs DEF Untouched
  <2>2. QED
    BY <1>1, <1>2, <2>1, SpaceStays
<1>5. Spaces' = [Spaces EXCEPT ![p] = Spaces'[p]]
  BY <1>4 DEF Spaces
<1>6. Spaces[p] = Null
  BY <1>1, <1>3, SpaceIs
<1>7. /\ SpaceOf(p)' = [size |-> Slot(p)'.size, bytes |-> Bytes(p)']
      /\ SpaceOf(p)' \in [size : Nat, bytes : Seq(Byte)] /\ SpaceOf(p)' # Null
      /\ Slot(p)'.size \in 0 .. MemorySize
      /\ Len(Bytes(p)') \in Slot(p)'.size .. MemorySize
  BY <1>1, <1>3, SpaceIsNext, BytesFitNext
<1>8. Spaces'[p] = SpaceOf(p)'
  BY DEF Spaces
<1>9. /\ Spaces'[p] # Null /\ Spaces'[p] \in [size : 0 .. MemorySize, bytes : Seq(Byte)]
      /\ Len(Spaces'[p].bytes) \in Spaces'[p].size .. MemorySize
  BY <1>7, <1>8
<1>10. UNCHANGED <<Threads, DumpOf>>
  BY <1>2, ThreadsStay, DumpStays
<1>11. QED
  BY <1>5, <1>6, <1>9, <1>10 DEF Abstract!CreateProcess, Spaces, Threads, Abstract!Byte, Byte

LEMMA DestroyStep ==
  ASSUME IInv, IInv', NEW p \in Pid, DestroyProcess(p)
  PROVE  Abstract!DestroyProcess(p)
<1>1. MemoryInv /\ Types /\ MemoryInv' /\ Types' /\ Contexts
  BY DEF IInv
<1>2. /\ ProcessDestroy(p) /\ Known(p) /\ Slot(p).threads = {} /\ dump = Null
      /\ UNCHANGED <<mainMemory, context, dump, cpu, PID, TID, EXEC_CONTEXT>>
  BY DEF DestroyProcess, CanWritePartitions, userVars, cycleVars
<1>3. p \in Nat
  BY PidIs
<1>4. ~Known(p)' /\ \A q \in Nat \ {p} : Untouched(q)
  BY <1>1, <1>2, <1>3, DestroyEffect
<1>5. ASSUME NEW q \in Pid, q # p PROVE SpaceOf(q)' = SpaceOf(q)
  <2>1. q \in Nat /\ SameSpace(q)
    BY <1>4, <1>5, PidIs DEF Untouched
  <2>2. QED
    BY <1>1, <1>2, <2>1, SpaceStays
<1>6. SpaceOf(p)' = Null
  BY <1>4 DEF SpaceOf
<1>7. Spaces' = [Spaces EXCEPT ![p] = Null]
  BY <1>5, <1>6 DEF Spaces
<1>8. Spaces[p] # Null
  BY <1>1, <1>2, SpaceIs
<1>9. \A t \in Tid : Threads[<<p, t>>] = Null
  <2>1. \A t \in Tid : context[<<p, t>>] = Null /\ <<p, t>> \in Thread
    BY <1>1, <1>2, PidIs DEF Contexts, ContextsOf
  <2>2. QED
    BY <2>1, ThreadIs
<1>10. UNCHANGED <<Threads, DumpOf>> /\ DumpOf = Null
  BY <1>2, ThreadsStay, DumpStays DEF DumpOf
<1>11. QED
  BY <1>7, <1>8, <1>9, <1>10 DEF Abstract!DestroyProcess, Spaces, Threads

\* A thread that is not on the CPU is created or destroyed with its context.
LEMMA ThreadChanges ==
  ASSUME IInv, IInv', NEW x \in Thread, NEW c \in Context \cup {Null},
         context' = [context EXCEPT ![x] = c],
         c = Null \/ context[x] = Null,
         UNCHANGED <<cpu, PID, TID, EXEC_CONTEXT>>
  PROVE  Threads' = [Threads EXCEPT ![x] = c]
<1>1. context \in [Thread -> Context \cup {Null}]
  BY DEF IInv, Types
<1>2. ThreadOf(x)' = c
  <2>1. context'[x] = c
    BY <1>1
  <2>2. CASE c = Null
    BY <2>1, <2>2 DEF ThreadOf
  <2>3. CASE context[x] = Null
    <3>1. ~OnCpu(x)
      BY <2>3, ThreadIs
    <3>2. ~OnCpu(x)'
      BY <3>1 DEF OnCpu
    <3>3. QED
      BY <2>1, <3>2 DEF ThreadOf
  <2>4. QED
    BY <2>2, <2>3
<1>3. ASSUME NEW y \in Thread, y # x PROVE ThreadOf(y)' = ThreadOf(y)
  <2>1. context'[y] = context[y]
    BY <1>1, <1>3
  <2>2. QED
    BY <2>1, ThreadStays
<1>4. QED
  BY <1>2, <1>3 DEF Threads

LEMMA MakeStep ==
  ASSUME IInv, IInv', NEW p \in Pid, Makes(p)
  PROVE  Abstract!CreateThread(p, tids[p])
<1> DEFINE t == tids[p]
<1>1. MemoryInv /\ Kernel /\ Types /\ Contexts
  BY DEF IInv
<1>2. t \in Tid /\ CreateThread(p, t) /\ <<p, t>> \in Thread /\ p \in Nat
  BY PidIs DEF Makes
<1> HIDE DEF t
<1>3. /\ Known(p) /\ t \notin Slot(p).threads /\ SameSpace(p)
      /\ \A q \in Nat \ {p} : Untouched(q)
      /\ UNCHANGED <<mainMemory, dump, cycleVars>>
  BY <1>1, <1>2, ThreadMade DEF t
<1>4. context[<<p, t>>] = Null
  BY <1>1, <1>2, <1>3 DEF Contexts, ContextsOf
<1>5. PICK code \in Program :
        context' = [context EXCEPT ![<<p, t>>] = [code |-> code, regs |-> ZeroRegisters]]
  BY <1>2 DEF CreateThread
<1>6. [code |-> code, regs |-> ZeroRegisters] \in Context
  <2>1. ZeroRegisters \in [Register -> Word]
    BY ModulusIs DEF ZeroRegisters
  <2>2. QED
    BY <2>1 DEF Context
<1>7. Threads' = [Threads EXCEPT ![<<p, t>>] = [code |-> code, regs |-> ZeroRegisters]]
  <2>1. UNCHANGED <<cpu, PID, TID, EXEC_CONTEXT>>
    BY <1>3 DEF cycleVars
  <2>2. QED
    BY <1>2, <1>4, <1>5, <1>6, <2>1, ThreadChanges, Zenon
<1>8. \A q \in Pid : SameSpace(q)
  BY <1>3, PidIs DEF Untouched
<1>9. UNCHANGED <<Spaces, DumpOf>>
  BY <1>1, <1>3, <1>8, SpacesStay, DumpStays
<1>10. Spaces[p] # Null /\ Threads[<<p, t>>] = Null
  BY <1>1, <1>2, <1>3, <1>4, SpaceIs, ThreadIs
<1>11. Abstract!CreateThread(p, t)
  BY <1>7, <1>9, <1>10 DEF Abstract!CreateThread, Spaces, Threads, Abstract!ZeroRegisters,
                           ZeroRegisters
<1>12. QED
  BY <1>11 DEF t

LEMMA GoneStep ==
  ASSUME IInv, IInv', NEW x \in Thread, DestroyThread(x), context[x] # Null
  PROVE  Abstract!DestroyThread(x)
<1>1. MemoryInv /\ Kernel /\ Types /\ Contexts
  BY DEF IInv
<1>2. /\ SameSpace(x[1]) /\ \A q \in Nat \ {x[1]} : Untouched(q)
      /\ context' = [context EXCEPT ![x] = Null]
      /\ UNCHANGED <<mainMemory, dump, cycleVars>>
  BY <1>1, ThreadGone
<1>3. Threads' = [Threads EXCEPT ![x] = Null]
  <2>1. UNCHANGED <<cpu, PID, TID, EXEC_CONTEXT>>
    BY <1>2 DEF cycleVars
  <2>2. QED
    BY <1>2, <2>1, ThreadChanges
<1>4. \A q \in Pid : SameSpace(q)
  BY <1>2, PidIs DEF Untouched
<1>5. UNCHANGED <<Spaces, DumpOf>>
  BY <1>1, <1>2, <1>4, SpacesStay, DumpStays
<1>6. Threads[x] # Null
  BY ThreadIs
<1>7. QED
  BY <1>3, <1>5, <1>6 DEF Abstract!DestroyThread, Spaces, Threads

LEMMA KernelSimulates ==
  ASSUME IInv, IInv', KernelStep
  PROVE  Abstract!Next \/ Hidden
<1>1. MemoryInv /\ Kernel /\ Cycle /\ Types /\ Contexts
  BY DEF IInv
<1>2. KernelIs
  BY <1>1, KernelIsAll
<1>3. CASE \E p \in Pid, size \in Sizes : CreateProcess(p, size)
  BY <1>3, CreateStep DEF Abstract!Next
<1>4. CASE \E p \in Pid : DestroyProcess(p)
  BY <1>4, DestroyStep DEF Abstract!Next
<1>5. CASE \E p \in Pid : Makes(p)
  <2>1. PICK p \in Pid : Makes(p)
    BY <1>5
  <2>2. tids[p] \in Tid /\ Abstract!CreateThread(p, tids[p])
    BY <2>1, MakeStep DEF Makes
  <2>3. QED
    BY <2>2 DEF Abstract!Next
<1>6. CASE \E x \in Thread : DestroyThread(x) /\ (Kill(x) \/ (x = exec /\ HandleExit))
  <2>1. PICK x \in Thread : DestroyThread(x) /\ (Kill(x) \/ (x = exec /\ HandleExit))
    BY <1>6
  <2>2. context[x] # Null
    <3>1. x # Null
      BY PidIs
    <3>2. QED
      BY <1>1, <2>1, <3>1 DEF Kill, Contexts
  <2>3. Abstract!DestroyThread(x)
    BY <2>1, <2>2, GoneStep
  <2>4. QED
    BY <2>3 DEF Abstract!Next, Abstract!Thread, Thread
<1>7. CASE UNCHANGED <<memVars, mainMemory, context, dump, cycleVars, flagVars>>
  <2>1. UNCHANGED <<table, process, mainMemory, context, dump, cpu, PID, TID, EXEC_CONTEXT>>
    BY <1>7 DEF memVars, cycleVars
  <2>2. \A p \in Pid : SameSpace(p)
    BY <2>1, TablesStay, PidIs DEF Untouched
  <2>3. QED
    BY <1>1, <2>1, <2>2, SpacesStay, ThreadsStay, DumpStays DEF Hidden
<1>8. QED
  BY <1>2, <1>3, <1>4, <1>5, <1>6, <1>7, Zenon DEF KernelIs

-----------------------------------------------------------------------------
(* So are those of a dump                                                  *)

LEMMA SameDumps ==
  ASSUME NEW d \in [pid : Pid, read : Nat, byte : Byte],
         NEW p \in Pid, NEW n \in Nat, NEW b \in Byte,
         d.pid = p, d.read = n, d.byte = b
  PROVE  d = [pid |-> p, read |-> n, byte |-> b]
OBVIOUS

LEMMA DumpSimulates ==
  ASSUME IInv, IInv', DumpStep
  PROVE  Abstract!Next \/ Hidden
<1>1. MemoryInv /\ Types /\ Dumping
  BY DEF IInv
<1>2. UNCHANGED <<table, process, mainMemory, context, cpu, PID, TID, EXEC_CONTEXT>>
  BY DEF DumpStep, BeginDump, DumpByte, EndDump, memVars, cycleVars
<1>3. UNCHANGED <<Spaces, Threads>>
  <2>1. \A p \in Pid : SameSpace(p)
    BY <1>2, TablesStay, PidIs DEF Untouched
  <2>2. QED
    BY <1>1, <1>2, <2>1, SpacesStay, ThreadsStay
<1>4. CASE BeginDump
  <2>1. /\ petition \in Thread /\ dump = Null
        /\ dump' = IF Has(petition[1], petition[2])
                   THEN [thread |-> petition, read |-> 0, byte |-> 0] ELSE Null
    BY <1>1, <1>4 DEF BeginDump, Types
  <2>2. DumpOf = Null
    BY <2>1 DEF DumpOf
  <2>3. CASE ~Has(petition[1], petition[2])
    BY <1>3, <2>1, <2>3, DumpStays DEF Hidden
  <2>4. CASE Has(petition[1], petition[2])
    <3>1. PICK p \in Pid : p = petition[1] /\ Known(p)
      BY <2>1, <2>4, PidIs DEF Has
    <3>2. dump' = [thread |-> petition, read |-> 0, byte |-> 0]
      BY <2>1, <2>4
    <3>3. dump' \in Dump
      BY <2>1, <3>2, OpcodesAssumption DEF Dump, Byte
    <3>4. dump' # Null
      BY <3>3, NullAssumption
    <3>5. dump'.thread[1] = p /\ dump'.read = 0 /\ dump'.byte = 0
      BY <3>1, <3>2
    <3>6. DumpOf' = [pid |-> p, read |-> 0, byte |-> 0]
      BY <3>4, <3>5 DEF DumpOf
    <3>7. Spaces[p] # Null
      BY <1>1, <3>1, SpaceIs
    <3>8. Abstract!BeginDump(p)
      BY <1>3, <2>2, <3>6, <3>7 DEF Abstract!BeginDump, Spaces, Threads
    <3>9. QED
      BY <3>8 DEF Abstract!Next
  <2>5. QED
    BY <2>3, <2>4
<1>5. ASSUME dump # Null
      PROVE  \E p \in Pid, n \in Nat, b \in Byte :
               /\ p = dump.thread[1] /\ n = dump.read /\ b = dump.byte /\ Known(p)
               /\ DumpOf = [pid |-> p, read |-> n, byte |-> b] /\ DumpOf # Null
               /\ Spaces[p].size = Slot(p).size /\ Spaces[p].bytes = Bytes(p)
  <2>1. dump \in Dump /\ Known(dump.thread[1])
    BY <1>1, <1>5 DEF Types, Dumping
  <2>2. PICK p \in Pid, n \in Nat, b \in Byte :
          p = dump.thread[1] /\ n = dump.read /\ b = dump.byte
    BY <2>1, PidIs DEF Dump
  <2>3. DumpOf = [pid |-> p, read |-> n, byte |-> b]
    BY <1>5, <2>2 DEF DumpOf
  <2>4. DumpOf # Null
    BY <2>3, NullAssumption
  <2>5. Spaces[p].size = Slot(p).size /\ Spaces[p].bytes = Bytes(p)
    BY <1>1, <2>1, <2>2, SpaceIs
  <2>6. QED
    BY <2>1, <2>2, <2>3, <2>4, <2>5
<1>6. CASE DumpByte
  <2>1. dump # Null
    BY <1>6 DEF DumpByte
  <2>2. PICK p \in Pid, n \in Nat, b \in Byte :
          /\ p = dump.thread[1] /\ n = dump.read /\ b = dump.byte /\ Known(p)
          /\ DumpOf = [pid |-> p, read |-> n, byte |-> b] /\ DumpOf # Null
          /\ Spaces[p].size = Slot(p).size /\ Spaces[p].bytes = Bytes(p)
    BY <1>5, <2>1
  <2>3. n < Slot(p).size
    BY <1>6, <2>2 DEF DumpByte
  <2>4. n + 1 \in 1 .. PartitionOf(p).size /\ PartitionOf(p).base \in Nat
    <3>1. PICK s \in Nat, l \in Nat : s = Slot(p).size /\ l = PartitionOf(p).size /\ s <= l
      BY <1>1, <2>2, PidIs, PartitionFits
    <3>2. PartitionOf(p).base \in Nat
      BY <1>1, <2>2, PidIs, PartitionFits
    <3>3. QED
      BY <2>3, <3>1, <3>2
  <2>5. Bytes(p)[n + 1] = mainMemory[PartitionOf(p).base + n]
    <3>1. Bytes(p)[n + 1] = mainMemory[PartitionOf(p).base + (n + 1) - 1]
      BY <1>1, <2>2, <2>4, PidIs, BytesAre
    <3>2. PartitionOf(p).base + (n + 1) - 1 = PartitionOf(p).base + n
      BY <2>4
    <3>3. QED
      BY <3>1, <3>2
  <2>6. PICK c \in Byte : c = mainMemory[PartitionOf(p).base + n]
    BY <1>1, <2>2, <2>4, <2>5, PidIs, BytesAre
  <2>7. DumpOf' = [pid |-> p, read |-> n + 1, byte |-> c]
    <3>1. dump' = [dump EXCEPT !.read = n + 1, !.byte = c]
      BY <1>6, <2>2, <2>6 DEF DumpByte
    <3>2. PICK d \in Dump : d = dump
      BY <1>1, <2>1 DEF Types
    <3>3. PICK m \in Nat : m = n + 1
      OBVIOUS
    <3>4. /\ [d EXCEPT !.read = m, !.byte = c] \in Dump
          /\ [d EXCEPT !.read = m, !.byte = c].thread = d.thread
          /\ [d EXCEPT !.read = m, !.byte = c].read = m
          /\ [d EXCEPT !.read = m, !.byte = c].byte = c
      BY DEF Dump
    <3>5. dump' = [d EXCEPT !.read = m, !.byte = c]
      BY <3>1, <3>2, <3>3, Zenon
    <3>6. /\ dump' \in Dump /\ dump'.thread = d.thread
          /\ dump'.read = m /\ dump'.byte = c
      BY <3>4, <3>5, Zenon
    <3>7. dump' # Null
      BY <3>6, NullAssumption
    <3>8. QED
      BY <2>2, <3>2, <3>3, <3>6, <3>7 DEF DumpOf
  <2>8. /\ DumpOf.pid = p /\ DumpOf.read = n
        /\ DumpOf' = [DumpOf EXCEPT !.read = @ + 1, !.byte = Bytes(p)[n + 1]]
    <3>1. DumpOf.pid = p /\ DumpOf.read = n
      BY <2>2
    <3>2. PICK m \in Nat, d \in [pid : Pid, read : Nat, byte : Byte] :
            m = n + 1 /\ d = [pid |-> p, read |-> n, byte |-> b]
      BY <2>2
    <3>3. DumpOf' = [DumpOf EXCEPT !.read = n + 1, !.byte = c]
      <4>1. d.pid = p
        BY <3>2
      <4>2. /\ [d EXCEPT !.read = m, !.byte = c] \in [pid : Pid, read : Nat, byte : Byte]
            /\ [d EXCEPT !.read = m, !.byte = c].pid = p
            /\ [d EXCEPT !.read = m, !.byte = c].read = m
            /\ [d EXCEPT !.read = m, !.byte = c].byte = c
        BY <4>1
      <4>3. PICK e \in [pid : Pid, read : Nat, byte : Byte] :
              /\ e = [d EXCEPT !.read = m, !.byte = c]
              /\ e.pid = p /\ e.read = m /\ e.byte = c
        BY <4>2, Zenon
      <4>4. e = [pid |-> p, read |-> m, byte |-> c]
        BY <4>3, SameDumps
      <4>5. QED
        BY <2>2, <2>7, <3>2, <4>3, <4>4, Zenon
    <3>4. c = Bytes(p)[n + 1]
      BY <2>5, <2>6
    <3>5. QED
      BY <3>1, <3>3, <3>4
  <2>9. Abstract!DumpByte
    BY <1>3, <2>2, <2>3, <2>8 DEF Abstract!DumpByte, Spaces, Threads
  <2>10. QED
    BY <2>9 DEF Abstract!Next
<1>7. CASE EndDump
  <2>1. dump # Null
    BY <1>7 DEF EndDump
  <2>2. PICK p \in Pid, n \in Nat, b \in Byte :
          /\ p = dump.thread[1] /\ n = dump.read /\ b = dump.byte /\ Known(p)
          /\ DumpOf = [pid |-> p, read |-> n, byte |-> b] /\ DumpOf # Null
          /\ Spaces[p].size = Slot(p).size /\ Spaces[p].bytes = Bytes(p)
    BY <1>5, <2>1
  <2>3. n = Slot(p).size
    BY <1>7, <2>2 DEF EndDump
  <2>4. DumpOf' = Null
    BY <1>7 DEF EndDump, DumpOf
  <2>5. DumpOf.pid = p /\ DumpOf.read = n
    BY <2>2
  <2>6. Abstract!EndDump
    BY <1>3, <2>2, <2>3, <2>4, <2>5 DEF Abstract!EndDump, Spaces, Threads
  <2>7. QED
    BY <2>6 DEF Abstract!Next
<1>8. QED
  BY <1>4, <1>6, <1>7 DEF DumpStep

-----------------------------------------------------------------------------
(* And those of the CPU                                                    *)

\* Memory is the same but for the execution of a write.
LEMMA CpuSpaces ==
  ASSUME IInv, CpuStep, UNCHANGED mainMemory
  PROVE  UNCHANGED <<Spaces, DumpOf>>
<1>1. CpuStill /\ MemoryInv /\ Types
  BY CpuIs DEF IInv
<1>2. \A p \in Pid : SameSpace(p)
  BY <1>1, TablesStay, PidIs DEF Untouched, CpuStill
<1>3. QED
  BY <1>1, <1>2, SpacesStay, DumpStays DEF CpuStill

\* The registers of the thread that runs are loaded and saved as they are.
LEMMA CpuHides ==
  ASSUME IInv, IInv', CpuStep,
         \/ ReceivePid \/ ReceiveTid \/ Reset \/ SeekContext \/ ContextRefused
         \/ FetchFails \/ ExecuteBad \/ ExecuteFaults
         \/ Check \/ Update \/ Evict \/ ReceiveInterrupt
  PROVE  Hidden
<1>1. UNCHANGED mainMemory
  BY DEF ReceivePid, ReceiveTid, Reset, SeekContext, ContextRefused, FetchFails,
         ExecuteBad, ExecuteFaults, Check, Update, Evict, ReceiveInterrupt, userVars
<1>2. Kernel /\ Cycle /\ Contexts /\ Types /\ Mounted
  BY DEF IInv
<1>3. CASE ReceivePid \/ ReceiveTid \/ Reset \/ ContextRefused \/ Evict
  <2>1. /\ cpu \notin {"EXECUTE", "CHECK", "UPDATE", "ABORTED"}
        /\ cpu' \notin {"EXECUTE", "CHECK", "UPDATE", "ABORTED"} /\ UNCHANGED context
    BY <1>3 DEF ReceivePid, ReceiveTid, Reset, ContextRefused, Evict, Goes, userVars
  <2>2. \A x \in Thread : ThreadOf(x)' = ThreadOf(x)
    BY <2>1 DEF ThreadOf, OnCpu
  <2>3. QED
    BY <1>1, <2>2, CpuSpaces DEF Hidden, Threads
<1>4. CASE SeekContext
  <2>1. /\ cpu = "CONTEXT" /\ cpu' = "EXECUTE" /\ UNCHANGED <<context, PID, TID>>
        /\ regs' = Saved.regs
    BY <1>4 DEF SeekContext, Goes, regs, Saved, userVars
  <2>2. Saved \in Context /\ Saved' = Saved
    BY <1>2, <2>1, RunningIs DEF Saved
  <2>3. [Saved EXCEPT !.regs = Saved.regs] = Saved
    BY <2>2 DEF Context
  <2>4. ASSUME NEW x \in Thread PROVE ThreadOf(x)' = ThreadOf(x)
    <3>1. ThreadOf(x) = context[x]
      BY <2>1 DEF ThreadOf, OnCpu
    <3>2. CASE OnCpu(x)'
      <4>1. ThreadOf(x)' = [Saved' EXCEPT !.regs = regs'] /\ x = <<PID', TID'>>
        BY <3>2, ThreadIsNext
      <4>2. ThreadOf(x)' = Saved
        BY <2>1, <2>2, <2>3, <4>1
      <4>3. QED
        BY <2>1, <3>1, <4>1, <4>2 DEF Saved
    <3>3. CASE ~OnCpu(x)'
      BY <2>1, <3>1, <3>3, ThreadIsNext
    <3>4. QED
      BY <3>2, <3>3
  <2>5. QED
    BY <1>1, <2>4, CpuSpaces DEF Hidden, Threads
<1>5. CASE FetchFails \/ ExecuteBad \/ ExecuteFaults \/ Check
  <2>1. /\ cpu \in {"EXECUTE", "CHECK", "UPDATE", "ABORTED"}
        /\ cpu' \in {"EXECUTE", "CHECK", "UPDATE", "ABORTED"}
        /\ UNCHANGED <<context, PID, TID, EXEC_CONTEXT>>
    BY <1>5 DEF FetchFails, ExecuteBad, ExecuteFaults, Check, Fails, Executing, userVars
  <2>2. \A x \in Thread : ThreadOf(x)' = ThreadOf(x)
    BY <2>1 DEF ThreadOf, OnCpu, regs
  <2>3. QED
    BY <1>1, <2>2, CpuSpaces DEF Hidden, Threads
<1>6. CASE Update
  <2>1. /\ cpu = "UPDATE" /\ cpu' = "EVICT" /\ UNCHANGED <<PID, TID>>
    BY <1>6 DEF Update, Goes
  <2>2. context' = [context EXCEPT ![<<PID, TID>>] = [Saved EXCEPT !.regs = regs]]
    BY <1>2, <1>6, Updated
  <2>3. ASSUME NEW x \in Thread PROVE ThreadOf(x)' = ThreadOf(x)
    <3>1. ThreadOf(x)' = context'[x]
      BY <2>1 DEF ThreadOf, OnCpu
    <3>2. CASE x = <<PID, TID>>
      <4>1. OnCpu(x)
        BY <2>1, <3>2 DEF OnCpu
      <4>2. ThreadOf(x) = [Saved EXCEPT !.regs = regs]
        BY <4>1, ThreadIs
      <4>3. context'[x] = [Saved EXCEPT !.regs = regs]
        BY <1>2, <2>2, <3>2 DEF Types
      <4>4. QED
        BY <3>1, <4>2, <4>3
    <3>3. CASE x # <<PID, TID>>
      <4>1. context'[x] = context[x]
        BY <1>2, <2>2, <3>3 DEF Types
      <4>2. QED
        BY <3>1, <3>3, <4>1 DEF ThreadOf, OnCpu
    <3>4. QED
      BY <3>2, <3>3
  <2>4. QED
    BY <1>1, <2>3, CpuSpaces DEF Hidden, Threads
<1>7. CASE ReceiveInterrupt
  <2>1. UNCHANGED <<context, cpu, PID, TID, EXEC_CONTEXT>>
    BY <1>7 DEF ReceiveInterrupt, userVars, cycleVars
  <2>2. QED
    BY <1>1, <2>1, ThreadsStay, CpuSpaces DEF Hidden
<1>8. QED
  BY <1>3, <1>4, <1>5, <1>6, <1>7

\* The machine computes with the same words.
LEMMA SameArithmetic ==
  /\ Abstract!ZeroRegisters = ZeroRegisters
  /\ \A r, i : Abstract!Computed(r, i) = Computed(r, i)
  /\ \A r : Abstract!Advanced(r) = Advanced(r)
  /\ \A r, a, w : Abstract!Put(r, a, w) = Put(r, a, w)
  /\ \A s : Abstract!WordOf(s) = WordOf(s)
  /\ \A w : Abstract!BytesOf(w) = BytesOf(w)
  /\ \A i : Abstract!Computes(i) = Computes(i) /\ Abstract!Calls(i) = Calls(i)
<1>1. \A r : Abstract!Advanced(r) = Advanced(r)
  BY DEF Abstract!Advanced, Advanced, Abstract!Modulus, Modulus
<1>2. \A r, a, w : Abstract!Put(r, a, w) = Put(r, a, w)
  BY <1>1 DEF Abstract!Put, Put
<1>3. \A r, i : Abstract!Jumped(r, i) = Jumped(r, i)
  BY <1>1 DEF Abstract!Jumped, Jumped
<1>4. \A r, i : Abstract!Computed(r, i) = Computed(r, i)
  BY <1>1, <1>2, <1>3, Zenon DEF Abstract!Computed, Computed, Abstract!Modulus, Modulus
<1>5. \A w : Abstract!BytesOf(w) = BytesOf(w)
  BY Zenon DEF Abstract!BytesOf, BytesOf
<1>6. \A s : Abstract!WordOf(s) = WordOf(s)
  BY <1>5, Zenon DEF Abstract!WordOf, WordOf, Abstract!Word, Word, Abstract!Modulus, Modulus
<1>7. QED
  BY <1>1, <1>2, <1>4, <1>5, <1>6 DEF Abstract!ZeroRegisters, ZeroRegisters,
     Abstract!Computes, Computes, Abstract!Calls, Calls

\* The thread that the CPU runs is at the instruction that the CPU fetches.
LEMMA MachineFetches ==
  ASSUME IInv, NEW op, Executing(op)
  PROVE  /\ <<PID, TID>> \in Thread /\ PID \in Pid /\ PID \in Nat /\ Known(PID)
         /\ Threads[<<PID, TID>>].regs = regs
         /\ Abstract!CanExecute(<<PID, TID>>)
         /\ Abstract!InstructionOf(<<PID, TID>>) = Fetched
<1>1. MemoryInv /\ Kernel /\ Cycle /\ Contexts /\ Types
  BY DEF IInv
<1>2. /\ cpu = "EXECUTE" /\ regs["PC"] < Len(Saved.code)
      /\ Fetched = Saved.code[regs["PC"] + 1]
  BY <1>1, FetchedIs
<1>3. PICK x \in Thread : x = <<PID, TID>> /\ OnCpu(x)
  BY <1>1, <1>2, RunningIs DEF OnCpu
<1>4. /\ Threads[x] # Null /\ Threads[x].code = Saved.code /\ Threads[x].regs = regs
  BY <1>3, ThreadIs
<1>5. Abstract!CanExecute(x)
  BY <1>2, <1>4 DEF Abstract!CanExecute, Threads
<1>6. Abstract!InstructionOf(x) = Fetched
  BY <1>2, <1>4 DEF Abstract!InstructionOf, Threads
<1>7. PID \in Pid /\ PID \in Nat /\ Known(PID)
  BY <1>1, <1>2, RunningIs
<1>8. QED
  BY <1>3, <1>4, <1>5, <1>6, <1>7

LEMMA SameThread ==
  ASSUME NEW s \in Context, NEW r \in Registers, NEW q \in Registers
  PROVE  [[s EXCEPT !.regs = r] EXCEPT !.regs = q] = [s EXCEPT !.regs = q]
<1>1. \A t \in Context, u \in Context : t.code = u.code /\ t.regs = u.regs => t = u
  BY DEF Context
<1>2. \A t \in Context, v \in Registers :
        /\ [t EXCEPT !.regs = v] \in Context /\ [t EXCEPT !.regs = v].regs = v
        /\ [t EXCEPT !.regs = v].code = t.code
  BY DEF Context, Registers
<1>3. PICK t \in Context : t = [s EXCEPT !.regs = r] /\ t.code = s.code
  BY <1>2
<1>4. PICK u \in Context : u = [t EXCEPT !.regs = q] /\ u.code = t.code /\ u.regs = q
  BY <1>2
<1>5. PICK v \in Context : v = [s EXCEPT !.regs = q] /\ v.code = s.code /\ v.regs = q
  BY <1>2
<1>6. u = v
  BY <1>1, <1>3, <1>4, <1>5
<1>7. QED
  BY <1>3, <1>4, <1>5, <1>6, Zenon

\* Its registers are those that the instruction leaves.
LEMMA MachineMoves ==
  ASSUME IInv, IInv', NEW r \in Registers, cpu = "EXECUTE", cpu' \in {"CHECK", "UPDATE"},
         UNCHANGED <<context, PID, TID>>, EXEC_CONTEXT' = [EXEC_CONTEXT EXCEPT !.regs = r]
  PROVE  Abstract!Becomes(<<PID, TID>>, r)
<1>1. Kernel /\ Cycle /\ Contexts /\ Types
  BY DEF IInv
<1>2. PICK x \in Thread : x = <<PID, TID>>
  BY <1>1, RunningIs
<1>3. /\ OnCpu(x) /\ OnCpu(x)' /\ regs' = r /\ Saved' = Saved
      /\ Saved \in Context /\ regs \in Registers
  BY <1>1, <1>2, NewRegisters, RunningIs DEF OnCpu, regs, Saved, Types
<1>4. ThreadOf(x) = [Saved EXCEPT !.regs = regs]
  BY <1>3, ThreadIs
<1>5. ThreadOf(x)' = [Saved EXCEPT !.regs = r]
  <2>1. ThreadOf(x)' = [Saved' EXCEPT !.regs = regs']
    BY <1>3, ThreadIsNext
  <2>2. QED
    BY <1>3, <2>1, Zenon
<1>6. ThreadOf(x)' = [ThreadOf(x) EXCEPT !.regs = r]
  <2>1. [[Saved EXCEPT !.regs = regs] EXCEPT !.regs = r] = [Saved EXCEPT !.regs = r]
    BY <1>3, SameThread
  <2>2. QED
    BY <1>4, <1>5, <2>1, Zenon
<1>7. ASSUME NEW y \in Thread, y # x PROVE ThreadOf(y)' = ThreadOf(y)
  <2>1. ~OnCpu(y) /\ ~OnCpu(y)'
    BY <1>2, <1>7 DEF OnCpu
  <2>2. QED
    BY <2>1 DEF ThreadOf
<1>8. Threads' = [Threads EXCEPT ![x].regs = r]
  <2>1. Threads' = [Threads EXCEPT ![x] = [ThreadOf(x) EXCEPT !.regs = r]]
    BY <1>6, <1>7 DEF Threads
  <2>2. Threads[x] = ThreadOf(x)
    BY DEF Threads
  <2>3. QED
    BY <2>1, <2>2, Zenon
<1>9. QED
  BY <1>2, <1>8 DEF Abstract!Becomes, Threads

\* Instructions that stay within the registers, calls among them.
LEMMA ComputeStep ==
  ASSUME IInv, IInv', CpuStep, ExecuteRegisters \/ ExecuteCall \/ ExecuteBadCall
  PROVE  Abstract!Execute(<<PID, TID>>)
<1>1. MemoryInv /\ Kernel /\ Cycle /\ Contexts /\ Types
  BY DEF IInv
<1>2. PICK op : /\ Executing(op) /\ cpu = "EXECUTE"
                /\ op \subseteq {"SET", "SUM", "SUB", "JNZ", "LOG", "CALL", "EXIT",
                                 "BADCALL"}
  BY DEF ExecuteRegisters, ExecuteCall, ExecuteBadCall, Executing
<1>3. /\ Fetched \in Instruction /\ Fetched.op \in op /\ regs \in Registers
  BY <1>1, <1>2, FetchedIs
<1>4. PICK r \in Registers : r = Computed(regs, Fetched)
  BY <1>3, ComputedType
<1>5. /\ EXEC_CONTEXT' = [EXEC_CONTEXT EXCEPT !.regs = r] /\ cpu' \in {"CHECK", "UPDATE"}
      /\ UNCHANGED <<mainMemory, context, PID, TID>>
  BY <1>4 DEF ExecuteRegisters, ExecuteCall, ExecuteBadCall, Succeeds, Fails, userVars
<1>6. Abstract!Becomes(<<PID, TID>>, r)
  BY <1>2, <1>5, MachineMoves
<1>7. UNCHANGED <<Spaces, DumpOf>>
  BY <1>5, CpuSpaces
<1>8. /\ Abstract!CanExecute(<<PID, TID>>) /\ Threads[<<PID, TID>>].regs = regs
      /\ Abstract!InstructionOf(<<PID, TID>>) = Fetched
  BY <1>2, MachineFetches
<1>9. Computes(Fetched) \/ Calls(Fetched)
  BY <1>2, <1>3 DEF Computes, Calls
<1>10. /\ Abstract!Computes(Fetched) \/ Abstract!Calls(Fetched)
       /\ r = Abstract!Computed(regs, Fetched)
  BY <1>4, <1>9, SameArithmetic, Zenon
<1>11. Abstract!Compute(<<PID, TID>>)
  BY <1>6, <1>7, <1>8, <1>10, Zenon DEF Abstract!Compute, Spaces, Threads
<1>12. QED
  BY <1>7, <1>8, <1>11 DEF Abstract!Execute

\* A read finds what the process has at that address of its own.
LEMMA LoadStep ==
  ASSUME IInv, IInv', CpuStep, ExecuteRead
  PROVE  Abstract!Execute(<<PID, TID>>)
<1>1. MemoryInv /\ Kernel /\ Cycle /\ Contexts /\ Types /\ Mounted
  BY DEF IInv
<1>2. Executing({"READ_MEM"}) /\ ~Faults(AddressOf(Fetched))
  BY DEF ExecuteRead
<1>3. /\ Fetched \in Instruction /\ Fetched.op = "READ_MEM" /\ regs \in Registers
      /\ cpu = "EXECUTE"
  BY <1>1, <1>2, FetchedIs
<1>4. PICK a \in Word : a = AddressOf(Fetched)
  BY <1>3, AddressIs
<1>5. PICK b \in Nat, n \in Nat :
        b = PartitionOf(PID).base /\ n = PartitionOf(PID).size
  BY <1>2, <1>1, MachineFetches, PartitionFits
<1>6. a \in Nat /\ RegisterBytes \in Nat /\ a + RegisterBytes < n /\ Physical(a) = b + a
  BY <1>1, <1>2, <1>3, <1>4, <1>5, Translated
<1>7. PID \in Pid /\ PID \in Nat /\ Known(PID)
  BY <1>2, MachineFetches
<1>8. /\ Len(Bytes(PID)) = n /\ Spaces[PID].bytes = Bytes(PID)
      /\ \A k \in 1 .. n : /\ Bytes(PID)[k] = mainMemory[b + k - 1]
                           /\ Bytes(PID)[k] \in Byte
  BY <1>1, <1>5, <1>7, BytesAre, SpaceIs
<1> DEFINE loaded == SubSeq(Bytes(PID), a + 1, a + RegisterBytes)
<1>9. loaded = Loaded(a)
  <2>1. \A k \in 1 .. RegisterBytes :
          /\ a + k \in 1 .. n /\ (a + 1) + k - 1 = a + k
          /\ b + (a + k) - 1 = (b + a) + k - 1
    BY <1>4, <1>5, <1>6
  <2>2. PICK from \in 1 .. n, to \in 1 .. n :
          /\ from = a + 1 /\ to = a + RegisterBytes
          /\ to - from + 1 = RegisterBytes
    BY <1>6, OpcodesAssumption
  <2>3. Bytes(PID) \in Seq(Byte) /\ Len(Bytes(PID)) = n
    BY <1>1, <1>7, <1>8, BytesAre
  <2>4. SubSeq(Bytes(PID), from, to)
          = [k \in 1 .. to - from + 1 |-> Bytes(PID)[from + k - 1]]
    BY <2>3
  <2>5. loaded = [k \in 1 .. RegisterBytes |-> Bytes(PID)[(a + 1) + k - 1]]
    BY <2>2, <2>4
  <2>6. ASSUME NEW k \in 1 .. RegisterBytes
        PROVE  loaded[k] = mainMemory[Physical(a) + k - 1]
    <3>1. loaded[k] = Bytes(PID)[a + k]
      BY <2>1, <2>5
    <3>2. Bytes(PID)[a + k] = mainMemory[b + (a + k) - 1]
      BY <1>8, <2>1
    <3>3. b + (a + k) - 1 = Physical(a) + k - 1
      BY <1>6, <2>1
    <3>4. QED
      BY <3>1, <3>2, <3>3
  <2>7. QED
    BY <2>5, <2>6, Zenon DEF Loaded
<1> HIDE DEF loaded
<1>10. PICK r \in Registers : r = Put(regs, Fetched.a, WordOf(loaded))
  <2>1. WordOf(loaded) \in Word
    BY <1>1, <1>2, <1>3, <1>4, <1>9, LoadedIs
  <2>2. Fetched.a \in Register
    BY <1>3 DEF Instruction
  <2>3. QED
    BY <1>3, <2>1, <2>2, PutType
<1>11. /\ EXEC_CONTEXT' = [EXEC_CONTEXT EXCEPT !.regs = r] /\ cpu' \in {"CHECK", "UPDATE"}
       /\ UNCHANGED <<mainMemory, context, PID, TID>>
  BY <1>4, <1>9, <1>10 DEF ExecuteRead, Succeeds, Loaded, userVars
<1>12. Abstract!Becomes(<<PID, TID>>, r)
  BY <1>3, <1>11, MachineMoves
<1>13. UNCHANGED <<Spaces, DumpOf>>
  BY <1>11, CpuSpaces
<1>14. /\ Abstract!CanExecute(<<PID, TID>>) /\ Threads[<<PID, TID>>].regs = regs
       /\ Abstract!InstructionOf(<<PID, TID>>) = Fetched
  BY <1>2, MachineFetches
<1>15. /\ regs[Fetched.b] = a /\ a + RegisterBytes <= Len(Bytes(PID))
  BY <1>3, <1>4, <1>5, <1>6, <1>8 DEF AddressOf
<1>16. r = Abstract!Put(regs, Fetched.a, Abstract!WordOf(loaded))
  BY <1>10, SameArithmetic, Zenon
<1>17. Abstract!Within(PID, a)
  BY <1>8, <1>15 DEF Abstract!Within, Spaces
<1>18. <<PID, TID>>[1] = PID
  OBVIOUS
<1>19. Abstract!Load(<<PID, TID>>)
  <2>1. loaded = SubSeq(Spaces[PID].bytes, a + 1, a + RegisterBytes)
    BY <1>8 DEF loaded
  <2>2. QED
    BY <1>3, <1>12, <1>13, <1>14, <1>15, <1>16, <1>17, <1>18, <2>1, Zenon
       DEF Abstract!Load, Spaces, Threads
<1>20. QED
  BY <1>13, <1>14, <1>19 DEF Abstract!Execute

LEMMA SameSpaces ==
  ASSUME NEW S, NEW s \in [size : Nat, bytes : S], NEW f \in S
  PROVE  [s EXCEPT !.bytes = f] = [size |-> s.size, bytes |-> f]
OBVIOUS

\* A write changes the bytes of a register in the partition of its process,
\* and no byte of another's.
LEMMA StoreStep ==
  ASSUME IInv, IInv', CpuStep, ExecuteWrite
  PROVE  Abstract!Execute(<<PID, TID>>)
<1>1. MemoryInv /\ Kernel /\ Cycle /\ Contexts /\ Types /\ Mounted
  BY DEF IInv
<1>2. Executing({"WRITE_MEM"}) /\ ~Faults(AddressOf(Fetched)) /\ CpuStill
  BY CpuIs DEF ExecuteWrite
<1>3. /\ Fetched \in Instruction /\ Fetched.op = "WRITE_MEM" /\ regs \in Registers
      /\ cpu = "EXECUTE"
  BY <1>1, <1>2, FetchedIs
<1>4. PICK a \in Word : a = AddressOf(Fetched)
  BY <1>3, AddressIs
<1>5. PID \in Pid /\ PID \in Nat /\ Known(PID)
  BY <1>2, MachineFetches
<1>6. PICK b \in Nat, n \in Nat :
        b = PartitionOf(PID).base /\ n = PartitionOf(PID).size /\ b + n <= MemorySize
  BY <1>1, <1>5, PartitionFits
<1>7. a \in Nat /\ RegisterBytes \in Nat /\ a + RegisterBytes < n /\ Physical(a) = b + a
  BY <1>1, <1>2, <1>3, <1>4, <1>6, Translated
<1>8. PICK w \in [1 .. RegisterBytes -> Byte] : w = BytesOf(regs[Fetched.b])
  <2>1. regs[Fetched.b] \in Word
    BY <1>3 DEF Instruction, Registers
  <2>2. QED
    BY <2>1, BytesOfWord
<1>9. PICK phys \in Nat : phys = b + a
  BY <1>7
<1>10. /\ mainMemory' = Overwritten(phys, w)
       /\ \A i \in 0 .. MemorySize - 1 :
            mainMemory'[i] = IF i - phys + 1 \in 1 .. RegisterBytes
                             THEN w[i - phys + 1] ELSE mainMemory[i]
  <2>1. mainMemory' = Overwritten(phys, w)
    BY <1>4, <1>7, <1>8, <1>9 DEF ExecuteWrite
  <2>2. QED
    BY <1>1, <2>1, OverwrittenIs
<1>11. ASSUME NEW q \in Pid, q # PID PROVE SpaceOf(q)' = SpaceOf(q)
  <2>1. q \in Nat /\ SameSpace(q)
    BY <1>2, TablesStay, PidIs DEF CpuStill, Untouched
  <2>2. ASSUME Known(q), NEW k \in 1 .. PartitionOf(q).size
        PROVE  mainMemory'[PartitionOf(q).base + k - 1]
                 = mainMemory[PartitionOf(q).base + k - 1]
    <3>1. PICK c \in Nat, m \in Nat : c = PartitionOf(q).base /\ m = PartitionOf(q).size
      BY <1>1, <2>1, <2>2, PartitionFits
    <3>2. b + n <= c \/ c + m <= b
      BY <1>1, <1>5, <1>6, <1>11, <2>1, <2>2, <3>1, PartitionsApart
    <3>3. PICK i \in 0 .. MemorySize - 1 : i = c + k - 1
      BY <1>1, <2>1, <2>2, <3>1, BytesAre
    <3>4. ~ (i - phys + 1 \in 1 .. RegisterBytes)
      <4>1. PICK j \in Nat : j = k /\ 1 <= j /\ j <= m
        BY <2>2, <3>1
      <4>2. i = c + j - 1 /\ b <= phys /\ phys + RegisterBytes < b + n
        BY <1>7, <1>9, <3>3, <4>1
      <4>3. QED
        BY <1>7, <3>2, <4>1, <4>2
    <3>5. mainMemory'[i] = mainMemory[i]
      BY <1>10, <3>4
    <3>6. QED
      BY <3>1, <3>3, <3>5
  <2>3. QED
    BY <1>1, <2>1, <2>2, SpaceStays
<1> DEFINE f == [k \in DOMAIN Bytes(PID) |->
                   IF k - a \in 1 .. RegisterBytes THEN w[k - a] ELSE Bytes(PID)[k]]
<1>12. /\ DOMAIN Bytes(PID) = 1 .. n /\ Bytes(PID) \in Seq(Byte) /\ Len(Bytes(PID)) = n
       /\ \A k \in 1 .. n : /\ b + k - 1 \in 0 .. MemorySize - 1
                            /\ Bytes(PID)[k] = mainMemory[b + k - 1]
                            /\ Bytes(PID)[k] \in Byte
  BY <1>1, <1>5, <1>6, BytesAre
<1>13. PartitionOf(PID)' = PartitionOf(PID) /\ Known(PID)' /\ Slot(PID)' = Slot(PID)
  <2>1. UNCHANGED PID
    BY DEF ExecuteWrite
  <2>2. QED
    BY <1>2, <1>5, <2>1 DEF CpuStill, PartitionOf, Slot, Known
<1>14. Bytes(PID)' = f
  <2>1. Bytes(PID)' = [k \in 1 .. n |-> mainMemory'[b + k - 1]]
    BY <1>6, <1>13 DEF Bytes, BytesOfPartition
  <2>2. ASSUME NEW k \in 1 .. n
        PROVE  mainMemory'[b + k - 1] = IF k - a \in 1 .. RegisterBytes
                                        THEN w[k - a] ELSE Bytes(PID)[k]
    <3>1. PICK i \in 0 .. MemorySize - 1 : i = b + k - 1 /\ Bytes(PID)[k] = mainMemory[i]
      BY <1>12
    <3>2. i - phys + 1 = k - a
      <4>1. a \in Nat
        BY <1>7
      <4>2. k \in Nat /\ i \in Nat /\ i = b + k - 1
        BY <3>1
      <4>3. QED
        BY <1>9, <4>1, <4>2
    <3>3. mainMemory'[i] = IF i - phys + 1 \in 1 .. RegisterBytes
                           THEN w[i - phys + 1] ELSE mainMemory[i]
      BY <1>10
    <3>4. QED
      BY <3>1, <3>2, <3>3, Zenon
  <2>3. f = [k \in 1 .. n |-> IF k - a \in 1 .. RegisterBytes
                              THEN w[k - a] ELSE Bytes(PID)[k]]
    BY <1>12, Zenon
  <2>4. QED
    BY <2>1, <2>2, <2>3, Zenon
<1>15. f \in Seq(Byte)
  <2>1. \A k \in 1 .. n : (IF k - a \in 1 .. RegisterBytes
                           THEN w[k - a] ELSE Bytes(PID)[k]) \in Byte
    BY <1>8, <1>12
  <2>2. f \in [1 .. n -> Byte]
    BY <1>12, <2>1
  <2> HIDE DEF f
  <2>3. QED
    BY <2>2
<1> HIDE DEF f
<1>16. SpaceOf(PID)' = [SpaceOf(PID) EXCEPT !.bytes = f]
  <2>1. PICK s \in [size : Nat, bytes : Seq(Byte)] :
          s = SpaceOf(PID) /\ s.size = Slot(PID).size
    BY <1>1, <1>5, SpaceIs
  <2>2. SpaceOf(PID)' = [size |-> s.size, bytes |-> f]
    BY <1>13, <1>14, <2>1 DEF SpaceOf, Bytes
  <2>3. [s EXCEPT !.bytes = f] = [size |-> s.size, bytes |-> f]
    BY <1>15, SameSpaces
  <2>4. QED
    BY <2>1, <2>2, <2>3, Zenon
<1>17. Spaces' = [Spaces EXCEPT ![PID].bytes = f]
  <2>1. PICK p \in Pid : p = PID
    BY <1>5
  <2>2. PID' = PID
    BY DEF ExecuteWrite
  <2>3. SpaceOf(p)' = [SpaceOf(p) EXCEPT !.bytes = f]
    BY <1>16, <2>1, <2>2
  <2>4. \A q \in Pid : SpaceOf(q)' = IF q = p THEN [SpaceOf(p) EXCEPT !.bytes = f]
                                     ELSE SpaceOf(q)
    BY <1>11, <2>1, <2>3
  <2>5. Spaces' = [Spaces EXCEPT ![p] = [SpaceOf(p) EXCEPT !.bytes = f]]
    BY <2>4 DEF Spaces
  <2>6. Spaces[p] = SpaceOf(p)
    BY DEF Spaces
  <2>7. QED
    BY <2>1, <2>5, <2>6, Zenon
<1>18. PICK r \in Registers : r = Advanced(regs)
  <2>1. 0 \in Word /\ "PC" \in Register
    BY ModulusIs, OpcodesAssumption
  <2>2. QED
    BY <1>3, <2>1, PutType
<1>19. /\ EXEC_CONTEXT' = [EXEC_CONTEXT EXCEPT !.regs = r] /\ cpu' \in {"CHECK", "UPDATE"}
       /\ UNCHANGED <<context, PID, TID>>
  BY <1>18 DEF ExecuteWrite, Succeeds
<1>20. Abstract!Becomes(<<PID, TID>>, r)
  BY <1>3, <1>19, MachineMoves
<1>21. UNCHANGED DumpOf
  BY <1>2, DumpStays DEF CpuStill
<1>22. /\ Abstract!CanExecute(<<PID, TID>>) /\ Threads[<<PID, TID>>].regs = regs
       /\ Abstract!InstructionOf(<<PID, TID>>) = Fetched
  BY <1>2, MachineFetches
<1>23. Spaces[PID].bytes = Bytes(PID) /\ <<PID, TID>>[1] = PID
  BY <1>1, <1>5, SpaceIs
<1>24. regs[Fetched.a] = a /\ Abstract!Within(PID, a)
  BY <1>3, <1>4, <1>6, <1>7, <1>12, <1>23 DEF AddressOf, Abstract!Within, Spaces
<1>25. /\ w = Abstract!BytesOf(regs[Fetched.b]) /\ r = Abstract!Advanced(regs)
  BY <1>8, <1>18, SameArithmetic, Zenon
<1>26. Abstract!Store(<<PID, TID>>)
  <2>1. Spaces' = [Spaces EXCEPT ![PID].bytes =
                     [k \in DOMAIN @ |-> IF k - a \in 1 .. RegisterBytes
                                         THEN w[k - a] ELSE @[k]]]
    BY <1>17, <1>23, Zenon DEF f
  <2> DEFINE Stored(p, at, new) ==
               [Spaces EXCEPT ![p].bytes =
                  [k \in DOMAIN @ |-> IF k - at \in 1 .. RegisterBytes
                                      THEN new[k - at] ELSE @[k]]]
  <2>2. Spaces' = Stored(PID, a, w)
    BY <2>1
  <2> HIDE DEF Stored
  <2>3. PICK x : /\ x = <<PID, TID>> /\ x[1] = PID /\ Threads[x].regs = regs
                 /\ Abstract!InstructionOf(x) = Fetched
                 /\ Abstract!Becomes(x, r)
    BY <1>20, <1>22, <1>23, Zenon
  <2>4. /\ Threads[x].regs[Abstract!InstructionOf(x).a] = a
        /\ Abstract!BytesOf(Threads[x].regs[Abstract!InstructionOf(x).b]) = w
        /\ Abstract!Advanced(Threads[x].regs) = r
    BY <1>24, <1>25, <2>3, Zenon
  <2>5. Spaces' = Stored(x[1], Threads[x].regs[Abstract!InstructionOf(x).a],
                         Abstract!BytesOf(Threads[x].regs[Abstract!InstructionOf(x).b]))
    BY <2>2, <2>3, <2>4, Zenon
  <2>6. /\ Abstract!InstructionOf(x).op = "WRITE_MEM"
        /\ Abstract!Within(x[1], Threads[x].regs[Abstract!InstructionOf(x).a])
        /\ Abstract!Becomes(x, Abstract!Advanced(Threads[x].regs))
    BY <1>3, <1>24, <2>3, <2>4, Zenon
  <2>7. Abstract!Store(x)
    BY <2>5, <2>6, Zenon DEF Stored, Abstract!Store, Spaces, Threads
  <2>8. QED
    BY <2>3, <2>7, Zenon
<1>27. QED
  BY <1>21, <1>22, <1>26 DEF Abstract!Execute

LEMMA CpuSimulates ==
  ASSUME IInv, IInv', CpuStep
  PROVE  Abstract!Next \/ Hidden
<1>1. Kernel /\ Cycle /\ Contexts /\ Types
  BY DEF IInv
<1>2. CASE \/ ExecuteRegisters \/ ExecuteCall \/ ExecuteBadCall \/ ExecuteRead
           \/ ExecuteWrite
  <2>1. Abstract!Execute(<<PID, TID>>)
    BY <1>2, ComputeStep, LoadStep, StoreStep
  <2>2. cpu = "EXECUTE"
    BY <1>2 DEF ExecuteRegisters, ExecuteCall, ExecuteBadCall, ExecuteRead, ExecuteWrite,
                Executing
  <2>3. <<PID, TID>> \in Thread
    BY <1>1, <2>2, RunningIs
  <2>4. QED
    BY <2>1, <2>3 DEF Abstract!Next, Abstract!Thread, Thread
<1>3. CASE \/ ReceivePid \/ ReceiveTid \/ Reset \/ SeekContext \/ ContextRefused
           \/ FetchFails \/ ExecuteBad \/ ExecuteFaults
           \/ Check \/ Update \/ Evict \/ ReceiveInterrupt
  BY <1>3, CpuHides
<1>4. QED
  BY <1>2, <1>3 DEF CpuStep

\* Every step is one of the machine, or none that programs can see.
LEMMA StepSimulates ==
  IInv /\ IInv' /\ [Next]_vars => [Abstract!Next]_(Abstract!machineVars)
<1> SUFFICES ASSUME IInv, IInv', [Next]_vars PROVE Abstract!Next \/ Hidden
  BY DEF Hidden, Spaces, Threads, Abstract!machineVars
<1>1. CASE UNCHANGED vars
  <2>1. UNCHANGED <<table, process, mainMemory, context, dump, cpu, PID, TID, EXEC_CONTEXT>>
    BY <1>1 DEF vars, memVars, userVars, cycleVars
  <2>2. \A p \in Pid : SameSpace(p)
    BY <2>1, TablesStay, PidIs DEF Untouched
  <2>3. MemoryInv /\ Types
    BY DEF IInv
  <2>4. QED
    BY <2>1, <2>2, <2>3, SpacesStay, ThreadsStay, DumpStays DEF Hidden
<1>2. QED
  BY <1>1, KernelSimulates, DumpSimulates, CpuSimulates DEF Next

LEMMA InitSimulates == Init => Abstract!Init
<1> SUFFICES ASSUME Init PROVE Abstract!Init
  OBVIOUS
<1>1. IInv
  BY InitInv
<1>2. \A p \in Pid : SpaceOf(p) = Null
  <2>1. Len(process) = 0
    BY DEF Init, MemoryInit
  <2>2. \A p \in Pid : ~Known(p)
    BY <2>1, PidIs DEF Known
  <2>3. QED
    BY <2>2 DEF SpaceOf
<1>3. \A x \in Thread : ThreadOf(x) = Null
  BY <1>1, ThreadIs DEF Init
<1>4. DumpOf = Null
  BY DEF Init, DumpOf
<1>5. QED
  BY <1>2, <1>3, <1>4 DEF Abstract!Init, Abstract!Thread, Thread

\* CPU and memory implement the machine that programs see: what mmu lets pass
\* stays in the partition of the process, which joins, splits and dumps leave
\* alone, and a thread goes on where it was with the registers it had, however
\* often it is evicted and dispatched again.
THEOREM MachineImplemented == Spec => Implements
BY Invariance, InitSimulates, StepSimulates, PTL DEF Spec, Implements, Abstract!Spec
=============================================================================
