---------------------------- MODULE MemoryProofs ----------------------------
(***************************************************************************)
(* The partition table survives every request, for any user space, sizes,  *)
(* partitions, schemes and fits: lemmas for the modules that compose       *)
(* Memory with somebody who makes the requests.                            *)
(*                                                                         *)
(* Splitting inserts a partition after one that was free, and joining      *)
(* merges two free neighbours.  Both leave the table covering the user     *)
(* space, and neither touches an occupied partition, so that who owns what *)
(* depends on the occupied ones alone (Taken).                             *)
(***************************************************************************)
EXTENDS Memory, FiniteSetTheorems, SequenceTheorems, TLAPS

Part == [id : Nat, base : Nat, size : Nat, occupied : BOOLEAN]

-----------------------------------------------------------------------------
(* Sequences                                                               *)

LEMMA InsertFacts ==
  ASSUME NEW S, NEW s \in Seq(S), NEW k \in 1 .. Len(s) + 1, NEW e \in S
  PROVE  /\ InsertAt(s, k, e) \in Seq(S)
         /\ Len(InsertAt(s, k, e)) = Len(s) + 1
         /\ \A j \in 1 .. Len(s) + 1 :
              /\ j < k => InsertAt(s, k, e)[j] = s[j]
              /\ j = k => InsertAt(s, k, e)[j] = e
              /\ j > k => InsertAt(s, k, e)[j] = s[j - 1]
<1> DEFINE front == SubSeq(s, 1, k - 1)
           back == SubSeq(s, k, Len(s))
<1>1. Len(s) \in Nat /\ \A i \in 1 .. Len(s) : s[i] \in S
  BY ElementOfSeq
<1>2. /\ front \in Seq(S) /\ Len(front) = k - 1
      /\ \A i \in 1 .. k - 1 : front[i] = s[i]
  <2>1. \A i \in 1 .. k - 1 : s[i] \in S
    BY <1>1
  <2>2. k - 1 \in Int /\ k \in Nat
    BY <1>1
  <2>3. QED
    BY <2>1, <2>2, SubSeqProperties
<1>3. /\ back \in Seq(S) /\ Len(back) = Len(s) - k + 1
      /\ \A i \in 1 .. Len(s) - k + 1 : back[i] = s[k + i - 1]
  <2>1. \A i \in k .. Len(s) : s[i] \in S
    BY <1>1
  <2>2. QED
    BY <1>1, <2>1, SubSeqProperties
<1> HIDE DEF front, back
<1>4. PICK head \in Seq(S) :
        /\ head = front \o <<e>> /\ Len(head) = k
        /\ \A i \in 1 .. k : head[i] = IF i < k THEN s[i] ELSE e
  <2>1. PICK last \in Seq(S) : last = <<e>> /\ Len(last) = 1 /\ last[1] = e
    <3>1. <<e>> \in Seq(S) /\ Len(<<e>>) = 1 /\ <<e>>[1] = e
      OBVIOUS
    <3>2. QED
      BY <3>1, Zenon
  <2>2. /\ front \o last \in Seq(S)
        /\ Len(front \o last) = (k - 1) + 1
        /\ \A i \in 1 .. (k - 1) + 1 :
             (front \o last)[i] = IF i <= k - 1 THEN front[i] ELSE last[i - (k - 1)]
    BY <1>2, <2>1, ConcatProperties
  <2>3. k \in Nat /\ (k - 1) + 1 = k
    BY <1>1
  <2>4. ASSUME NEW i \in 1 .. k
        PROVE  (front \o last)[i] = IF i < k THEN s[i] ELSE e
    <3>1. CASE i < k
      BY <1>2, <2>2, <2>3, <3>1
    <3>2. CASE i = k
      <4>1. i - (k - 1) = 1 /\ ~ (i <= k - 1) /\ i \in 1 .. (k - 1) + 1
        BY <2>3, <3>2
      <4>2. (front \o last)[i] = last[1]
        BY <2>2, <4>1
      <4>3. ~ (i < k)
        BY <2>3, <3>2
      <4>4. QED
        BY <2>1, <4>2, <4>3, Zenon
    <3>3. i < k \/ i = k
      BY <2>3
    <3>4. QED
      BY <3>1, <3>2, <3>3, Zenon
  <2>5. Len(front \o last) = k
    BY <2>2, <2>3
  <2>6. QED
    BY <2>1, <2>2, <2>4, <2>5, Zenon
<1>5. /\ head \o back \in Seq(S) /\ Len(head \o back) = Len(s) + 1
      /\ \A j \in 1 .. Len(s) + 1 :
           (head \o back)[j] = IF j <= k THEN head[j] ELSE back[j - k]
  <2>1. k + (Len(s) - k + 1) = Len(s) + 1
    BY <1>1
  <2>2. /\ head \o back \in Seq(S)
        /\ Len(head \o back) = Len(head) + Len(back)
        /\ \A j \in 1 .. Len(head) + Len(back) :
             (head \o back)[j]
               = IF j <= Len(head) THEN head[j] ELSE back[j - Len(head)]
    <3>1. head \in Seq(S) /\ back \in Seq(S)
      BY <1>3, Zenon
    <3>2. QED
      BY <3>1, ConcatProperties, Zenon
  <2>3. Len(head) = k /\ Len(back) = Len(s) - k + 1
    BY <1>3, <1>4
  <2>4. QED
    BY <2>1, <2>2, <2>3, Zenon
<1>6. InsertAt(s, k, e) = head \o back
  BY <1>4 DEF InsertAt, front, back
<1>7. ASSUME NEW j \in 1 .. Len(s) + 1, j > k
      PROVE  back[j - k] = s[j - 1]
  <2>1. j - k \in 1 .. Len(s) - k + 1 /\ k + (j - k) - 1 = j - 1
    BY <1>1, <1>7
  <2>2. QED
    BY <1>3, <2>1
<1>8. ASSUME NEW j \in 1 .. Len(s) + 1
      PROVE  InsertAt(s, k, e)[j] = IF j < k THEN s[j]
                                    ELSE IF j = k THEN e ELSE s[j - 1]
  <2>1. CASE j <= k
    <3>1. j \in 1 .. k /\ InsertAt(s, k, e)[j] = head[j]
      BY <1>1, <1>5, <1>6, <2>1
    <3>2. QED
      BY <1>1, <1>4, <3>1
  <2>2. CASE j > k
    BY <1>1, <1>5, <1>6, <1>7, <2>2
  <2>3. QED
    BY <1>1, <2>1, <2>2
<1>9. ASSUME NEW j \in 1 .. Len(s) + 1
      PROVE  /\ j < k => InsertAt(s, k, e)[j] = s[j]
             /\ j = k => InsertAt(s, k, e)[j] = e
             /\ j > k => InsertAt(s, k, e)[j] = s[j - 1]
  BY <1>1, <1>8
<1>10. QED
  BY <1>5, <1>6, <1>9

LEMMA RemoveFacts ==
  ASSUME NEW S, NEW s \in Seq(S), NEW k \in 1 .. Len(s)
  PROVE  /\ RemoveAt(s, k) \in Seq(S)
         /\ Len(RemoveAt(s, k)) = Len(s) - 1
         /\ \A j \in 1 .. Len(s) - 1 :
              RemoveAt(s, k)[j] = IF j < k THEN s[j] ELSE s[j + 1]
<1> DEFINE front == SubSeq(s, 1, k - 1)
           back == SubSeq(s, k + 1, Len(s))
<1>1. Len(s) \in Nat /\ \A i \in 1 .. Len(s) : s[i] \in S
  BY ElementOfSeq
<1>2. /\ front \in Seq(S) /\ Len(front) = k - 1
      /\ \A i \in 1 .. k - 1 : front[i] = s[i]
  <2>1. \A i \in 1 .. k - 1 : s[i] \in S
    BY <1>1
  <2>2. k - 1 \in Int /\ k \in Nat
    BY <1>1
  <2>3. QED
    BY <2>1, <2>2, SubSeqProperties
<1>3. /\ back \in Seq(S) /\ Len(back) = Len(s) - k
      /\ \A i \in 1 .. Len(s) - k : back[i] = s[k + i]
  <2>1. \A i \in k + 1 .. Len(s) : s[i] \in S
    BY <1>1
  <2>2. k + 1 \in Int /\ k \in Nat
    BY <1>1
  <2>3. /\ back \in Seq(S)
        /\ Len(back) = IF k + 1 <= Len(s) THEN Len(s) - (k + 1) + 1 ELSE 0
        /\ \A i \in 1 .. Len(s) - (k + 1) + 1 : back[i] = s[k + 1 + i - 1]
    BY <1>1, <2>1, <2>2, SubSeqProperties
  <2>4. QED
    BY <1>1, <2>2, <2>3
<1> HIDE DEF front, back
<1>4. /\ front \o back \in Seq(S)
      /\ Len(front \o back) = Len(s) - 1
      /\ \A j \in 1 .. Len(s) - 1 :
           (front \o back)[j] = IF j <= k - 1 THEN front[j] ELSE back[j - (k - 1)]
  <2>1. Len(front) + Len(back) = Len(s) - 1
    BY <1>1, <1>2, <1>3
  <2>2. /\ front \o back \in Seq(S)
        /\ Len(front \o back) = Len(front) + Len(back)
        /\ \A j \in 1 .. Len(front) + Len(back) :
             (front \o back)[j]
               = IF j <= Len(front) THEN front[j] ELSE back[j - Len(front)]
    BY <1>2, <1>3, ConcatProperties, Zenon
  <2>3. Len(front) = k - 1
    BY <1>2
  <2>4. QED
    BY <2>1, <2>2, <2>3, Zenon
<1>5. RemoveAt(s, k) = front \o back
  BY DEF RemoveAt, front, back
<1>6. ASSUME NEW j \in 1 .. Len(s) - 1, j >= k
      PROVE  back[j - (k - 1)] = s[j + 1]
  <2>1. j - (k - 1) \in 1 .. Len(s) - k /\ k + (j - (k - 1)) = j + 1
    BY <1>1, <1>6
  <2>2. QED
    BY <1>3, <2>1
<1>7. ASSUME NEW j \in 1 .. Len(s) - 1
      PROVE  RemoveAt(s, k)[j] = IF j < k THEN s[j] ELSE s[j + 1]
  <2>1. CASE j < k
    <3>1. j <= k - 1 /\ j \in 1 .. k - 1
      BY <1>1, <2>1
    <3>2. QED
      BY <1>2, <1>4, <1>5, <2>1, <3>1
  <2>2. CASE j >= k
    <3>1. ~ (j <= k - 1) /\ ~ (j < k)
      BY <1>1, <2>2
    <3>2. QED
      BY <1>4, <1>5, <1>6, <2>2, <3>1
  <2>3. QED
    BY <1>1, <2>1, <2>2
<1>8. QED
  BY <1>4, <1>5, <1>7

-----------------------------------------------------------------------------
(* Tables                                                                  *)

Tiles(t, end) ==
  /\ t # <<>> /\ t[1].base = 0
  /\ \A i \in 1 .. Len(t) - 1 : t[i + 1].base = t[i].base + t[i].size
  /\ t[Len(t)].base + t[Len(t)].size = end

Unique(t) == \A i, j \in DOMAIN t : t[i].id = t[j].id => i = j

\* The partitions in use
Taken(t) == {t[k] : k \in {j \in DOMAIN t : t[j].occupied}}

\* No two free neighbours, but perhaps at the positions given
PackedBut(t, positions) ==
  \A j \in 1 .. Len(t) - 1 :
    j \in positions \/ t[j].occupied \/ t[j + 1].occupied

\* Partition k takes in its right neighbour
Merged(t, k) == RemoveAt([t EXCEPT ![k].size = @ + t[k + 1].size], k + 1)

LEMMA PartOfSize ==
  ASSUME NEW p \in Part, NEW n \in Nat
  PROVE  /\ [p EXCEPT !.size = n] \in Part
         /\ [p EXCEPT !.size = n].id = p.id /\ [p EXCEPT !.size = n].base = p.base
         /\ [p EXCEPT !.size = n].size = n
         /\ [p EXCEPT !.size = n].occupied = p.occupied
BY DEF Part

LEMMA PartFields ==
  ASSUME NEW p \in Part
  PROVE  p.id \in Nat /\ p.base \in Nat /\ p.size \in Nat /\ p.occupied \in BOOLEAN
BY DEF Part

LEMMA MergeFacts ==
  ASSUME NEW t \in Seq(Part), NEW k \in 1 .. Len(t) - 1
  PROVE  /\ Merged(t, k) \in Seq(Part)
         /\ Len(Merged(t, k)) = Len(t) - 1
         /\ \A j \in 1 .. Len(t) - 1 :
              /\ j < k => Merged(t, k)[j] = t[j]
              /\ j > k => Merged(t, k)[j] = t[j + 1]
         /\ Merged(t, k)[k] = [t[k] EXCEPT !.size = @ + t[k + 1].size]
<1> DEFINE wide == [t[k] EXCEPT !.size = @ + t[k + 1].size]
           grown == [t EXCEPT ![k] = wide]
<1>1. /\ Len(t) \in Nat /\ k \in Nat /\ k \in 1 .. Len(t)
      /\ k + 1 \in 1 .. Len(t) /\ k < k + 1
  OBVIOUS
<1>2. t[k] \in Part /\ t[k + 1] \in Part
  BY <1>1, ElementOfSeq
<1>3. wide \in Part
  <2>1. t[k].size + t[k + 1].size \in Nat
    BY <1>2, PartFields
  <2>2. wide = [t[k] EXCEPT !.size = t[k].size + t[k + 1].size]
    BY <1>2 DEF Part
  <2>3. QED
    BY <1>2, <2>1, <2>2, PartOfSize
<1>4. /\ grown \in Seq(Part) /\ Len(grown) = Len(t)
      /\ \A j \in 1 .. Len(t) : grown[j] = IF j = k THEN wide ELSE t[j]
  <2> HIDE DEF wide
  <2>1. QED
    BY <1>1, <1>3, ExceptSeq
<1>5. Merged(t, k) = RemoveAt(grown, k + 1)
  BY DEF Merged
<1> HIDE DEF grown, wide
<1>6. /\ Merged(t, k) \in Seq(Part)
      /\ Len(Merged(t, k)) = Len(t) - 1
      /\ \A j \in 1 .. Len(t) - 1 :
           Merged(t, k)[j] = IF j < k + 1 THEN grown[j] ELSE grown[j + 1]
  <2>1. k + 1 \in 1 .. Len(grown)
    BY <1>1, <1>4
  <2>2. /\ RemoveAt(grown, k + 1) \in Seq(Part)
        /\ Len(RemoveAt(grown, k + 1)) = Len(grown) - 1
        /\ \A j \in 1 .. Len(grown) - 1 :
             RemoveAt(grown, k + 1)[j] = IF j < k + 1 THEN grown[j] ELSE grown[j + 1]
    BY <1>4, <2>1, RemoveFacts
  <2>3. QED
    BY <1>4, <1>5, <2>2
<1>7. ASSUME NEW j \in 1 .. Len(t) - 1
      PROVE  /\ j < k => Merged(t, k)[j] = t[j]
             /\ j > k => Merged(t, k)[j] = t[j + 1]
  <2>1. j \in 1 .. Len(t) /\ j + 1 \in 1 .. Len(t)
    BY <1>1
  <2>2. ASSUME j < k PROVE Merged(t, k)[j] = t[j]
    BY <1>1, <1>4, <1>6, <2>1, <2>2
  <2>3. ASSUME j > k PROVE Merged(t, k)[j] = t[j + 1]
    BY <1>1, <1>4, <1>6, <2>1, <2>3
  <2>4. QED
    BY <2>2, <2>3
<1>8. Merged(t, k)[k] = wide
  BY <1>1, <1>4, <1>6
<1>9. QED
  BY <1>6, <1>7, <1>8 DEF wide

\* A merged partition is as free or taken as the first of the two.
LEMMA MergedOccupied ==
  ASSUME NEW t \in Seq(Part), NEW k \in 1 .. Len(t) - 1
  PROVE  Merged(t, k)[k].occupied = t[k].occupied
<1>1. k \in 1 .. Len(t)
  OBVIOUS
<1>2. t[k] \in Part
  BY <1>1, ElementOfSeq
<1>3. [t[k] EXCEPT !.size = @ + t[k + 1].size].occupied = t[k].occupied
  BY <1>2 DEF Part
<1>4. Merged(t, k)[k] = [t[k] EXCEPT !.size = @ + t[k + 1].size]
  BY MergeFacts, Zenon
<1>5. QED
  BY <1>3, <1>4, Zenon

LEMMA TakenIs ==
  ASSUME NEW t \in Seq(Part), NEW p
  PROVE  p \in Taken(t) <=> \E k \in 1 .. Len(t) : t[k].occupied /\ t[k] = p
<1>1. DOMAIN t = 1 .. Len(t)
  OBVIOUS
<1>2. QED
  BY <1>1, Zenon DEF Taken

\* Two free neighbours become one.
LEMMA MergeKeeps ==
  ASSUME NEW t \in Seq(Part), NEW k \in 1 .. Len(t) - 1,
         ~ t[k].occupied, ~ t[k + 1].occupied,
         NEW end, Tiles(t, end), Unique(t)
  PROVE  /\ Tiles(Merged(t, k), end) /\ Unique(Merged(t, k))
         /\ Taken(Merged(t, k)) = Taken(t)
<1> DEFINE m == Merged(t, k)
           n == Len(t) - 1
<1>1. /\ Len(t) \in Nat /\ k \in 1 .. n /\ n \in Nat
      /\ \A i \in 1 .. Len(t) : t[i] \in Part
  BY ElementOfSeq
<1>2. /\ m \in Seq(Part) /\ Len(m) = n
      /\ \A j \in 1 .. n : (j < k => m[j] = t[j]) /\ (j > k => m[j] = t[j + 1])
      /\ m[k] = [t[k] EXCEPT !.size = @ + t[k + 1].size]
  BY MergeFacts
<1>3. /\ DOMAIN m = 1 .. n /\ DOMAIN t = 1 .. Len(t) /\ k + 1 \in 1 .. Len(t)
      /\ \A j \in 1 .. n : m[j] \in Part
  BY <1>1, <1>2, ElementOfSeq
<1>4. /\ m[k].id = t[k].id /\ m[k].base = t[k].base /\ m[k].occupied = FALSE
      /\ m[k].size = t[k].size + t[k + 1].size
  BY <1>1, <1>2 DEF Part
<1>5. t[k + 1].base = t[k].base + t[k].size
  BY <1>1 DEF Tiles
<1> HIDE DEF m
<1>6. Tiles(m, end)
  <2>1. m # <<>> /\ m[1].base = 0
    <3>1. 1 \in 1 .. n /\ (k = 1 \/ 1 < k)
      BY <1>1
    <3>2. m[1].base = t[1].base
      BY <1>2, <1>4, <3>1
    <3>3. QED
      BY <1>1, <1>2, <3>2 DEF Tiles
  <2>2. ASSUME NEW i \in 1 .. n - 1
        PROVE  m[i + 1].base = m[i].base + m[i].size
    <3>1. /\ i \in 1 .. n /\ i + 1 \in 1 .. n /\ i \in 1 .. Len(t) - 1
          /\ i + 1 \in 1 .. Len(t) - 1
      BY <1>1
    <3>2. /\ t[i + 1].base = t[i].base + t[i].size
          /\ t[(i + 1) + 1].base = t[i + 1].base + t[i + 1].size
      BY <3>1 DEF Tiles
    <3>3. CASE i + 1 < k
      <4>1. i < k
        BY <1>1, <3>1, <3>3
      <4>2. m[i] = t[i] /\ m[i + 1] = t[i + 1]
        BY <1>2, <3>1, <3>3, <4>1
      <4>3. QED
        BY <3>2, <4>2
    <3>4. CASE i + 1 = k
      <4>1. m[i] = t[i]
        BY <1>1, <1>2, <3>1, <3>4
      <4>2. QED
        BY <1>4, <3>2, <3>4, <4>1
    <3>5. CASE i = k
      <4>1. m[i + 1] = t[(i + 1) + 1]
        BY <1>1, <1>2, <3>1, <3>5
      <4>2. t[i].base \in Nat /\ t[i].size \in Nat /\ t[i + 1].size \in Nat
        <5>1. t[i] \in Part /\ t[i + 1] \in Part
          BY <1>1, <3>1
        <5>2. QED
          BY <5>1, PartFields
      <4>3. QED
        BY <1>4, <3>2, <3>5, <4>1, <4>2
    <3>6. CASE i > k
      <4>1. m[i] = t[i + 1] /\ m[i + 1] = t[(i + 1) + 1]
        BY <1>1, <1>2, <3>1, <3>6
      <4>2. QED
        BY <3>2, <4>1
    <3>7. QED
      BY <1>1, <3>3, <3>4, <3>5, <3>6
  <2>3. m[n].base + m[n].size = end
    <3>1. n \in 1 .. n /\ n + 1 = Len(t) /\ t[Len(t)].base + t[Len(t)].size = end
      BY <1>1 DEF Tiles
    <3>2. CASE k = n
      <4>1. t[k].base \in Nat /\ t[k].size \in Nat /\ t[k + 1].size \in Nat
        <5>1. t[k] \in Part /\ t[k + 1] \in Part
          BY <1>1, <1>3
        <5>2. QED
          BY <5>1, PartFields
      <4>2. QED
        BY <1>4, <1>5, <3>1, <3>2, <4>1
    <3>3. CASE k < n
      BY <1>2, <3>1, <3>3
    <3>4. QED
      BY <1>1, <3>2, <3>3
  <2>4. QED
    BY <1>2, <2>1, <2>2, <2>3 DEF Tiles
<1> DEFINE from(j) == IF j <= k THEN j ELSE j + 1
<1>7. \A j \in 1 .. n : from(j) \in 1 .. Len(t) /\ m[j].id = t[from(j)].id
  <2>1. SUFFICES ASSUME NEW j \in 1 .. n
                 PROVE  from(j) \in 1 .. Len(t) /\ m[j].id = t[from(j)].id
    OBVIOUS
  <2>2. CASE j < k
    <3>1. from(j) = j /\ m[j] = t[j] /\ j \in 1 .. Len(t)
      BY <1>1, <1>2, <2>2
    <3>2. QED
      BY <3>1
  <2>3. CASE j = k
    <3>1. from(j) = k /\ k \in 1 .. Len(t)
      BY <1>1, <2>3
    <3>2. QED
      BY <1>4, <2>3, <3>1
  <2>4. CASE j > k
    <3>1. from(j) = j + 1 /\ m[j] = t[j + 1] /\ j + 1 \in 1 .. Len(t)
      BY <1>1, <1>2, <2>4
    <3>2. QED
      BY <3>1
  <2>5. QED
    BY <1>1, <2>2, <2>3, <2>4
<1>8. Unique(m)
  <2>1. SUFFICES ASSUME NEW i \in 1 .. n, NEW j \in 1 .. n, m[i].id = m[j].id
                 PROVE  i = j
    BY <1>3 DEF Unique
  <2>2. from(i) = from(j)
    BY <1>3, <1>7, <2>1 DEF Unique
  <2>3. QED
    BY <1>1, <2>2
<1>9. Taken(m) = Taken(t)
  <2>1. ASSUME NEW j \in 1 .. n, m[j].occupied
        PROVE  \E i \in 1 .. Len(t) : t[i].occupied /\ t[i] = m[j]
    <3>1. j # k
      BY <1>4, <2>1
    <3>2. j \in 1 .. Len(t) /\ j + 1 \in 1 .. Len(t)
      BY <1>1
    <3>3. m[j] = t[j] \/ m[j] = t[j + 1]
      BY <1>1, <1>2, <3>1
    <3>4. QED
      BY <2>1, <3>2, <3>3
  <2>2. ASSUME NEW i \in 1 .. Len(t), t[i].occupied
        PROVE  \E j \in 1 .. n : m[j].occupied /\ m[j] = t[i]
    <3>1. i # k /\ i # k + 1
      BY <2>2
    <3>2. CASE i < k
      <4>1. i \in 1 .. n
        BY <1>1, <3>2
      <4>2. m[i] = t[i]
        BY <1>2, <3>2, <4>1
      <4>3. QED
        BY <2>2, <4>1, <4>2
    <3>3. CASE i > k + 1
      <4>1. i - 1 \in 1 .. n /\ i - 1 > k /\ (i - 1) + 1 = i
        BY <1>1, <3>3
      <4>2. m[i - 1] = t[i]
        BY <1>2, <4>1
      <4>3. QED
        BY <2>2, <4>1, <4>2
    <3>4. QED
      BY <1>1, <3>1, <3>2, <3>3
  <2>3. /\ \A p \in Taken(m) : p \in Taken(t)
        /\ \A p \in Taken(t) : p \in Taken(m)
    <3>1. ASSUME NEW p \in Taken(m) PROVE p \in Taken(t)
      <4>1. PICK j \in 1 .. n : m[j].occupied /\ m[j] = p
        BY <1>2, TakenIs
      <4>2. QED
        BY <2>1, <4>1, TakenIs
    <3>2. ASSUME NEW p \in Taken(t) PROVE p \in Taken(m)
      <4>1. PICK j \in 1 .. Len(t) : t[j].occupied /\ t[j] = p
        BY TakenIs
      <4>2. PICK i \in 1 .. n : m[i].occupied /\ m[i] = p
        BY <2>2, <4>1
      <4>3. QED
        BY <1>2, <4>2, TakenIs
    <3>3. QED
      BY <3>1, <3>2
  <2>4. QED
    BY <2>3, Zenon
<1>10. QED
  BY <1>6, <1>8, <1>9 DEF m

LEMMA MergePacks ==
  ASSUME NEW t \in Seq(Part), NEW k \in 1 .. Len(t) - 1,
         ~ t[k].occupied, ~ t[k + 1].occupied,
         NEW positions, PackedBut(t, positions)
  PROVE  \A j \in 1 .. Len(t) - 2 :
           \/ (IF j < k THEN j ELSE j + 1) \in positions
           \/ Merged(t, k)[j].occupied \/ Merged(t, k)[j + 1].occupied
<1> DEFINE m == Merged(t, k)
           n == Len(t) - 1
<1>1. /\ Len(t) \in Nat /\ k \in 1 .. n /\ n \in Nat
      /\ k \in 1 .. Len(t)
  OBVIOUS
<1>2. /\ \A j \in 1 .. n : (j < k => m[j] = t[j]) /\ (j > k => m[j] = t[j + 1])
      /\ m[k].occupied = t[k].occupied
  <2>1. \A j \in 1 .. n : (j < k => m[j] = t[j]) /\ (j > k => m[j] = t[j + 1])
    BY MergeFacts, Zenon
  <2>2. QED
    BY <2>1, MergedOccupied, Zenon
<1> HIDE DEF m
<1>3. SUFFICES ASSUME NEW j \in 1 .. n - 1
               PROVE  \/ (IF j < k THEN j ELSE j + 1) \in positions
                      \/ m[j].occupied \/ m[j + 1].occupied
  BY <1>1 DEF m
<1>4. /\ j \in 1 .. n /\ j + 1 \in 1 .. n /\ j \in 1 .. Len(t) - 1
      /\ j + 1 \in 1 .. Len(t) - 1
  BY <1>1
<1>5. /\ j \in positions \/ t[j].occupied \/ t[j + 1].occupied
      /\ j + 1 \in positions \/ t[j + 1].occupied \/ t[(j + 1) + 1].occupied
  BY <1>4 DEF PackedBut
<1>6. CASE j + 1 < k
  <2>1. j < k /\ m[j] = t[j] /\ m[j + 1] = t[j + 1]
    BY <1>1, <1>2, <1>4, <1>6
  <2>2. QED
    BY <1>5, <2>1
<1>7. CASE j + 1 = k
  <2>1. j < k /\ m[j] = t[j]
    BY <1>1, <1>2, <1>4, <1>7
  <2>2. QED
    BY <1>5, <1>7, <2>1
<1>8. CASE j = k
  <2>1. ~ (j < k) /\ m[j + 1] = t[(j + 1) + 1]
    BY <1>1, <1>2, <1>4, <1>8
  <2>2. QED
    BY <1>5, <1>8, <2>1
<1>9. CASE j > k
  <2>1. ~ (j < k) /\ m[j] = t[j + 1] /\ m[j + 1] = t[(j + 1) + 1]
    BY <1>1, <1>2, <1>4, <1>9
  <2>2. QED
    BY <1>5, <2>1
<1>10. QED
  BY <1>1, <1>6, <1>7, <1>8, <1>9

\* What a join keeps of the table it starts from
Keeps(t, m, end) ==
  /\ m \in Seq(Part) /\ Tiles(m, end) /\ Unique(m) /\ Taken(m) = Taken(t)

LEMMA JoinRightKeeps ==
  ASSUME NEW t \in Seq(Part), NEW i \in 1 .. Len(t), ~ t[i].occupied,
         NEW end, Tiles(t, end), Unique(t)
  PROVE  /\ Keeps(t, JoinRight(t, i), end)
         /\ i \in 1 .. Len(JoinRight(t, i)) /\ ~ JoinRight(t, i)[i].occupied
         /\ PackedBut(t, {i - 1, i}) => PackedBut(JoinRight(t, i), {i - 1})
<1>1. Len(t) \in Nat /\ i \in Nat
  OBVIOUS
<1>2. CASE i < Len(t) /\ ~ t[i + 1].occupied
  <2> DEFINE m == Merged(t, i)
  <2>1. i \in 1 .. Len(t) - 1 /\ JoinRight(t, i) = m
    BY <1>1, <1>2 DEF JoinRight, Merged
  <2>2. Keeps(t, m, end)
    BY <1>2, <2>1, MergeFacts, MergeKeeps DEF Keeps
  <2>3. Len(m) = Len(t) - 1 /\ m[i].occupied = FALSE
    <3>1. Len(m) = Len(t) - 1
      BY <2>1, MergeFacts
    <3>2. m[i].occupied = t[i].occupied
      BY <2>1, MergedOccupied
    <3>3. m[i].occupied \in BOOLEAN
      <4>1. i \in 1 .. Len(t) /\ t[i] \in Part
        BY ElementOfSeq
      <4>2. QED
        BY <3>2, <4>1, PartFields
    <3> HIDE DEF m
    <3>4. QED
      BY <3>1, <3>2, <3>3
  <2>4. ASSUME PackedBut(t, {i - 1, i}) PROVE PackedBut(m, {i - 1})
    <3>1. \A j \in 1 .. Len(t) - 2 :
            \/ (IF j < i THEN j ELSE j + 1) \in {i - 1, i}
            \/ m[j].occupied \/ m[j + 1].occupied
      BY <1>2, <2>1, <2>4, MergePacks
    <3> HIDE DEF m
    <3>2. ASSUME NEW j \in 1 .. Len(m) - 1
          PROVE  j \in {i - 1} \/ m[j].occupied \/ m[j + 1].occupied
      <4>1. j \in 1 .. Len(t) - 2
        BY <1>1, <2>3
      <4>2. (IF j < i THEN j ELSE j + 1) \in {i - 1, i} => j = i - 1
        BY <1>1, <4>1
      <4>3. QED
        BY <3>1, <4>1, <4>2
    <3>3. QED
      BY <3>2 DEF PackedBut
  <2>5. i \in 1 .. Len(m)
    BY <2>1, <2>3
  <2>6. QED
    BY <2>1, <2>2, <2>3, <2>4, <2>5
<1>3. CASE ~ (i < Len(t) /\ ~ t[i + 1].occupied)
  <2>1. JoinRight(t, i) = t
    BY <1>3 DEF JoinRight
  <2>2. ASSUME PackedBut(t, {i - 1, i}) PROVE PackedBut(t, {i - 1})
    <3>1. ASSUME NEW j \in 1 .. Len(t) - 1
          PROVE  j \in {i - 1} \/ t[j].occupied \/ t[j + 1].occupied
      <4>1. j = i => t[j + 1].occupied
        BY <1>1, <1>3
      <4>2. QED
        BY <2>2, <4>1 DEF PackedBut
    <3>2. QED
      BY <3>1 DEF PackedBut
  <2>3. QED
    BY <2>1, <2>2 DEF Keeps
<1>4. QED
  BY <1>2, <1>3

LEMMA JoinLeftKeeps ==
  ASSUME NEW t \in Seq(Part), NEW i \in 1 .. Len(t), ~ t[i].occupied,
         NEW end, Tiles(t, end), Unique(t)
  PROVE  /\ Keeps(t, JoinLeft(t, i), end)
         /\ PackedBut(t, {i - 1}) => PackedBut(JoinLeft(t, i), {})
<1>1. Len(t) \in Nat /\ i \in Nat
  OBVIOUS
<1>2. CASE i > 1 /\ ~ t[i - 1].occupied
  <2> DEFINE k == i - 1
             m == Merged(t, k)
  <2>1. k \in 1 .. Len(t) - 1 /\ k + 1 = i /\ ~ t[k].occupied /\ ~ t[k + 1].occupied
    BY <1>1, <1>2
  <2>2. JoinLeft(t, i) = m
    BY <1>2, <2>1 DEF JoinLeft, Merged
  <2>3. Keeps(t, m, end)
    BY <2>1, MergeFacts, MergeKeeps DEF Keeps
  <2>4. Len(m) = Len(t) - 1
    BY <2>1, MergeFacts
  <2>5. ASSUME PackedBut(t, {k}) PROVE PackedBut(m, {})
    <3>1. \A j \in 1 .. Len(t) - 2 :
            \/ (IF j < k THEN j ELSE j + 1) \in {k}
            \/ m[j].occupied \/ m[j + 1].occupied
      BY <2>1, <2>5, MergePacks
    <3> HIDE DEF m, k
    <3>2. ASSUME NEW j \in 1 .. Len(m) - 1
          PROVE  m[j].occupied \/ m[j + 1].occupied
      <4>1. j \in 1 .. Len(t) - 2
        BY <1>1, <2>4
      <4>2. (IF j < k THEN j ELSE j + 1) \notin {k}
        BY <1>1, <2>1, <4>1
      <4>3. QED
        BY <3>1, <4>1, <4>2
    <3>3. QED
      BY <3>2 DEF PackedBut
  <2>6. QED
    BY <2>2, <2>3, <2>5
<1>3. CASE ~ (i > 1 /\ ~ t[i - 1].occupied)
  <2>1. JoinLeft(t, i) = t
    BY <1>3 DEF JoinLeft
  <2>2. ASSUME PackedBut(t, {i - 1}) PROVE PackedBut(t, {})
    <3>1. ASSUME NEW j \in 1 .. Len(t) - 1
          PROVE  t[j].occupied \/ t[j + 1].occupied
      <4>1. j = i - 1 => t[j].occupied
        BY <1>1, <1>3
      <4>2. QED
        BY <2>2, <4>1 DEF PackedBut
    <3>2. QED
      BY <3>1 DEF PackedBut
  <2>3. QED
    BY <2>1, <2>2 DEF Keeps
<1>4. QED
  BY <1>2, <1>3

\* Partition i is marked.
Marked(t, i, mark) == [t EXCEPT ![i].occupied = mark]

LEMMA MarkFacts ==
  ASSUME NEW t \in Seq(Part), NEW i \in 1 .. Len(t), NEW mark \in BOOLEAN,
         NEW end, Tiles(t, end), Unique(t)
  PROVE  /\ Marked(t, i, mark) \in Seq(Part)
         /\ Len(Marked(t, i, mark)) = Len(t)
         /\ \A j \in 1 .. Len(t) : j # i => Marked(t, i, mark)[j] = t[j]
         /\ Marked(t, i, mark)[i] \in Part
         /\ Marked(t, i, mark)[i].occupied = mark
         /\ Marked(t, i, mark)[i].id = t[i].id
         /\ Marked(t, i, mark)[i].base = t[i].base
         /\ Marked(t, i, mark)[i].size = t[i].size
         /\ Tiles(Marked(t, i, mark), end) /\ Unique(Marked(t, i, mark))
<1> DEFINE f == Marked(t, i, mark)
           p == [t[i] EXCEPT !.occupied = mark]
<1>1. Len(t) \in Nat /\ t[i] \in Part /\ DOMAIN t = 1 .. Len(t)
  BY ElementOfSeq
<1>2. /\ p \in Part /\ p.occupied = mark /\ p.id = t[i].id
      /\ p.base = t[i].base /\ p.size = t[i].size
  BY <1>1 DEF Part
<1>3. f = [t EXCEPT ![i] = p]
  BY DEF Marked
<1> HIDE DEF p
<1>4. /\ f \in Seq(Part) /\ Len(f) = Len(t)
      /\ \A j \in 1 .. Len(t) : f[j] = IF j = i THEN p ELSE t[j]
  BY <1>2, <1>3, ExceptSeq
<1>5. \A j \in 1 .. Len(t) :
        f[j].id = t[j].id /\ f[j].base = t[j].base /\ f[j].size = t[j].size
  BY <1>2, <1>4
<1>6. Tiles(f, end)
  <2>1. t # <<>> /\ 1 \in 1 .. Len(t) /\ Len(t) \in 1 .. Len(t)
    BY <1>1 DEF Tiles
  <2>2. f # <<>> /\ f[1].base = 0 /\ f[Len(f)].base + f[Len(f)].size = end
    BY <1>4, <1>5, <2>1 DEF Tiles
  <2>3. ASSUME NEW j \in 1 .. Len(f) - 1
        PROVE  f[j + 1].base = f[j].base + f[j].size
    <3>1. j \in 1 .. Len(t) /\ j + 1 \in 1 .. Len(t) /\ j \in 1 .. Len(t) - 1
      BY <1>1, <1>4
    <3>2. QED
      BY <1>5, <3>1 DEF Tiles
  <2>4. QED
    BY <2>2, <2>3 DEF Tiles
<1>7. Unique(f)
  BY <1>1, <1>4, <1>5 DEF Unique
<1>8. QED
  BY <1>2, <1>4, <1>6, <1>7 DEF p

\* ... as free
LEMMA FreedKeeps ==
  ASSUME NEW t \in Seq(Part), NEW i \in 1 .. Len(t), t[i].occupied,
         NEW end, Tiles(t, end), Unique(t)
  PROVE  /\ Taken(Marked(t, i, FALSE)) = Taken(t) \ {t[i]}
         /\ PackedBut(t, {}) => PackedBut(Marked(t, i, FALSE), {i - 1, i})
<1> DEFINE f == Marked(t, i, FALSE)
<1>1. Len(t) \in Nat /\ DOMAIN t = 1 .. Len(t) /\ FALSE \in BOOLEAN
  OBVIOUS
<1>2. /\ f \in Seq(Part) /\ Len(f) = Len(t) /\ f[i].occupied = FALSE
      /\ \A j \in 1 .. Len(t) : j # i => f[j] = t[j]
  BY MarkFacts
<1> HIDE DEF f
<1>3. Taken(f) = Taken(t) \ {t[i]}
  <2>1. ASSUME NEW p \in Taken(f) PROVE p \in Taken(t) \ {t[i]}
    <3>1. PICK k \in 1 .. Len(t) : f[k].occupied /\ f[k] = p
      BY <1>2, TakenIs
    <3>2. k # i /\ t[k] = p /\ t[k].occupied
      BY <1>2, <3>1
    <3>3. t[k] # t[i]
      BY <1>1, <3>2 DEF Unique
    <3>4. QED
      BY <3>2, <3>3, TakenIs
  <2>2. ASSUME NEW p \in Taken(t) \ {t[i]} PROVE p \in Taken(f)
    <3>1. PICK k \in 1 .. Len(t) : t[k].occupied /\ t[k] = p
      BY TakenIs
    <3>2. f[k].occupied /\ f[k] = p
      BY <1>2, <3>1
    <3>3. QED
      BY <1>2, <3>2, TakenIs
  <2>3. QED
    BY <2>1, <2>2
<1>4. ASSUME PackedBut(t, {}) PROVE PackedBut(f, {i - 1, i})
  <2>1. ASSUME NEW j \in 1 .. Len(f) - 1
        PROVE  j \in {i - 1, i} \/ f[j].occupied \/ f[j + 1].occupied
    <3>1. j \in 1 .. Len(t) /\ j + 1 \in 1 .. Len(t) /\ j \in 1 .. Len(t) - 1
      BY <1>1, <1>2
    <3>2. t[j].occupied \/ t[j + 1].occupied
      BY <1>4, <3>1 DEF PackedBut
    <3>3. j = i \/ j = i - 1 \/ (j # i /\ j + 1 # i)
      BY <3>1
    <3>4. QED
      BY <1>2, <3>1, <3>2, <3>3
  <2>2. QED
    BY <2>1 DEF PackedBut
<1>5. QED
  BY <1>3, <1>4 DEF f

\* ... as taken
LEMMA TakenGrows ==
  ASSUME NEW t \in Seq(Part), NEW i \in 1 .. Len(t), ~ t[i].occupied,
         NEW end, Tiles(t, end), Unique(t)
  PROVE  /\ Taken(Marked(t, i, TRUE)) = Taken(t) \cup {Marked(t, i, TRUE)[i]}
         /\ PackedBut(t, {}) => PackedBut(Marked(t, i, TRUE), {})
<1> DEFINE f == Marked(t, i, TRUE)
<1>1. Len(t) \in Nat
  OBVIOUS
<1>2. /\ f \in Seq(Part) /\ Len(f) = Len(t) /\ f[i].occupied = TRUE
      /\ \A j \in 1 .. Len(t) : j # i => f[j] = t[j]
  BY MarkFacts
<1> HIDE DEF f
<1>3. Taken(f) = Taken(t) \cup {f[i]}
  <2>1. ASSUME NEW p \in Taken(f) PROVE p \in Taken(t) \cup {f[i]}
    <3>1. PICK k \in 1 .. Len(t) : f[k].occupied /\ f[k] = p
      BY <1>2, TakenIs
    <3>2. CASE k = i
      BY <3>1, <3>2
    <3>3. CASE k # i
      <4>1. t[k] = p /\ t[k].occupied
        BY <1>2, <3>1, <3>3
      <4>2. QED
        BY <4>1, TakenIs
    <3>4. QED
      BY <3>2, <3>3
  <2>2. ASSUME NEW p \in Taken(t) PROVE p \in Taken(f)
    <3>1. PICK k \in 1 .. Len(t) : t[k].occupied /\ t[k] = p
      BY TakenIs
    <3>2. k # i
      BY <3>1
    <3>3. f[k].occupied /\ f[k] = p
      BY <1>2, <3>1, <3>2
    <3>4. QED
      BY <1>2, <3>3, TakenIs
  <2>3. f[i] \in Taken(f)
    BY <1>2, TakenIs
  <2>4. QED
    BY <2>1, <2>2, <2>3
<1>4. ASSUME PackedBut(t, {}) PROVE PackedBut(f, {})
  <2>1. ASSUME NEW j \in 1 .. Len(f) - 1
        PROVE  f[j].occupied \/ f[j + 1].occupied
    <3>1. j \in 1 .. Len(t) /\ j + 1 \in 1 .. Len(t) /\ j \in 1 .. Len(t) - 1
      BY <1>1, <1>2
    <3>2. t[j].occupied \/ t[j + 1].occupied
      BY <1>4, <3>1 DEF PackedBut
    <3>3. QED
      BY <1>2, <3>1, <3>2
  <2>2. QED
    BY <2>1 DEF PackedBut
<1>5. QED
  BY <1>3, <1>4 DEF f

-----------------------------------------------------------------------------
(* What the requests do to the table                                       *)

\* There is always an id for one more partition.
LEMMA FreshId ==
  ASSUME NEW t \in Seq(Part)
  PROVE  \E id \in 1 .. Len(t) + 1 : \A k \in DOMAIN t : t[k].id # id
<1>1. SUFFICES ASSUME \A id \in 1 .. Len(t) + 1 : \E k \in 1 .. Len(t) : t[k].id = id
               PROVE  FALSE
  OBVIOUS
<1> DEFINE n == Len(t)
           holder == [id \in 1 .. n + 1 |-> CHOOSE k \in 1 .. n : t[k].id = id]
<1>2. n \in Nat
  OBVIOUS
<1>3. \A id \in 1 .. n + 1 : holder[id] \in 1 .. n /\ t[holder[id]].id = id
  BY <1>1
<1>4. holder \in [1 .. n + 1 -> 1 .. n]
  BY <1>3
<1>5. /\ IsFiniteSet(1 .. n) /\ Cardinality(1 .. n) = n
      /\ IsFiniteSet(1 .. n + 1) /\ Cardinality(1 .. n + 1) = n + 1
  <2>1. 1 \in Int /\ n \in Int /\ n + 1 \in Int
    BY <1>2
  <2>2. /\ Cardinality(1 .. n) = IF 1 > n THEN 0 ELSE n - 1 + 1
        /\ Cardinality(1 .. n + 1) = IF 1 > n + 1 THEN 0 ELSE (n + 1) - 1 + 1
        /\ IsFiniteSet(1 .. n) /\ IsFiniteSet(1 .. n + 1)
    BY <2>1, FS_Interval
  <2>3. QED
    BY <1>2, <2>2
<1>6. Cardinality(1 .. n) < Cardinality(1 .. n + 1)
  BY <1>2, <1>5
<1> HIDE DEF holder
<1>7. PICK x \in 1 .. n + 1, y \in 1 .. n + 1 : x # y /\ holder[x] = holder[y]
  BY <1>4, <1>5, <1>6, FS_PigeonHole
<1>8. QED
  BY <1>3, <1>7

\* split_partition: the rest of partition i comes after it.
LEMMA SplitKeeps ==
  ASSUME NEW t \in Seq(Part), NEW i \in 1 .. Len(t), t[i].occupied,
         NEW size \in Nat, size <= t[i].size,
         NEW id \in Nat, \A k \in 1 .. Len(t) : t[k].id # id,
         NEW end, Tiles(t, end), Unique(t)
  PROVE  LET m == InsertAt([t EXCEPT ![i].size = size], i + 1,
                           Partition(id, t[i].base + size, t[i].size - size))
         IN /\ m \in Seq(Part) /\ Tiles(m, end) /\ Unique(m)
            /\ Taken(m) = (Taken(t) \ {t[i]})
                             \cup {[t[i] EXCEPT !.size = size]}
            /\ PackedBut(t, {}) /\ (i < Len(t) => t[i + 1].occupied)
                 => PackedBut(m, {})
<1> DEFINE p == [t[i] EXCEPT !.size = size]
           rest == Partition(id, t[i].base + size, t[i].size - size)
           cut == [t EXCEPT ![i].size = size]
           m == InsertAt(cut, i + 1, rest)
           n == Len(t)
<1>1. /\ n \in Nat /\ i \in Nat /\ i <= n /\ 1 <= i /\ t[i] \in Part
      /\ \A k \in 1 .. n : t[k] \in Part
      /\ DOMAIN t = 1 .. n
  BY ElementOfSeq
<1>2. /\ p \in Part /\ p.id = t[i].id /\ p.base = t[i].base /\ p.size = size
      /\ p.occupied
  BY <1>1, PartOfSize
<1>3. t[i].base \in Nat /\ t[i].size \in Nat /\ t[i].size - size \in Nat
  BY <1>1, PartFields
<1>4. /\ rest \in Part /\ rest.id = id /\ rest.base = t[i].base + size
      /\ rest.size = t[i].size - size /\ rest.occupied = FALSE
  <2>1. t[i].base + size \in Nat /\ t[i].size - size \in Nat
    BY <1>3
  <2> DEFINE base == t[i].base + size
             left == t[i].size - size
  <2>2. rest = [id |-> id, base |-> base, size |-> left, occupied |-> FALSE]
    BY DEF Partition
  <2> HIDE DEF base, left, rest
  <2>3. base \in Nat /\ left \in Nat
    BY <2>1 DEF base, left
  <2>4. rest.id = id /\ rest.base = base /\ rest.size = left /\ rest.occupied = FALSE
    BY <2>2
  <2>5. rest \in Part
    BY <2>2, <2>3, Zenon DEF Part
  <2>6. QED
    BY <2>4, <2>5, Zenon DEF base, left
<1>5. cut = [t EXCEPT ![i] = p]
  OBVIOUS
<1> HIDE DEF p, rest
<1>6. /\ cut \in Seq(Part) /\ Len(cut) = n
      /\ \A j \in 1 .. n : cut[j] = IF j = i THEN p ELSE t[j]
  BY <1>2, <1>5, ExceptSeq
<1> HIDE DEF cut
<1>7. /\ m \in Seq(Part) /\ Len(m) = n + 1
      /\ \A j \in 1 .. n + 1 :
           /\ j < i + 1 => m[j] = cut[j]
           /\ j = i + 1 => m[j] = rest
           /\ j > i + 1 => m[j] = cut[j - 1]
  <2> DEFINE at == i + 1
             l == InsertAt(cut, at, rest)
  <2>1. at \in 1 .. Len(cut) + 1 /\ rest \in Part /\ cut \in Seq(Part)
    BY <1>1, <1>4, <1>6
  <2> HIDE DEF at
  <2>2. /\ l \in Seq(Part) /\ Len(l) = Len(cut) + 1
        /\ \A j \in 1 .. Len(cut) + 1 :
             /\ j < at => l[j] = cut[j]
             /\ j = at => l[j] = rest
             /\ j > at => l[j] = cut[j - 1]
    BY <2>1, InsertFacts, SMTT(30)
  <2>3. m = l
    BY DEF at
  <2> HIDE DEF m, l
  <2>4. QED
    BY <1>6, <2>2, <2>3 DEF at
<1> HIDE DEF m
<1>8. /\ \A j \in 1 .. n : j < i => m[j] = t[j]
      /\ m[i] = p /\ m[i + 1] = rest
      /\ \A j \in 1 .. n : j > i => m[j + 1] = t[j]
  <2>1. ASSUME NEW j \in 1 .. n, j < i PROVE m[j] = t[j]
    <3>1. j \in 1 .. n + 1 /\ j < i + 1 /\ j # i
      BY <1>1, <2>1
    <3>2. QED
      BY <1>6, <1>7, <3>1
  <2>2. ASSUME NEW j \in 1 .. n, j > i PROVE m[j + 1] = t[j]
    <3>1. j + 1 \in 1 .. n + 1 /\ ~ (j + 1 < i + 1) /\ j + 1 # i + 1 /\ (j + 1) - 1 = j
      BY <1>1, <2>2
    <3>2. QED
      BY <1>6, <1>7, <2>2, <3>1
  <2>3. i \in 1 .. n + 1 /\ i < i + 1 /\ i + 1 \in 1 .. n + 1 /\ ~ (i + 1 < i + 1)
    BY <1>1
  <2>4. QED
    BY <1>6, <1>7, <2>1, <2>2, <2>3
<1>9. Tiles(m, end)
  <2>1. m # <<>> /\ m[1].base = 0
    <3>1. t[1].base = 0 /\ 1 \in 1 .. n /\ (i = 1 \/ 1 < i)
      BY <1>1 DEF Tiles
    <3>2. m[1].base = t[1].base
      BY <1>2, <1>8, <3>1
    <3>3. QED
      BY <1>1, <1>7, <3>1, <3>2
  <2>2. ASSUME NEW j \in 1 .. n
        PROVE  m[j + 1].base = m[j].base + m[j].size
    <3>1. CASE j + 1 < i
      <4>1. j < i /\ j + 1 \in 1 .. n /\ j \in 1 .. Len(t) - 1
        BY <1>1, <3>1
      <4>2. m[j] = t[j] /\ m[j + 1] = t[j + 1]
        BY <1>8, <3>1, <4>1
      <4>3. QED
        BY <4>1, <4>2 DEF Tiles
    <3>2. CASE j + 1 = i
      <4>1. j < i /\ j \in 1 .. Len(t) - 1
        BY <1>1, <3>2
      <4>2. m[j] = t[j] /\ m[j + 1].base = t[j + 1].base
        BY <1>2, <1>8, <3>2, <4>1
      <4>3. QED
        BY <4>1, <4>2 DEF Tiles
    <3>3. CASE j = i
      BY <1>2, <1>4, <1>8, <3>3
    <3>4. CASE j = i + 1
      <4>1. i \in 1 .. Len(t) - 1
        BY <1>1, <3>4
      <4>2. t[i + 1].base = t[i].base + t[i].size
        BY <4>1 DEF Tiles
      <4>3. m[j] = rest /\ m[j + 1] = t[i + 1]
        BY <1>1, <1>8, <3>4
      <4>4. rest.base + rest.size = t[i].base + t[i].size
        BY <1>3, <1>4
      <4>5. QED
        BY <4>2, <4>3, <4>4
    <3>5. CASE j > i + 1
      <4>1. j - 1 \in 1 .. n /\ j - 1 > i /\ (j - 1) + 1 = j /\ j - 1 \in 1 .. Len(t) - 1
        BY <1>1, <3>5
      <4>2. m[j] = t[j - 1] /\ m[j + 1] = t[j]
        <5>1. m[(j - 1) + 1] = t[j - 1]
          BY <1>8, <4>1
        <5>2. j > i
          BY <1>1, <3>5
        <5>3. QED
          BY <1>8, <4>1, <5>1, <5>2
      <4>3. t[(j - 1) + 1].base = t[j - 1].base + t[j - 1].size
        BY <4>1 DEF Tiles
      <4>4. QED
        BY <4>1, <4>2, <4>3
    <3>6. QED
      BY <1>1, <3>1, <3>2, <3>3, <3>4, <3>5
  <2>3. m[n + 1].base + m[n + 1].size = end
    <3>1. t[n].base + t[n].size = end
      BY DEF Tiles
    <3>2. CASE i = n
      <4>1. rest.base + rest.size = t[i].base + t[i].size
        BY <1>3, <1>4
      <4>2. QED
        BY <1>8, <3>1, <3>2, <4>1
    <3>3. CASE i < n
      <4>1. n \in 1 .. n /\ n > i
        BY <1>1, <3>3
      <4>2. m[n + 1] = t[n]
        BY <1>8, <4>1
      <4>3. QED
        BY <3>1, <4>2
    <3>4. i = n \/ i < n
      <4>1. n \in Nat /\ i \in Nat /\ i <= n
        BY <1>1, Zenon
      <4> HIDE DEF n
      <4>2. QED
        BY <4>1
    <3>5. QED
      BY <3>2, <3>3, <3>4
  <2>4. Len(m) - 1 = n
    BY <1>1, <1>7
  <2>5. QED
    BY <1>7, <2>1, <2>2, <2>3, <2>4 DEF Tiles
\* Where each partition of m comes from, but for the rest
<1> DEFINE from(j) == IF j <= i THEN j ELSE j - 1
<1>10. \A j \in 1 .. n + 1 :
         j # i + 1 => from(j) \in 1 .. n /\ m[j].id = t[from(j)].id
  <2>1. SUFFICES ASSUME NEW j \in 1 .. n + 1, j # i + 1
                 PROVE  from(j) \in 1 .. n /\ m[j].id = t[from(j)].id
    OBVIOUS
  <2>2. CASE j < i
    <3>1. j \in 1 .. n /\ from(j) = j
      BY <1>1, <2>2
    <3>2. QED
      BY <1>8, <2>2, <3>1
  <2>3. CASE j = i
    <3>1. from(j) = i /\ i \in 1 .. n
      BY <1>1, <2>3
    <3>2. QED
      BY <1>2, <1>8, <2>3, <3>1
  <2>4. CASE j > i
    <3>1. j - 1 \in 1 .. n /\ j - 1 > i /\ (j - 1) + 1 = j /\ from(j) = j - 1
      BY <1>1, <2>1, <2>4
    <3>2. m[(j - 1) + 1] = t[j - 1]
      BY <1>8, <3>1
    <3>3. QED
      BY <3>1, <3>2
  <2>5. QED
    BY <1>1, <2>2, <2>3, <2>4
<1>11. Unique(m)
  <2>1. DOMAIN m = 1 .. n + 1
    BY <1>7
  <2>2. SUFFICES ASSUME NEW j \in 1 .. n + 1, NEW k \in 1 .. n + 1,
                        m[j].id = m[k].id
                 PROVE  j = k
    BY <2>1 DEF Unique
  <2>3. CASE j # i + 1 /\ k # i + 1
    <3>1. from(j) = from(k)
      <4>1. /\ from(j) \in DOMAIN t /\ from(k) \in DOMAIN t
            /\ t[from(j)].id = t[from(k)].id
        BY <1>1, <1>10, <2>2, <2>3
      <4> HIDE DEF from
      <4>2. QED
        BY <4>1 DEF Unique
    <3>2. QED
      BY <1>1, <2>3, <3>1
  <2>4. CASE j = i + 1 \/ k = i + 1
    <3>1. m[i + 1].id = id /\ \A l \in 1 .. n + 1 : l # i + 1 => m[l].id # id
      <4>1. m[i + 1].id = id
        BY <1>4, <1>8
      <4>2. ASSUME NEW l \in 1 .. n + 1, l # i + 1 PROVE m[l].id # id
        <5>1. from(l) \in 1 .. n /\ m[l].id = t[from(l)].id
          BY <1>10, <4>2
        <5> HIDE DEF from
        <5>2. QED
          BY <5>1
      <4>3. QED
        BY <4>1, <4>2
    <3>2. QED
      BY <2>2, <2>4, <3>1
  <2>5. QED
    BY <2>3, <2>4
<1>12. Taken(m) = (Taken(t) \ {t[i]}) \cup {p}
  <2>1. ASSUME NEW q \in Taken(m) PROVE q \in (Taken(t) \ {t[i]}) \cup {p}
    <3>1. PICK j \in 1 .. n + 1 : m[j].occupied /\ m[j] = q
      BY <1>7, TakenIs
    <3>2. CASE j = i
      BY <1>8, <3>1, <3>2
    <3>3. CASE j # i
      <4>1. j # i + 1
        BY <1>4, <1>8, <3>1
      <4>2. PICK k \in 1 .. n : k # i /\ m[j] = t[k]
        <5>1. CASE j < i
          BY <1>1, <1>8, <5>1
        <5>2. CASE j > i
          <6>1. j - 1 \in 1 .. n /\ j - 1 > i /\ (j - 1) + 1 = j
            BY <1>1, <4>1, <5>2
          <6>2. QED
            BY <1>8, <6>1
        <5>3. QED
          BY <1>1, <3>3, <5>1, <5>2
      <4>3. t[k] # t[i]
        BY <1>1, <4>2 DEF Unique
      <4>4. q \in Taken(t)
        BY <3>1, <4>2, TakenIs
      <4>5. QED
        BY <3>1, <4>2, <4>3, <4>4
    <3>4. QED
      BY <3>2, <3>3
  <2>2. ASSUME NEW q \in Taken(t) \ {t[i]} PROVE q \in Taken(m)
    <3>1. PICK j \in 1 .. n : t[j].occupied /\ t[j] = q
      BY TakenIs
    <3>2. j # i
      BY <3>1
    <3>3. PICK k \in 1 .. n + 1 : m[k] = t[j]
      <4>1. j \in 1 .. n + 1 /\ j + 1 \in 1 .. n + 1
        BY <1>1
      <4>2. QED
        BY <1>1, <1>8, <3>2, <4>1
    <3>4. QED
      BY <1>7, <3>1, <3>3, TakenIs
  <2>3. p \in Taken(m)
    <3>1. i \in 1 .. n + 1
      BY <1>1
    <3>2. QED
      BY <1>2, <1>7, <1>8, <3>1, TakenIs
  <2>4. QED
    BY <2>1, <2>2, <2>3
<1>13. ASSUME PackedBut(t, {}), i < Len(t) => t[i + 1].occupied
       PROVE  PackedBut(m, {})
  <2>1. ASSUME NEW j \in 1 .. n PROVE m[j].occupied \/ m[j + 1].occupied
    <3>1. CASE j + 1 < i
      <4>1. j < i /\ j + 1 \in 1 .. n /\ j \in 1 .. Len(t) - 1 /\ j # i
        BY <1>1, <3>1
      <4>2. m[j] = t[j] /\ m[j + 1] = t[j + 1]
        BY <1>8, <3>1, <4>1
      <4>3. QED
        BY <1>13, <4>1, <4>2 DEF PackedBut
    <3>2. CASE j + 1 = i \/ j = i
      BY <1>2, <1>8, <3>2
    <3>3. CASE j = i + 1
      <4>1. i < Len(t) /\ i + 1 > i /\ i + 1 \in 1 .. n
        BY <1>1, <3>3
      <4>2. m[j + 1] = t[i + 1]
        BY <1>8, <3>3, <4>1
      <4>3. QED
        BY <1>13, <4>1, <4>2
    <3>4. CASE j > i + 1
      <4>1. /\ j - 1 \in 1 .. n /\ j - 1 > i /\ (j - 1) + 1 = j
            /\ j - 1 \in 1 .. Len(t) - 1 /\ j - 1 # i /\ j > i
        BY <1>1, <3>4
      <4>2. m[(j - 1) + 1] = t[j - 1] /\ m[j + 1] = t[j]
        BY <1>8, <4>1
      <4>3. t[j - 1].occupied \/ t[(j - 1) + 1].occupied
        BY <1>13, <4>1 DEF PackedBut
      <4>4. QED
        BY <4>1, <4>2, <4>3
    <3>5. QED
      BY <1>1, <3>1, <3>2, <3>3, <3>4
  <2>2. Len(m) - 1 = n
    BY <1>1, <1>7
  <2>3. QED
    BY <2>1, <2>2 DEF PackedBut
<1>14. QED
  BY <1>7, <1>9, <1>11, <1>12, <1>13 DEF m, cut, rest, p

\* The partition is large enough for a process
Big(s, p, size) == IF s = "FIJAS" THEN p.size >= size ELSE p.size = size

LEMMA AllocateKeeps ==
  ASSUME table \in Seq(Part), NEW end, Tiles(table, end), Unique(table),
         NEW size \in Nat, NEW i \in Candidates(size)
  PROVE  /\ Allocate(i, size) \in Seq(Part)
         /\ Tiles(Allocate(i, size), end) /\ Unique(Allocate(i, size))
         /\ \E p \in Part :
              /\ p.id = table[i].id /\ p.occupied /\ Big(scheme, p, size)
              /\ Taken(Allocate(i, size)) = Taken(table) \cup {p}
         /\ scheme # "FIJAS" /\ PackedBut(table, {})
              => PackedBut(Allocate(i, size), {})
<1> DEFINE f == Marked(table, i, TRUE)
<1>1. /\ i \in 1 .. Len(table) /\ ~ table[i].occupied /\ size <= table[i].size
      /\ Len(table) \in Nat /\ DOMAIN table = 1 .. Len(table)
  <2>1. i \in DOMAIN table /\ ~ table[i].occupied /\ table[i].size >= size
    BY DEF Candidates
  <2>2. DOMAIN table = 1 .. Len(table) /\ Len(table) \in Nat
    OBVIOUS
  <2>3. table[i] \in Part
    BY <2>1, <2>2, ElementOfSeq
  <2>4. table[i].size \in Nat
    BY <2>3, PartFields
  <2>5. QED
    BY <2>1, <2>2, <2>4
<1>2. /\ f \in Seq(Part) /\ Len(f) = Len(table) /\ Tiles(f, end) /\ Unique(f)
      /\ \A j \in 1 .. Len(table) : j # i => f[j] = table[j]
      /\ f[i] \in Part /\ f[i].occupied = TRUE /\ f[i].id = table[i].id
      /\ f[i].base = table[i].base /\ f[i].size = table[i].size
  BY <1>1, MarkFacts
<1>3. /\ Taken(f) = Taken(table) \cup {f[i]}
      /\ PackedBut(table, {}) => PackedBut(f, {})
  BY <1>1, TakenGrows
<1>4. [table EXCEPT ![i].occupied = TRUE] = f
  BY DEF Marked
<1> HIDE DEF f
<1>5. CASE scheme = "FIJAS" \/ table[i].size = size
  <2>1. Allocate(i, size) = f
    BY <1>4, <1>5 DEF Allocate
  <2>2. Big(scheme, f[i], size)
    BY <1>1, <1>2, <1>5 DEF Big
  <2>3. QED
    BY <1>2, <1>3, <2>1, <2>2
<1>6. CASE ~ (scheme = "FIJAS" \/ table[i].size = size)
  <2> DEFINE a == InsertAt([f EXCEPT ![i].size = size], i + 1,
                           Partition(NewId, f[i].base + size, f[i].size - size))
             p == [f[i] EXCEPT !.size = size]
  <2>1. Allocate(i, size) = a
    BY <1>2, <1>4, <1>6 DEF Allocate
  <2>2. NewId \in 1 .. Len(table) + 1 /\ \A k \in DOMAIN table : table[k].id # NewId
    BY FreshId DEF NewId
  <2>3. NewId \in Nat /\ \A k \in 1 .. Len(f) : f[k].id # NewId
    BY <1>1, <1>2, <2>2
  <2>4. i \in 1 .. Len(f) /\ f[i].occupied /\ size <= f[i].size
    BY <1>1, <1>2
  <2>5. /\ a \in Seq(Part) /\ Tiles(a, end) /\ Unique(a)
        /\ Taken(a) = (Taken(f) \ {f[i]}) \cup {p}
        /\ PackedBut(f, {}) /\ (i < Len(f) => f[i + 1].occupied)
             => PackedBut(a, {})
    BY <1>2, <2>3, <2>4, SplitKeeps
  <2> HIDE DEF a
  <2>6. p \in Part /\ p.id = table[i].id /\ p.occupied /\ p.size = size
    BY <1>2, PartOfSize
  <2> HIDE DEF p
  <2>7. Big(scheme, p, size)
    BY <1>6, <2>6 DEF Big
  <2>8. f[i] \notin Taken(table)
    <3>1. SUFFICES ASSUME f[i] \in Taken(table) PROVE FALSE
      OBVIOUS
    <3>2. PICK k \in 1 .. Len(table) : table[k].occupied /\ table[k] = f[i]
      BY <3>1, TakenIs
    <3>3. k = i
      BY <1>1, <1>2, <3>2 DEF Unique
    <3>4. QED
      BY <1>1, <3>2, <3>3
  <2>9. Taken(a) = Taken(table) \cup {p}
    BY <1>3, <2>5, <2>8
  <2>10. ASSUME PackedBut(table, {}) PROVE PackedBut(a, {})
    <3>1. ASSUME i < Len(f) PROVE f[i + 1].occupied
      <4>1. i \in 1 .. Len(table) - 1 /\ i + 1 \in 1 .. Len(table) /\ i + 1 # i
        BY <1>1, <1>2, <3>1
      <4>2. table[i + 1].occupied
        BY <1>1, <2>10, <4>1 DEF PackedBut
      <4>3. QED
        BY <1>2, <4>1, <4>2
    <3>2. QED
      BY <1>3, <2>5, <2>10, <3>1
  <2>11. QED
    BY <2>1, <2>5, <2>6, <2>7, <2>9, <2>10
<1>7. QED
  BY <1>5, <1>6

LEMMA ReleasedKeeps ==
  ASSUME table \in Seq(Part), NEW end, Tiles(table, end), Unique(table),
         NEW i \in 1 .. Len(table), table[i].occupied
  PROVE  /\ Released(i) \in Seq(Part)
         /\ Tiles(Released(i), end) /\ Unique(Released(i))
         /\ Taken(Released(i)) = Taken(table) \ {table[i]}
         /\ scheme # "FIJAS" /\ PackedBut(table, {})
              => PackedBut(Released(i), {})
<1> DEFINE f == Marked(table, i, FALSE)
<1>1. /\ f \in Seq(Part) /\ Len(f) = Len(table) /\ Tiles(f, end) /\ Unique(f)
      /\ f[i].occupied = FALSE
  BY MarkFacts
<1>2. /\ Taken(f) = Taken(table) \ {table[i]}
      /\ PackedBut(table, {}) => PackedBut(f, {i - 1, i})
  BY FreedKeeps
<1>3. [table EXCEPT ![i].occupied = FALSE] = f
  BY DEF Marked
<1> HIDE DEF f
<1>4. CASE scheme = "FIJAS"
  BY <1>1, <1>2, <1>3, <1>4 DEF Released
<1>5. CASE scheme # "FIJAS"
  <2> DEFINE r == JoinRight(f, i)
             m == JoinLeft(r, i)
  <2>1. Released(i) = m
    BY <1>3, <1>5 DEF Released, Joined
  <2>2. /\ Keeps(f, r, end) /\ i \in 1 .. Len(r) /\ ~ r[i].occupied
        /\ PackedBut(f, {i - 1, i}) => PackedBut(r, {i - 1})
    BY <1>1, JoinRightKeeps
  <2> HIDE DEF r
  <2>3. /\ Keeps(r, m, end)
        /\ PackedBut(r, {i - 1}) => PackedBut(m, {})
    BY <2>2, JoinLeftKeeps DEF Keeps
  <2> HIDE DEF m
  <2>4. QED
    BY <1>2, <2>1, <2>2, <2>3 DEF Keeps
<1>6. QED
  BY <1>4, <1>5

-----------------------------------------------------------------------------
(* The requests                                                            *)

MemoryInv == MemoryTypeOK /\ Tiling /\ Owned /\ Coalesced

\* The same in terms of Tiles, Taken and PackedBut
Separate == \A i, j \in Live : process[i].partition = process[j].partition => i = j
Housed ==
  \A i \in Live : \E p \in Taken(table) :
    p.id = process[i].partition /\ Big(scheme, p, process[i].size)
Inhabited ==
  \A p \in Taken(table) : \E i \in Live : process[i].partition = p.id

TableInv ==
  /\ Tiles(table, UserSpace) /\ Unique(table)
  /\ scheme # "FIJAS" => PackedBut(table, {})
OwnerInv == Separate /\ Housed /\ Inhabited

LEMMA SchemeOrOther ==
  ASSUME scheme \in Schemes
  PROVE  scheme # "FIJAS" <=> scheme = "DINAMICAS"
BY MemoryAssumption

LEMMA InvIs == MemoryInv <=> MemoryTypeOK /\ TableInv /\ OwnerInv
<1>1. SUFFICES ASSUME MemoryTypeOK
               PROVE  Tiling /\ Owned /\ Coalesced <=> TableInv /\ OwnerInv
  BY DEF MemoryInv
<1>2. /\ table \in Seq(Part) /\ DOMAIN table = 1 .. Len(table)
      /\ scheme # "FIJAS" <=> scheme = "DINAMICAS"
  <2>1. table \in Seq(Part)
    BY <1>1 DEF MemoryTypeOK, Part
  <2>2. scheme # "FIJAS" <=> scheme = "DINAMICAS"
    BY <1>1, SchemeOrOther DEF MemoryTypeOK
  <2>3. QED
    BY <2>1, <2>2
<1>3. Tiling <=> Tiles(table, UserSpace)
  BY DEF Tiling, Tiles
<1>4. Coalesced <=> (scheme # "FIJAS" => PackedBut(table, {}))
  BY <1>2 DEF Coalesced, PackedBut
<1>5. Housed <=> \A i \in Live : \E k \in DOMAIN table :
                   /\ table[k].id = process[i].partition
                   /\ table[k].occupied
                   /\ IF scheme = "FIJAS" THEN table[k].size >= process[i].size
                      ELSE table[k].size = process[i].size
  <2>1. ASSUME NEW i \in Live
        PROVE  (\E p \in Taken(table) :
                  p.id = process[i].partition /\ Big(scheme, p, process[i].size))
                 <=> \E k \in DOMAIN table :
                       /\ table[k].id = process[i].partition
                       /\ table[k].occupied
                       /\ Big(scheme, table[k], process[i].size)
    BY <1>2, TakenIs
  <2>2. QED
    BY <2>1 DEF Housed, Big
<1>6. Inhabited <=> \A k \in DOMAIN table : table[k].occupied =>
                      \E i \in Live : process[i].partition = table[k].id
  BY <1>2, TakenIs DEF Inhabited
<1>7. Owned <=> Unique(table) /\ OwnerInv
  BY <1>5, <1>6 DEF Owned, Unique, OwnerInv, Separate
<1>8. QED
  BY <1>3, <1>4, <1>7 DEF TableInv

LEMMA InvIsNext == MemoryInv' <=> MemoryTypeOK' /\ TableInv' /\ OwnerInv'
BY InvIs, PTL

\* The fields of the processes that are there.
LEMMA LiveFacts ==
  ASSUME MemoryTypeOK
  PROVE  /\ DOMAIN process = 1 .. Len(process) /\ Len(process) \in Nat
         /\ \A i \in Live : process[i] \in MemoryProcess /\ i \in 1 .. Len(process)
BY ElementOfSeq DEF MemoryTypeOK, Live

LEMMA MemoryInitInv == MemoryInit => MemoryInv
<1> SUFFICES ASSUME MemoryInit PROVE MemoryInv
  OBVIOUS
<1>1. scheme \in Schemes /\ (scheme # "FIJAS" <=> scheme = "DINAMICAS")
  BY SchemeOrOther DEF MemoryInit
<1>2. process = <<>> /\ Live = {} /\ fit \in Fits /\ corrupt = FALSE
  BY DEF MemoryInit, Live
<1>3. CASE scheme = "FIJAS"
  <2>1. table = [i \in 1 .. Len(Fixed) |-> Partition(i, Fixed[i].base, Fixed[i].size)]
    BY <1>3 DEF MemoryInit, InitialTable
  <2>2. /\ Len(Fixed) \in Nat /\ Len(Fixed) > 0
        /\ \A i \in 1 .. Len(Fixed) :
             Fixed[i].base \in Nat /\ Fixed[i].size \in Nat
    <3>1. /\ Fixed \in Seq([base : Nat, size : Nat \ {0}])
          /\ Len(Fixed) \in Nat /\ Len(Fixed) > 0
      BY MemoryAssumption
    <3>2. \A i \in 1 .. Len(Fixed) : Fixed[i] \in [base : Nat, size : Nat \ {0}]
      BY <3>1, ElementOfSeq
    <3>3. QED
      BY <3>1, <3>2
  <2>3. /\ \A i \in 1 .. Len(Fixed) :
             /\ table[i].id = i /\ table[i].base = Fixed[i].base
             /\ table[i].size = Fixed[i].size /\ table[i].occupied = FALSE
             /\ table[i] \in Part
    BY <2>1, <2>2 DEF Partition, Part
  <2>4. table \in Seq(Part) /\ Len(table) = Len(Fixed)
    BY <2>1, <2>2, <2>3
  <2>5. Tiling
    BY <1>3, <2>2, <2>3, <2>4, MemoryAssumption DEF Tiling, UserSpace
  <2>6. Owned
    BY <1>2, <2>3, <2>4 DEF Owned
  <2>7. Coalesced
    BY <1>1, <1>3 DEF Coalesced
  <2>8. MemoryTypeOK
    <3>1. process \in Seq(MemoryProcess \cup {NoProcess})
      BY <1>2, EmptySeq
    <3>2. QED
      BY <1>1, <1>2, <2>4, <3>1 DEF MemoryTypeOK, Part
  <2>9. QED
    BY <2>5, <2>6, <2>7, <2>8 DEF MemoryInv
<1>4. CASE scheme # "FIJAS"
  <2>1. table = <<Partition(1, 0, MemorySize)>>
    BY <1>4 DEF MemoryInit, InitialTable
  <2>2. /\ table \in Seq(Part) /\ Len(table) = 1
        /\ table[1].base = 0 /\ table[1].size = MemorySize
        /\ table[1].occupied = FALSE
    BY <2>1, MemoryAssumption DEF Partition, Part
  <2>3. Tiling
    <3>1. table # <<>> /\ Len(table) - 1 = 0 /\ 1 .. 0 = {}
          /\ 0 + MemorySize = MemorySize
      <4>1. MemorySize \in Nat
        BY MemoryAssumption
      <4>2. \A j \in 1 .. 0 : FALSE
        OBVIOUS
      <4>3. table # <<>> /\ Len(table) - 1 = 0
        BY <2>2
      <4>4. QED
        BY <4>1, <4>2, <4>3
    <3>2. QED
      BY <1>4, <2>2, <3>1 DEF Tiling, UserSpace
  <2>4. Owned
    BY <1>2, <2>2 DEF Owned
  <2>5. Coalesced
    BY <2>2 DEF Coalesced
  <2>6. MemoryTypeOK
    <3>1. process \in Seq(MemoryProcess \cup {NoProcess})
      BY <1>2, EmptySeq
    <3>2. QED
      BY <1>1, <1>2, <2>2, <3>1 DEF MemoryTypeOK, Part
  <2>7. QED
    BY <2>3, <2>4, <2>5, <2>6 DEF MemoryInv
<1>5. QED
  BY <1>3, <1>4

\* A request that changes neither table nor who owns what.
LEMMA OwnersKept ==
  ASSUME MemoryInv, UNCHANGED <<scheme, fit, table>>, MemoryTypeOK', Live' = Live,
         \A i \in Live : /\ process'[i].partition = process[i].partition
                         /\ process'[i].size = process[i].size
  PROVE  MemoryInv'
<1>1. TableInv' /\ Taken(table)' = Taken(table)
  BY InvIs DEF TableInv, UserSpace, Tiles, Unique, PackedBut, Taken
<1>2. Separate' /\ Housed' /\ Inhabited'
  BY <1>1, InvIs DEF OwnerInv, Separate, Housed, Inhabited, Big
<1>3. QED
  BY <1>1, <1>2, InvIsNext DEF OwnerInv

LEMMA ProcessCreateKeeps ==
  ASSUME MemoryInv, NEW pid \in Pid, NEW size \in Sizes, ProcessCreate(pid, size)
  PROVE  MemoryInv'
<1> DEFINE n == Len(process)
<1>1. PICK i \in DOMAIN table :
        /\ Chosen(i, size) /\ table' = Allocate(i, size)
        /\ process' = Append(process, [pid |-> pid, size |-> size,
                                       partition |-> table[i].id,
                                       count |-> 0, threads |-> {}])
        /\ UNCHANGED <<scheme, fit, corrupt>>
  BY DEF ProcessCreate, configVars
<1> DEFINE new == [pid |-> pid, size |-> size, partition |-> table[i].id,
                   count |-> 0, threads |-> {}]
<1>2. MemoryTypeOK /\ TableInv /\ OwnerInv /\ size \in Nat /\ i \in Candidates(size)
  BY <1>1, InvIs, MemoryAssumption DEF Chosen
<1>3. /\ table \in Seq(Part) /\ i \in 1 .. Len(table) /\ ~ table[i].occupied
      /\ table[i] \in Part
  <2>1. table \in Seq(Part)
    BY <1>2 DEF MemoryTypeOK, Part
  <2>2. i \in 1 .. Len(table)
    BY <1>1, <2>1
  <2>3. QED
    BY <1>2, <2>1, <2>2, ElementOfSeq DEF Candidates
<1>4. PICK p \in Part :
        /\ p.id = table[i].id /\ Big(scheme, p, size)
        /\ table' \in Seq(Part) /\ Tiles(table', UserSpace) /\ Unique(table')
        /\ Taken(table') = Taken(table) \cup {p}
        /\ scheme # "FIJAS" => PackedBut(table', {})
  BY <1>1, <1>2, <1>3, AllocateKeeps DEF TableInv
<1>5. new \in MemoryProcess /\ new # NoProcess /\ new.partition = table[i].id
      /\ new.size = size
  <2>1. table[i].id \in Nat
    BY <1>3, PartFields
  <2>2. new \in MemoryProcess
    BY <2>1 DEF MemoryProcess
  <2>3. QED
    BY <2>2, NoProcessAssumption
<1> HIDE DEF new
<1>6. process' = Append(process, new)
  BY <1>1 DEF new
<1>7. /\ process' \in Seq(MemoryProcess \cup {NoProcess}) /\ Len(process') = n + 1
      /\ n \in Nat /\ \A j \in 1 .. n : process'[j] = process[j]
      /\ process'[n + 1] = new
  BY <1>2, <1>5, <1>6 DEF MemoryTypeOK
<1>8. Live \subseteq 1 .. n /\ Live' = Live \cup {n + 1} /\ n + 1 \notin Live
  <2>1. DOMAIN process = 1 .. n /\ DOMAIN process' = 1 .. n + 1
    BY <1>2, <1>7 DEF MemoryTypeOK
  <2>2. QED
    BY <1>5, <1>7, <2>1 DEF Live
<1>9. MemoryTypeOK'
  BY <1>1, <1>2, <1>4, <1>7 DEF MemoryTypeOK, Part
<1>10. TableInv'
  BY <1>1, <1>4 DEF TableInv, UserSpace
<1>11. \A j \in Live : process[j].partition # table[i].id
  <2>1. SUFFICES ASSUME NEW j \in Live, process[j].partition = table[i].id
                 PROVE  FALSE
    OBVIOUS
  <2>2. PICK q \in Taken(table) : q.id = table[i].id
    BY <1>2, <2>1 DEF OwnerInv, Housed
  <2>3. PICK k \in 1 .. Len(table) : table[k].occupied /\ table[k] = q
    BY <1>3, TakenIs
  <2>4. k = i
    BY <1>2, <1>3, <2>2, <2>3 DEF TableInv, Unique
  <2>5. QED
    BY <1>3, <2>3, <2>4
<1>12. Separate'
  <2>1. \A j \in Live : process'[j].partition = process[j].partition
    BY <1>7, <1>8
  <2>2. process'[n + 1].partition = table[i].id
    BY <1>5, <1>7
  <2>3. \A j, l \in Live \cup {n + 1} :
          process'[j].partition = process'[l].partition => j = l
    BY <1>2, <1>11, <2>1, <2>2 DEF Separate, OwnerInv
  <2>4. QED
    BY <1>8, <2>3 DEF Separate
<1>13. Housed'
  <2>1. ASSUME NEW j \in Live
        PROVE  \E q \in Taken(table') :
                 q.id = process'[j].partition /\ Big(scheme', q, process'[j].size)
    <3>1. process'[j] = process[j]
      BY <1>7, <1>8
    <3>2. QED
      BY <1>1, <1>2, <1>4, <3>1 DEF OwnerInv, Housed, Big
  <2>2. /\ p \in Taken(table') /\ p.id = process'[n + 1].partition
        /\ Big(scheme', p, process'[n + 1].size)
    BY <1>1, <1>4, <1>5, <1>7 DEF Big
  <2>3. QED
    BY <1>8, <2>1, <2>2 DEF Housed
<1>14. Inhabited'
  <2>1. ASSUME NEW q \in Taken(table)
        PROVE  \E j \in Live : process'[j].partition = q.id
    BY <1>2, <1>7, <1>8 DEF OwnerInv, Inhabited
  <2>2. process'[n + 1].partition = p.id
    BY <1>4, <1>5, <1>7
  <2>3. QED
    BY <1>4, <1>8, <2>1, <2>2 DEF Inhabited
<1>15. QED
  BY <1>9, <1>10, <1>12, <1>13, <1>14, InvIsNext DEF OwnerInv

LEMMA ProcessDestroyKeeps ==
  ASSUME MemoryInv, NEW pid \in Nat, ProcessDestroy(pid)
  PROVE  MemoryInv'
<1> DEFINE n == Len(process)
           k == pid + 1
<1>1. PICK i \in DOMAIN table :
        /\ Known(pid) /\ table[i].id = process[k].partition
        /\ table' = Released(i)
        /\ process' = [process EXCEPT ![k] = NoProcess]
        /\ UNCHANGED <<scheme, fit, corrupt>>
  BY DEF ProcessDestroy, configVars, Slot
<1>2. MemoryTypeOK /\ TableInv /\ OwnerInv
  BY InvIs
<1>3. /\ table \in Seq(Part) /\ i \in 1 .. Len(table)
      /\ DOMAIN process = 1 .. n /\ n \in Nat /\ k \in 1 .. n /\ k \in Live
  <2>1. table \in Seq(Part) /\ DOMAIN process = 1 .. n /\ n \in Nat
    BY <1>2 DEF MemoryTypeOK, Part
  <2>2. k \in 1 .. n
    BY <1>1, <2>1 DEF Known
  <2>3. QED
    BY <1>1, <2>1, <2>2 DEF Live, Known
<1>4. table[i].occupied /\ table[i] \in Taken(table)
  <2>1. PICK q \in Taken(table) : q.id = table[i].id
    BY <1>1, <1>2, <1>3 DEF OwnerInv, Housed
  <2>2. PICK j \in 1 .. Len(table) : table[j].occupied /\ table[j] = q
    BY <1>3, TakenIs
  <2>3. j = i
    BY <1>2, <1>3, <2>1, <2>2 DEF TableInv, Unique
  <2>4. QED
    BY <2>1, <2>2, <2>3
<1>5. /\ table' \in Seq(Part) /\ Tiles(table', UserSpace) /\ Unique(table')
      /\ Taken(table') = Taken(table) \ {table[i]}
      /\ scheme # "FIJAS" => PackedBut(table', {})
  BY <1>1, <1>2, <1>3, <1>4, ReleasedKeeps DEF TableInv
<1>6. /\ process' \in Seq(MemoryProcess \cup {NoProcess})
      /\ DOMAIN process' = 1 .. n
      /\ \A j \in 1 .. n : process'[j] = IF j = k THEN NoProcess ELSE process[j]
  BY <1>1, <1>2, <1>3 DEF MemoryTypeOK
<1>7. Live' = Live \ {k} /\ \A j \in Live' : process'[j] = process[j]
  BY <1>3, <1>6 DEF Live
<1>8. MemoryTypeOK'
  BY <1>1, <1>2, <1>5, <1>6 DEF MemoryTypeOK, Part
<1>9. TableInv'
  BY <1>1, <1>5 DEF TableInv, UserSpace
<1>10. Separate'
  BY <1>2, <1>7 DEF Separate, OwnerInv
<1>11. Housed'
  <2>1. SUFFICES ASSUME NEW j \in Live'
                 PROVE  \E q \in Taken(table') :
                          q.id = process'[j].partition /\ Big(scheme', q, process'[j].size)
    BY DEF Housed
  <2>2. process'[j] = process[j] /\ j \in Live /\ j # k
    BY <1>7
  <2>3. PICK q \in Taken(table) :
          q.id = process[j].partition /\ Big(scheme, q, process[j].size)
    BY <1>2, <2>2 DEF OwnerInv, Housed
  <2>4. q # table[i]
    BY <1>1, <1>2, <1>3, <2>2, <2>3 DEF OwnerInv, Separate
  <2>5. QED
    BY <1>1, <1>5, <2>2, <2>3, <2>4 DEF Big
<1>12. Inhabited'
  <2>1. SUFFICES ASSUME NEW q \in Taken(table')
                 PROVE  \E j \in Live' : process'[j].partition = q.id
    BY DEF Inhabited
  <2>2. q \in Taken(table) /\ q # table[i]
    BY <1>5
  <2>3. PICK j \in Live : process[j].partition = q.id
    BY <1>2, <2>2 DEF OwnerInv, Inhabited
  <2>4. j # k
    <3>1. PICK l \in 1 .. Len(table) : table[l] = q
      BY <1>3, <2>2, TakenIs
    <3>2. table[l].id # table[i].id
      BY <1>2, <1>3, <2>2, <3>1 DEF TableInv, Unique
    <3>3. QED
      BY <1>1, <2>3, <3>1, <3>2
  <2>5. QED
    BY <1>7, <2>3, <2>4
<1>13. QED
  BY <1>8, <1>9, <1>10, <1>11, <1>12, InvIsNext DEF OwnerInv

\* One process changes its threads.
LEMMA SlotChanges ==
  ASSUME MemoryInv, NEW pid \in Nat, Known(pid), NEW new \in MemoryProcess,
         new.partition = Slot(pid).partition, new.size = Slot(pid).size,
         process' = [process EXCEPT ![pid + 1] = new],
         UNCHANGED <<scheme, fit, table>>, corrupt' \in BOOLEAN
  PROVE  MemoryInv'
<1> DEFINE n == Len(process)
           k == pid + 1
<1>1. MemoryTypeOK /\ DOMAIN process = 1 .. n /\ n \in Nat
  BY DEF MemoryInv, MemoryTypeOK
<1>2. k \in 1 .. n /\ k \in Live
  BY <1>1 DEF Known, Live
<1>3. /\ process' \in Seq(MemoryProcess \cup {NoProcess})
      /\ DOMAIN process' = 1 .. n
      /\ \A j \in 1 .. n : process'[j] = IF j = k THEN new ELSE process[j]
  BY <1>1, <1>2 DEF MemoryTypeOK
<1>4. Live' = Live
  BY <1>1, <1>2, <1>3, NoProcessAssumption DEF Live
<1>5. ASSUME NEW j \in Live
      PROVE  /\ process'[j].partition = process[j].partition
             /\ process'[j].size = process[j].size
  BY <1>1, <1>3 DEF Live, Slot
<1>6. MemoryTypeOK'
  BY <1>1, <1>3 DEF MemoryTypeOK
<1>7. QED
  BY <1>4, <1>5, <1>6, OwnersKept

LEMMA ThreadCreateKeeps ==
  ASSUME MemoryInv, NEW pid \in Nat, NEW tid \in Tid, ThreadCreate(pid, tid)
  PROVE  MemoryInv'
<1> DEFINE old == Slot(pid)
           count == old.count + 1
           threads == old.threads \cup {tid}
           new == [old EXCEPT !.count = count, !.threads = threads]
<1>1. old \in MemoryProcess /\ Known(pid) /\ DOMAIN process = 1 .. Len(process)
  <2>1. pid + 1 \in Live /\ Known(pid) /\ DOMAIN process = 1 .. Len(process)
    BY DEF ThreadCreate, Known, Live, MemoryInv, MemoryTypeOK
  <2>2. QED
    BY <2>1, LiveFacts DEF Slot, MemoryInv
<1>2. /\ new \in MemoryProcess /\ new.partition = old.partition
      /\ new.size = old.size
  <2>1. count \in Nat /\ threads \in SUBSET Tid
    BY <1>1 DEF MemoryProcess
  <2> HIDE DEF old, count, threads
  <2>2. QED
    BY <1>1, <2>1 DEF MemoryProcess
<1>3. process' = [process EXCEPT ![pid + 1] = new]
  BY <1>1 DEF ThreadCreate, Slot, MemoryProcess
<1>4. UNCHANGED <<scheme, fit, table>>
  BY DEF ThreadCreate, configVars
<1>5. corrupt' \in BOOLEAN
  BY DEF ThreadCreate
<1> HIDE DEF new, old, count, threads
<1>6. QED
  BY <1>1, <1>2, <1>3, <1>4, <1>5, SlotChanges DEF old

LEMMA ThreadDestroyKeeps ==
  ASSUME MemoryInv, NEW pid \in Nat, NEW tid \in Tid, ThreadDestroy(pid, tid)
  PROVE  MemoryInv'
<1>1. UNCHANGED <<scheme, fit, table, corrupt>> /\ corrupt \in BOOLEAN
  BY DEF ThreadDestroy, configVars, MemoryInv, MemoryTypeOK
<1>2. CASE Known(pid) /\ tid < Slot(pid).count
  <2> DEFINE old == Slot(pid)
             new == [old EXCEPT !.threads = @ \ {tid}]
  <2>1. old \in MemoryProcess
    <3>1. pid + 1 \in Live
      BY <1>2 DEF Known, Live, MemoryInv, MemoryTypeOK
    <3>2. QED
      BY <3>1, LiveFacts DEF Slot, MemoryInv
  <2>2. /\ new \in MemoryProcess /\ new.partition = old.partition
        /\ new.size = old.size
    BY <2>1 DEF MemoryProcess
  <2>3. process' = [process EXCEPT ![pid + 1] = new]
    BY <1>2 DEF ThreadDestroy, Slot
  <2> HIDE DEF new, old
  <2>4. QED
    BY <1>1, <1>2, <2>1, <2>2, <2>3, SlotChanges DEF old
<1>3. CASE ~ (Known(pid) /\ tid < Slot(pid).count)
  <2>1. process' = process
    BY <1>3 DEF ThreadDestroy
  <2>2. MemoryTypeOK' /\ Live' = Live
    BY <1>1, <2>1 DEF MemoryInv, MemoryTypeOK, Live
  <2>3. QED
    BY <1>1, <2>1, <2>2, OwnersKept
<1>4. QED
  BY <1>2, <1>3
=============================================================================
