------------------------- MODULE KernelThreadsProofs -------------------------
(***************************************************************************)
(* What the kernel's threads, their lists, mutexes, processes and the      *)
(* short-term scheduler keep true for any number of processes, threads,    *)
(* mutexes and priorities and for the three algorithms.                    *)
(*                                                                         *)
(* The types hold in every state.  The rest, Sound, holds until a mutex is *)
(* handed over by a stale pointer (staleHandover), after which a thread may *)
(* stand in two lists: IInv is Types with Sound under that condition.      *)
(* Sound says that                                                         *)
(*                                                                         *)
(*  - each family of lists houses exactly the threads in the state it is   *)
(*    for, each in one place (Homes), and a join stays within a process and *)
(*    waits for a TCB that exists (Joins);                                 *)
(*  - the owner and the waiters of a mutex add up to its instances (Locks); *)
(*  - a process is alive while it has a TCB, TCBs are numbered from 0, and *)
(*    mutexes are made by processes that are alive (Procs);                *)
(*  - the scheduler's place tells whether TCB_EXEC runs, who exits, who holds *)
(*    the write lock, which call gave the read lock up, and that a KILL on *)
(*    its way is for a thread that only exits (Control).                   *)
(*                                                                         *)
(* There is one lemma per action, TypesStay and the lemmas with Stay in their *)
(* name for the parts an action leaves alone, and lemmas about what removing *)
(* and appending do to a family of lists.                                  *)
(***************************************************************************)
EXTENDS KernelThreads, TLAPS, FiniteSetTheorems, SequenceTheorems,
        WellFoundedInduction

-----------------------------------------------------------------------------
(* Lists                                                                   *)

\* A set of naturals that has a member has a least one, which Min chooses.
LEMMA MinIsLeast ==
  ASSUME NEW I \in SUBSET Nat, I # {}
  PROVE  Min(I) \in I /\ \A y \in I : Min(I) <= y
<1>1. PICK x \in I : \A y \in I : ~ (<<y, x>> \in OpToRel(<, Nat))
  <2>1. IsWellFoundedOn(OpToRel(<, Nat), Nat)
    BY NatLessThanWellFounded
  <2> HIDE DEF OpToRel
  <2>2. QED
    BY <2>1, WFMin, Zenon
<1>2. ASSUME NEW y \in I PROVE x <= y
  <2>1. x \in Nat /\ y \in Nat
    OBVIOUS
  <2>2. <<y, x>> \in Nat \X Nat
    BY <2>1
  <2>3. ~ (y < x)
    BY <1>1, <2>2 DEF OpToRel
  <2>4. QED
    BY <2>1, <2>3
<1>3. QED
  BY <1>2, Zenon DEF Min

\* What the removal of one element leaves.
LEMMA RemoveAtFacts ==
  ASSUME NEW S, NEW s \in Seq(S), NEW k \in 1 .. Len(s)
  PROVE  /\ RemoveAt(s, k) \in Seq(S)
         /\ Len(RemoveAt(s, k)) = Len(s) - 1
         /\ \A j \in 1 .. Len(s) - 1 :
              RemoveAt(s, k)[j] = IF j < k THEN s[j] ELSE s[j + 1]
<1> DEFINE front == SubSeq(s, 1, k - 1)
           back == SubSeq(s, k + 1, Len(s))
<1>1. Len(s) \in Nat /\ \A i \in 1 .. Len(s) : s[i] \in S
  BY ElementOfSeq
<1>2. /\ front \in Seq(S) /\ Len(front) = k - 1
      /\ \A i \in 1 .. k - 1 : front[i] = s[i]
  <2>1. \A i \in 1 .. k - 1 : s[i] \in S
    BY <1>1
  <2>2. k - 1 \in Int /\ k \in Nat
    BY <1>1
  <2>3. QED
    BY <2>1, <2>2, SubSeqProperties
<1>3. /\ back \in Seq(S) /\ Len(back) = Len(s) - k
      /\ \A i \in 1 .. Len(s) - k : back[i] = s[k + i]
  <2>1. \A i \in k + 1 .. Len(s) : s[i] \in S
    BY <1>1
  <2>2. k + 1 \in Int /\ k \in Nat
    BY <1>1
  <2>3. /\ back \in Seq(S)
        /\ Len(back) = IF k + 1 <= Len(s) THEN Len(s) - (k + 1) + 1 ELSE 0
        /\ \A i \in 1 .. Len(s) - (k + 1) + 1 : back[i] = s[k + 1 + i - 1]
    BY <1>1, <2>1, <2>2, SubSeqProperties
  <2>4. QED
    BY <1>1, <2>2, <2>3
<1> HIDE DEF front, back
<1>4. /\ front \o back \in Seq(S)
      /\ Len(front \o back) = Len(s) - 1
      /\ \A j \in 1 .. Len(s) - 1 :
           (front \o back)[j] = IF j <= k - 1 THEN front[j] ELSE back[j - (k - 1)]
  <2>1. Len(front) + Len(back) = Len(s) - 1
    BY <1>1, <1>2, <1>3
  <2>2. /\ front \o back \in Seq(S)
        /\ Len(front \o back) = Len(front) + Len(back)
        /\ \A j \in 1 .. Len(front) + Len(back) :
             (front \o back)[j]
               = IF j <= Len(front) THEN front[j] ELSE back[j - Len(front)]
    BY <1>2, <1>3, ConcatProperties, Zenon
  <2>3. Len(front) = k - 1
    BY <1>2
  <2>4. QED
    BY <2>1, <2>2, <2>3, Zenon
<1>5. RemoveAt(s, k) = front \o back
  BY DEF RemoveAt, front, back
<1>6. ASSUME NEW j \in 1 .. Len(s) - 1, j >= k
      PROVE  back[j - (k - 1)] = s[j + 1]
  <2>1. j - (k - 1) \in 1 .. Len(s) - k /\ k + (j - (k - 1)) = j + 1
    BY <1>1, <1>6
  <2>2. QED
    BY <1>3, <2>1
<1>7. ASSUME NEW j \in 1 .. Len(s) - 1
      PROVE  RemoveAt(s, k)[j] = IF j < k THEN s[j] ELSE s[j + 1]
  <2>1. CASE j < k
    <3>1. j <= k - 1 /\ j \in 1 .. k - 1
      BY <1>1, <2>1
    <3>2. QED
      BY <1>2, <1>4, <1>5, <2>1, <3>1
  <2>2. CASE j >= k
    <3>1. ~ (j <= k - 1) /\ ~ (j < k)
      BY <1>1, <2>2
    <3>2. QED
      BY <1>4, <1>5, <1>6, <2>2, <3>1
  <2>3. QED
    BY <1>1, <2>1, <2>2
<1>8. QED
  BY <1>4, <1>5, <1>7

\* The first occurrence is an occurrence.
LEMMA RemoveFirstAt ==
  ASSUME NEW S, NEW s \in Seq(S), NEW e, NEW i \in 1 .. Len(s), s[i] = e
  PROVE  \E k \in 1 .. Len(s) : s[k] = e /\ RemoveFirst(s, e) = RemoveAt(s, k)
<1> DEFINE I == {j \in 1 .. Len(s) : s[j] = e}
           k == SelectInSeq(s, LAMBDA v : v = e)
<1>1. I \in SUBSET Nat /\ I # {}
  OBVIOUS
<1>2. Min(I) \in I
  BY <1>1, MinIsLeast, Zenon
<1>3. k = Min(I)
  BY <1>1, Zenon DEF SelectInSeq
<1>4. RemoveFirst(s, e) = RemoveAt(s, k)
  BY Zenon DEF RemoveFirst
<1>5. k \in 1 .. Len(s) /\ s[k] = e
  BY <1>2, <1>3, Zenon
<1>6. QED
  BY <1>4, <1>5, Zenon

LEMMA RemoveFirstFacts ==
  ASSUME NEW S, NEW s \in Seq(S), NEW e
  PROVE  /\ RemoveFirst(s, e) \in Seq(S)
         /\ Len(RemoveFirst(s, e)) <= Len(s)
         /\ (\A i \in 1 .. Len(s) : s[i] # e) => RemoveFirst(s, e) = s
<1>1. CASE \E i \in 1 .. Len(s) : s[i] = e
  <2>1. PICK k \in 1 .. Len(s) : s[k] = e /\ RemoveFirst(s, e) = RemoveAt(s, k)
    BY <1>1, RemoveFirstAt, Zenon
  <2>2. /\ RemoveAt(s, k) \in Seq(S)
        /\ Len(RemoveAt(s, k)) = Len(s) - 1
    BY RemoveAtFacts, Zenon
  <2>3. Len(s) \in Nat
    OBVIOUS
  <2>4. QED
    BY <2>1, <2>2, <2>3
<1>2. CASE ~ \E i \in 1 .. Len(s) : s[i] = e
  <2>1. RemoveFirst(s, e) = s
    BY <1>2, Zenon DEF RemoveFirst
  <2>2. Len(s) \in Nat
    OBVIOUS
  <2>3. QED
    BY <2>1, <2>2
<1>3. QED
  BY <1>1, <1>2, Zenon

\* Taking t out of a list without repetitions leaves exactly the others, in
\* a list without repetitions.
LEMMA RemoveFirstOnce ==
  ASSUME NEW S, NEW s \in Seq(S), NEW e,
         \A i, j \in 1 .. Len(s) : s[i] = s[j] => i = j
  PROVE  LET r == RemoveFirst(s, e) IN
         /\ \A i \in 1 .. Len(r) : r[i] # e /\ \E j \in 1 .. Len(s) : s[j] = r[i]
         /\ \A i, j \in 1 .. Len(r) : r[i] = r[j] => i = j
         /\ \A j \in 1 .. Len(s) : s[j] # e => \E i \in 1 .. Len(r) : r[i] = s[j]
<1> DEFINE r == RemoveFirst(s, e)
<1>1. CASE \E i \in 1 .. Len(s) : s[i] = e
  <2>1. PICK k \in 1 .. Len(s) : s[k] = e /\ r = RemoveAt(s, k)
    BY <1>1, RemoveFirstAt, Zenon
  <2>2. /\ Len(r) = Len(s) - 1
        /\ \A j \in 1 .. Len(s) - 1 : r[j] = IF j < k THEN s[j] ELSE s[j + 1]
    <3>1. /\ Len(RemoveAt(s, k)) = Len(s) - 1
          /\ \A j \in 1 .. Len(s) - 1 :
               RemoveAt(s, k)[j] = IF j < k THEN s[j] ELSE s[j + 1]
      BY RemoveAtFacts, Zenon
    <3> HIDE DEF r
    <3>2. QED
      BY <2>1, <3>1, Zenon
  <2>3. Len(s) \in Nat
    OBVIOUS
  <2> HIDE DEF r
  <2>4. ASSUME NEW i \in 1 .. Len(r)
        PROVE  r[i] # e /\ \E j \in 1 .. Len(s) : s[j] = r[i]
    <3>1. i \in 1 .. Len(s) /\ i + 1 \in 1 .. Len(s) /\ i # i + 1
      BY <2>2, <2>3
    <3>2. CASE i < k
      BY <2>1, <2>2, <3>1, <3>2
    <3>3. CASE ~ (i < k)
      BY <2>1, <2>2, <3>1, <3>3
    <3>4. QED
      BY <3>2, <3>3
  <2>5. ASSUME NEW i \in 1 .. Len(r), NEW j \in 1 .. Len(r), r[i] = r[j]
        PROVE  i = j
    <3>1. /\ i \in 1 .. Len(s) /\ i + 1 \in 1 .. Len(s)
          /\ j \in 1 .. Len(s) /\ j + 1 \in 1 .. Len(s)
      BY <2>2, <2>3
    <3>2. r[i] = (IF i < k THEN s[i] ELSE s[i + 1])
          /\ r[j] = (IF j < k THEN s[j] ELSE s[j + 1])
      BY <2>2
    <3>3. \A a, b \in 1 .. Len(s) : s[a] = s[b] => a = b
      OBVIOUS
    <3>4. CASE i < k /\ j < k
      BY <2>5, <3>1, <3>2, <3>3, <3>4
    <3>5. CASE i < k /\ ~ (j < k)
      <4>1. s[i] = s[j + 1]
        BY <2>5, <3>2, <3>5
      <4>2. i = j + 1
        BY <3>1, <3>3, <4>1, Zenon
      <4>3. QED
        BY <2>3, <3>5, <4>2
    <3>6. CASE ~ (i < k) /\ j < k
      <4>1. s[i + 1] = s[j]
        BY <2>5, <3>2, <3>6
      <4>2. i + 1 = j
        BY <3>1, <3>3, <4>1, Zenon
      <4>3. QED
        BY <2>3, <3>6, <4>2
    <3>7. CASE ~ (i < k) /\ ~ (j < k)
      <4>1. s[i + 1] = s[j + 1]
        BY <2>5, <3>2, <3>7
      <4>2. i + 1 = j + 1
        BY <3>1, <3>3, <4>1, Zenon
      <4>3. QED
        BY <4>2
    <3>8. QED
      BY <3>4, <3>5, <3>6, <3>7
  <2>6. ASSUME NEW j \in 1 .. Len(s), s[j] # e
        PROVE  \E i \in 1 .. Len(r) : r[i] = s[j]
    <3>1. j # k
      BY <2>1, <2>6
    <3>2. CASE j < k
      <4>1. j \in 1 .. Len(s) - 1
        BY <2>3, <3>2
      <4>2. QED
        BY <2>2, <3>2, <4>1
    <3>3. CASE j > k
      <4>1. j - 1 \in 1 .. Len(s) - 1 /\ ~ (j - 1 < k) /\ (j - 1) + 1 = j
        BY <2>3, <3>3
      <4>2. QED
        BY <2>2, <4>1
    <3>4. QED
      BY <3>1, <3>2, <3>3
  <2>7. QED
    BY <2>4, <2>5, <2>6 DEF r
<1>2. CASE ~ \E i \in 1 .. Len(s) : s[i] = e
  <2>1. r = s
    BY <1>2, RemoveFirstFacts, Zenon
  <2>2. QED
    BY <1>2, <2>1
<1>3. QED
  BY <1>1, <1>2, Zenon

-----------------------------------------------------------------------------
(* Families of lists                                                       *)

\* No thread stands twice in a family of lists
Distinct(lists) ==
  \A k, l \in DOMAIN lists :
    \A i \in DOMAIN lists[k], j \in DOMAIN lists[l] :
      lists[k][i] = lists[l][j] => k = l /\ i = j

Within(lists, S) ==
  \A k \in DOMAIN lists : \A i \in DOMAIN lists[k] : lists[k][i] \in S

Covers(lists, S) ==
  \A t \in S : \E k \in DOMAIN lists : \E i \in DOMAIN lists[k] : lists[k][i] = t

\* The threads of S, each in one place, and no others
Houses(lists, S) == Distinct(lists) /\ Within(lists, S) /\ Covers(lists, S)

\* A thread that stands in no list goes to the end of one.
LEMMA HousesAppend ==
  ASSUME NEW K, NEW T, NEW L \in [K -> Seq(T)], NEW S, Houses(L, S),
         NEW k \in K, NEW t \in T, t \notin S
  PROVE  Houses([L EXCEPT ![k] = Append(@, t)], S \cup {t})
<1> DEFINE M == [L EXCEPT ![k] = Append(@, t)]
<1>1. /\ \A x \in K : L[x] \in Seq(T) /\ Len(L[x]) \in Nat
                      /\ DOMAIN L[x] = 1 .. Len(L[x])
      /\ DOMAIN L = K
  OBVIOUS
<1>2. /\ DOMAIN M = K
      /\ \A x \in K : x # k => M[x] = L[x]
      /\ DOMAIN M[k] = 1 .. Len(L[k]) + 1
      /\ \A i \in 1 .. Len(L[k]) : M[k][i] = L[k][i]
      /\ M[k][Len(L[k]) + 1] = t
  BY <1>1
<1> HIDE DEF M
<1>3. ASSUME NEW x \in K, NEW i \in DOMAIN M[x]
      PROVE  \/ x = k /\ i = Len(L[k]) + 1 /\ M[x][i] = t
             \/ i \in DOMAIN L[x] /\ M[x][i] = L[x][i]
  <2>1. CASE x = k
    <3>1. i = Len(L[k]) + 1 \/ i \in 1 .. Len(L[k])
      BY <1>1, <1>2, <2>1
    <3>2. QED
      BY <1>1, <1>2, <2>1, <3>1, Zenon
  <2>2. CASE x # k
    BY <1>2, <2>2, Zenon
  <2>3. QED
    BY <2>1, <2>2, Zenon
<1>4. \A x \in K : \A i \in DOMAIN L[x] : i \in DOMAIN M[x] /\ M[x][i] = L[x][i]
  <2>1. \A i \in 1 .. Len(L[k]) : i \in 1 .. Len(L[k]) + 1
    BY <1>1
  <2>2. QED
    BY <1>1, <1>2, <2>1, Zenon
<1>5. \A x \in K : \A i \in DOMAIN L[x] : L[x][i] # t
  BY <1>1, Zenon DEF Houses, Within
<1>6. Distinct(M)
  <2> SUFFICES ASSUME NEW x \in K, NEW y \in K, NEW i \in DOMAIN M[x],
                      NEW j \in DOMAIN M[y], M[x][i] = M[y][j]
               PROVE  x = y /\ i = j
    BY <1>2, Zenon DEF Distinct
  <2>1. \/ x = k /\ i = Len(L[k]) + 1 /\ M[x][i] = t
        \/ i \in DOMAIN L[x] /\ M[x][i] = L[x][i]
    BY <1>3, Zenon
  <2>2. \/ y = k /\ j = Len(L[k]) + 1 /\ M[y][j] = t
        \/ j \in DOMAIN L[y] /\ M[y][j] = L[y][j]
    BY <1>3, Zenon
  <2>3. QED
    BY <1>1, <1>5, <2>1, <2>2 DEF Houses, Distinct
<1>7. Within(M, S \cup {t})
  <2>1. \A x \in K : \A i \in DOMAIN L[x] : L[x][i] \in S
    BY <1>1, Zenon DEF Houses, Within
  <2>2. QED
    BY <1>2, <1>3, <2>1, Zenon DEF Within
<1>8. Covers(M, S \cup {t})
  <2>1. Len(L[k]) + 1 \in DOMAIN M[k]
    BY <1>1, <1>2
  <2>2. \A u \in S : \E x \in K : \E i \in DOMAIN L[x] : L[x][i] = u
    BY <1>1, Zenon DEF Houses, Covers
  <2>3. QED
    BY <1>2, <1>4, <2>1, <2>2 DEF Covers
<1>9. QED
  BY <1>6, <1>7, <1>8, Zenon DEF Houses, M

\* The head of a list leaves it.
LEMMA HousesTail ==
  ASSUME NEW K, NEW T, NEW L \in [K -> Seq(T)], NEW S, Houses(L, S),
         NEW k \in K, L[k] # <<>>
  PROVE  /\ Head(L[k]) \in S /\ Head(L[k]) \in T
         /\ Houses([L EXCEPT ![k] = Tail(@)], S \ {Head(L[k])})
<1> DEFINE M == [L EXCEPT ![k] = Tail(@)]
           t == Head(L[k])
<1>1. /\ \A x \in K : L[x] \in Seq(T) /\ Len(L[x]) \in Nat
                      /\ DOMAIN L[x] = 1 .. Len(L[x])
      /\ DOMAIN L = K
  OBVIOUS
<1>2. /\ t \in T /\ 1 \in DOMAIN L[k] /\ L[k][1] = t
      /\ DOMAIN M = K
      /\ \A x \in K : x # k => M[x] = L[x]
      /\ DOMAIN M[k] = 1 .. Len(L[k]) - 1
      /\ \A i \in 1 .. Len(L[k]) - 1 : M[k][i] = L[k][i + 1]
  <2>1. /\ t \in T
        /\ Tail(L[k]) \in Seq(T)
        /\ Len(Tail(L[k])) = Len(L[k]) - 1
        /\ \A i \in 1 .. Len(Tail(L[k])) : Tail(L[k])[i] = L[k][i + 1]
    BY <1>1, HeadTailProperties, Zenon
  <2>2. 1 \in DOMAIN L[k] /\ L[k][1] = t
    BY <1>1
  <2>3. M[k] = Tail(L[k]) /\ DOMAIN M = K /\ \A x \in K : x # k => M[x] = L[x]
    BY <1>1
  <2>4. DOMAIN Tail(L[k]) = 1 .. Len(Tail(L[k]))
    BY <2>1, LenProperties, Zenon
  <2>5. QED
    BY <2>1, <2>2, <2>3, <2>4, Zenon
<1> HIDE DEF M, t
<1>3. \A i \in DOMAIN M[k] : i + 1 \in DOMAIN L[k] /\ i + 1 # 1
                             /\ M[k][i] = L[k][i + 1]
  BY <1>1, <1>2
<1>4. \A i \in DOMAIN L[k] : i # 1 => \E j \in DOMAIN M[k] : M[k][j] = L[k][i]
  <2> SUFFICES ASSUME NEW i \in DOMAIN L[k], i # 1
               PROVE  \E j \in DOMAIN M[k] : M[k][j] = L[k][i]
    OBVIOUS
  <2>1. i - 1 \in DOMAIN M[k] /\ (i - 1) + 1 = i
    BY <1>1, <1>2
  <2>2. QED
    BY <1>2, <2>1
<1>5. /\ \A x, y \in K : \A i \in DOMAIN L[x], j \in DOMAIN L[y] :
           L[x][i] = L[y][j] => x = y /\ i = j
      /\ \A x \in K : \A i \in DOMAIN L[x] : L[x][i] \in S
      /\ \A u \in S : \E x \in K : \E i \in DOMAIN L[x] : L[x][i] = u
  BY <1>1, Zenon DEF Houses, Distinct, Within, Covers
<1>6. Distinct(M)
  <2> SUFFICES ASSUME NEW x \in K, NEW y \in K, NEW i \in DOMAIN M[x],
                      NEW j \in DOMAIN M[y], M[x][i] = M[y][j]
               PROVE  x = y /\ i = j
    BY <1>2, Zenon DEF Distinct
  <2>1. CASE x = k /\ y = k
    <3>1. i + 1 = j + 1
      BY <1>3, <1>5, <2>1
    <3>2. i \in Int /\ j \in Int
      BY <1>1, <1>2, <2>1
    <3>3. QED
      BY <2>1, <3>1, <3>2
  <2>2. CASE x = k /\ y # k
    BY <1>2, <1>3, <1>5, <2>2
  <2>3. CASE x # k /\ y = k
    BY <1>2, <1>3, <1>5, <2>3
  <2>4. CASE x # k /\ y # k
    BY <1>2, <1>5, <2>4
  <2>5. QED
    BY <2>1, <2>2, <2>3, <2>4, Zenon
<1>7. Within(M, S \ {t})
  <2> SUFFICES ASSUME NEW x \in K, NEW i \in DOMAIN M[x]
               PROVE  M[x][i] \in S /\ M[x][i] # t
    BY <1>2, Zenon DEF Within
  <2>1. CASE x = k
    BY <1>2, <1>3, <1>5, <2>1
  <2>2. CASE x # k
    BY <1>2, <1>5, <2>2
  <2>3. QED
    BY <2>1, <2>2, Zenon
<1>8. Covers(M, S \ {t})
  <2> SUFFICES ASSUME NEW u \in S, u # t
               PROVE  \E x \in K : \E i \in DOMAIN M[x] : M[x][i] = u
    BY <1>2, Zenon DEF Covers
  <2>1. PICK x \in K : \E i \in DOMAIN L[x] : L[x][i] = u
    BY <1>5, Zenon
  <2>2. PICK i \in DOMAIN L[x] : L[x][i] = u
    BY <2>1, Zenon
  <2>3. CASE x = k
    BY <1>2, <1>4, <2>2, <2>3, Zenon
  <2>4. CASE x # k
    BY <1>2, <2>2, <2>4, Zenon
  <2>5. QED
    BY <2>3, <2>4, Zenon
<1>9. QED
  BY <1>2, <1>5, <1>6, <1>7, <1>8 DEF Houses, M, t

\* A thread is taken out of wherever it stands.
LEMMA HousesRemove ==
  ASSUME NEW K, NEW T, NEW L \in [K -> Seq(T)], NEW S, Houses(L, S), NEW t,
         NEW M, DOMAIN M = K, \A k \in K : M[k] = RemoveFirst(L[k], t)
  PROVE  Houses(M, S \ {t})
<1>1. /\ \A x \in K : L[x] \in Seq(T) /\ DOMAIN L[x] = 1 .. Len(L[x])
      /\ DOMAIN L = K
  OBVIOUS
<1>2. /\ \A x, y \in K : \A i \in DOMAIN L[x], j \in DOMAIN L[y] :
           L[x][i] = L[y][j] => x = y /\ i = j
      /\ \A x \in K : \A i \in DOMAIN L[x] : L[x][i] \in S
      /\ \A u \in S : \E x \in K : \E i \in DOMAIN L[x] : L[x][i] = u
  BY <1>1, Zenon DEF Houses, Distinct, Within, Covers
<1>3. ASSUME NEW x \in K
      PROVE  /\ DOMAIN M[x] = 1 .. Len(M[x])
             /\ \A i \in DOMAIN M[x] : /\ M[x][i] # t
                                       /\ \E j \in DOMAIN L[x] : L[x][j] = M[x][i]
             /\ \A i, j \in DOMAIN M[x] : M[x][i] = M[x][j] => i = j
             /\ \A j \in DOMAIN L[x] : L[x][j] # t
                  => \E i \in DOMAIN M[x] : M[x][i] = L[x][j]
  <2>1. \A i, j \in 1 .. Len(L[x]) : L[x][i] = L[x][j] => i = j
    BY <1>1, <1>2
  <2>2. M[x] = RemoveFirst(L[x], t) /\ L[x] \in Seq(T)
    BY <1>1, Zenon
  <2>3. M[x] \in Seq(T)
    <3>1. ASSUME NEW s \in Seq(T) PROVE RemoveFirst(s, t) \in Seq(T)
      BY RemoveFirstFacts, Zenon
    <3>2. QED
      BY <2>2, <3>1, Zenon
  <2>4. DOMAIN M[x] = 1 .. Len(M[x])
    BY <2>3, LenProperties, Zenon
  <2>5. /\ \A i \in 1 .. Len(M[x]) :
             M[x][i] # t /\ \E j \in 1 .. Len(L[x]) : L[x][j] = M[x][i]
        /\ \A i, j \in 1 .. Len(M[x]) : M[x][i] = M[x][j] => i = j
        /\ \A j \in 1 .. Len(L[x]) : L[x][j] # t
             => \E i \in 1 .. Len(M[x]) : M[x][i] = L[x][j]
    <3> DEFINE s == L[x]
               r == M[x]
    <3>1. /\ s \in Seq(T) /\ r = RemoveFirst(s, t)
          /\ \A i, j \in 1 .. Len(s) : s[i] = s[j] => i = j
      BY <2>1, <2>2, Zenon
    <3> HIDE DEF s, r
    <3> DEFINE leaves(q) ==
                 /\ \A i \in 1 .. Len(q) :
                      q[i] # t /\ \E j \in 1 .. Len(s) : s[j] = q[i]
                 /\ \A i, j \in 1 .. Len(q) : q[i] = q[j] => i = j
                 /\ \A j \in 1 .. Len(s) :
                      s[j] # t => \E i \in 1 .. Len(q) : q[i] = s[j]
    <3>2. leaves(RemoveFirst(s, t))
      BY <3>1, RemoveFirstOnce, Zenon
    <3> HIDE DEF leaves
    <3>3. leaves(r)
      BY <3>1, <3>2, Zenon
    <3>4. QED
      BY <3>3, Zenon DEF s, r, leaves
  <2>6. QED
    BY <1>1, <2>4, <2>5, Zenon
<1>4. Distinct(M)
  <2> SUFFICES ASSUME NEW x \in K, NEW y \in K, NEW i \in DOMAIN M[x],
                      NEW j \in DOMAIN M[y], M[x][i] = M[y][j]
               PROVE  x = y /\ i = j
    BY Zenon DEF Distinct
  <2>1. PICK i2 \in DOMAIN L[x] : L[x][i2] = M[x][i]
    BY <1>3, Zenon
  <2>2. PICK j2 \in DOMAIN L[y] : L[y][j2] = M[y][j]
    BY <1>3, Zenon
  <2>3. x = y
    BY <1>2, <2>1, <2>2
  <2>4. QED
    BY <1>3, <2>3, Zenon
<1>5. Within(M, S \ {t})
  <2> SUFFICES ASSUME NEW x \in K, NEW i \in DOMAIN M[x]
               PROVE  M[x][i] \in S /\ M[x][i] # t
    BY Zenon DEF Within
  <2>1. PICK i2 \in DOMAIN L[x] : L[x][i2] = M[x][i]
    BY <1>3, Zenon
  <2>2. QED
    BY <1>2, <1>3, <2>1
<1>6. Covers(M, S \ {t})
  <2> SUFFICES ASSUME NEW u \in S, u # t
               PROVE  \E x \in K : \E i \in DOMAIN M[x] : M[x][i] = u
    BY Zenon DEF Covers
  <2>1. PICK x \in K : \E i \in DOMAIN L[x] : L[x][i] = u
    BY <1>2, Zenon
  <2>2. QED
    BY <1>3, <2>1
<1>7. QED
  BY <1>4, <1>5, <1>6, Zenon DEF Houses
-----------------------------------------------------------------------------
(* Types                                                                   *)

States == {"NULL", "NEW", "READY", "EXEC", "BLOCKED_JOIN", "BLOCKED_MUTEX",
           "BLOCKED_DUMP", "BLOCKED_IO_READY", "BLOCKED_IO_EXEC", "EXIT"}
Resource == [made : BOOLEAN, instances : Int, blocked : Seq(Thread)]

TcbTypes ==
  /\ state \in [Thread -> States]
  /\ priority \in [Thread -> Priority]
  /\ assigned \in [Thread -> SUBSET Mutexes]
  /\ joinedBy \in [Thread -> Seq(Thread)]
ProcTypes ==
  /\ process \in [Processes -> {"NONE", "ALIVE", "DESTROYED"}]
  /\ size \in [Processes -> 0 .. MaxTid + 1]
  /\ resource \in [Processes -> [Mutexes -> Resource]]
ReadyTypes == ready \in [Priority -> Seq(Thread)]
IoTypes ==
  /\ ioExec \in ThreadOrNull
  /\ ioReady \in Seq(Thread) /\ semIo \in Nat /\ device \in {"IDLE", "BUSY"}
  /\ IoCounted
StsTypes ==
  /\ exec \in ThreadOrNull
  /\ sts \in {"IDLE", "CPU", "UPGRADE", "LOCKED", "DOWNGRADE", "EXITING",
              "AFTER"}
  /\ call \in {"NONE", "PROCESS_EXIT", "THREAD_JOIN", "THREAD_CANCEL"}
  /\ target \in 0 .. MaxTid
  /\ redispatch \in BOOLEAN /\ killExec \in BOOLEAN /\ killSent \in BOOLEAN
  /\ expired \in BOOLEAN /\ fault \in BOOLEAN
  /\ sts # "IDLE" => exec \in Thread
KillTypes ==
  /\ writer \in {"NONE", "STS", "DUMP"} /\ killSelf \in ThreadOrNull
  /\ killNext \in 0 .. MaxTid + 1 /\ killLast \in 0 .. MaxTid + 1
  /\ writer # "NONE" => killSelf \in Thread
  /\ writer = "STS" => sts = "LOCKED"
ExitTypes ==
  /\ exiting \in ThreadOrNull /\ left \in SUBSET Mutexes
  /\ unblock \in ThreadOrNull /\ staleHandover \in BOOLEAN

\* TypeOK and IoCounted, and that the scheduler and the writer have a thread
Types == /\ TcbTypes /\ ProcTypes /\ ReadyTypes /\ IoTypes /\ StsTypes
         /\ KillTypes /\ ExitTypes

LEMMA TypesIs == Types => TypeOK /\ IoCounted
BY Zenon DEF Types, TcbTypes, ProcTypes, ReadyTypes, IoTypes, StsTypes, KillTypes,
  ExitTypes, TypeOK, States, Resource

LEMMA ThreadFacts ==
  /\ \A t \in Thread : /\ t[1] \in Processes /\ t[2] \in 0 .. MaxTid
                       /\ t = <<t[1], t[2]>> /\ t # NoThread
  /\ \A p \in Processes, n \in 0 .. MaxTid :
       /\ <<p, n>> \in Thread /\ <<p, n>>[1] = p /\ <<p, n>>[2] = n
BY KernelThreadsAssumption DEF Thread

LEMMA QueueOf == \A prio \in Priority : ReadyQueue(prio) \in Priority
BY KernelThreadsAssumption DEF Priority, ReadyQueue

LEMMA ReadyTyped ==
  ASSUME TcbTypes, ReadyTypes, NEW t \in Thread, NEW prio \in Priority,
         InsertStateReady(t, prio)
  PROVE  /\ state' \in [Thread -> States] /\ ReadyTypes'
<1>1. state' \in [Thread -> States]
  BY DEF TcbTypes, InsertStateReady, States
<1>2. ReadyQueue(prio) \in Priority
  BY QueueOf
<1>3. Append(ready[ReadyQueue(prio)], t) \in Seq(Thread)
  BY <1>2 DEF ReadyTypes
<1>4. QED
  BY <1>1, <1>2, <1>3 DEF ReadyTypes, InsertStateReady

LEMMA ExitTyped ==
  ASSUME TcbTypes, ExitTypes, NEW t \in Thread, InsertStateExit(t)
  PROVE  /\ state' \in [Thread -> States]
         /\ exiting' \in ThreadOrNull /\ left' \in SUBSET Mutexes
         /\ unblock' \in ThreadOrNull
BY DEF TcbTypes, ExitTypes, InsertStateExit, States, ThreadOrNull

LEMMA ResourceUpdate ==
  ASSUME NEW r \in Resource, NEW i \in Int, NEW b \in Seq(Thread)
  PROVE  LET new == [r EXCEPT !.instances = i, !.blocked = b] IN
         /\ new \in Resource
         /\ new.made = r.made /\ new.instances = i /\ new.blocked = b
BY DEF Resource

LEMMA TypesStay ==
  /\ TcbTypes /\ UNCHANGED tcbVars => TcbTypes'
  /\ TcbTypes /\ state' \in [Thread -> States]
       /\ UNCHANGED <<priority, assigned, joinedBy>> => TcbTypes'
  /\ ProcTypes /\ UNCHANGED procVars => ProcTypes'
  /\ ReadyTypes /\ UNCHANGED ready => ReadyTypes'
  /\ IoTypes /\ UNCHANGED ioVars => IoTypes'
  /\ StsTypes /\ UNCHANGED <<exec, stsVars, expired, fault>> => StsTypes'
  /\ KillTypes /\ UNCHANGED killVars /\ (writer = "NONE" \/ UNCHANGED sts)
       => KillTypes'
  /\ ExitTypes /\ UNCHANGED exitVars => ExitTypes'
BY DEF TcbTypes, ProcTypes, ReadyTypes, IoTypes, StsTypes, KillTypes, ExitTypes,
  tcbVars, procVars, ioVars, stsVars, killVars, exitVars, IoCounted

LEMMA UnassignTypes ==
  ASSUME Types, NEW m \in Mutexes, ResourcesUnassign(m)
  PROVE  Types'
<1> DEFINE p == exiting[1]
           r == resource[p][m]
           woken == r.instances + 1 <= 0
           heir == IF ~woken THEN unblock
                   ELSE IF r.blocked = <<>> THEN NoThread ELSE Head(r.blocked)
<1>1. exiting \in Thread /\ p \in Processes
  BY ThreadFacts DEF Types, ExitTypes, ResourcesUnassign, ThreadOrNull
<1>2. /\ r \in Resource /\ r.instances \in Int /\ r.blocked \in Seq(Thread)
      /\ r.blocked # <<>> => Head(r.blocked) \in Thread /\ Tail(r.blocked) \in Seq(Thread)
  <2>1. r \in Resource
    BY <1>1 DEF Types, ProcTypes
  <2> HIDE DEF r
  <2>2. r.instances \in Int /\ r.blocked \in Seq(Thread)
    BY <2>1 DEF Resource
  <2>3. QED
    BY <2>1, <2>2, HeadTailProperties
<1>3. heir \in ThreadOrNull
  BY <1>2 DEF ThreadOrNull, Types, ExitTypes
<1>4. ProcTypes'
  <2> DEFINE new == [r EXCEPT !.instances = @ + 1,
                   !.blocked = IF woken /\ @ # <<>> THEN Tail(@) ELSE @]
  <2>1. new \in Resource
    <3> DEFINE b == IF woken /\ r.blocked # <<>> THEN Tail(r.blocked)
                    ELSE r.blocked
    <3>1. b \in Seq(Thread) /\ r.instances + 1 \in Int
      BY <1>2
    <3>2. new = [r EXCEPT !.instances = r.instances + 1, !.blocked = b]
      OBVIOUS
    <3> HIDE DEF r, b, new
    <3>3. QED
      BY <1>2, <3>1, <3>2, ResourceUpdate
  <2>2. resource' = [resource EXCEPT ![p][m] = new]
    BY Zenon DEF ResourcesUnassign
  <2> HIDE DEF new, p
  <2>3. resource' \in [Processes -> [Mutexes -> Resource]]
    BY <1>1, <2>1, <2>2 DEF Types, ProcTypes
  <2>4. UNCHANGED <<process, size>>
    BY DEF ResourcesUnassign
  <2>5. QED
    BY <2>3, <2>4 DEF ProcTypes, Types
<1>5. TcbTypes' /\ ReadyTypes'
  <2>1. UNCHANGED <<priority, joinedBy>>
    BY DEF ResourcesUnassign
  <2>2. CASE heir = NoThread
    <3>1. UNCHANGED <<state, ready, assigned>>
      BY <2>2, Zenon DEF ResourcesUnassign
    <3>2. QED
      BY <2>1, <3>1, TypesStay DEF Types, tcbVars
  <2>3. CASE heir # NoThread
    <3>1. /\ assigned' = [assigned EXCEPT ![heir] = @ \cup {m}]
          /\ InsertStateReady(heir, priority[heir])
      BY <2>3, Zenon DEF ResourcesUnassign
    <3>2. heir \in Thread
      BY <1>3, <2>3 DEF ThreadOrNull
    <3> HIDE DEF heir
    <3>3. priority[heir] \in Priority /\ assigned' \in [Thread -> SUBSET Mutexes]
      BY <3>1, <3>2 DEF Types, TcbTypes
    <3>4. state' \in [Thread -> States] /\ ReadyTypes'
      BY <3>1, <3>2, <3>3, ReadyTyped DEF Types
    <3>5. QED
      BY <2>1, <3>3, <3>4 DEF TcbTypes, Types
  <2>4. QED
    BY <2>2, <2>3
<1>6. ExitTypes'
  <2>1. /\ unblock' = heir /\ left' = left \ {m} /\ exiting' = exiting
        /\ staleHandover' = (staleHandover \/ (~woken /\ heir # NoThread))
    BY Zenon DEF ResourcesUnassign
  <2> HIDE DEF heir, woken
  <2>2. QED
    BY <1>3, <2>1 DEF Types, ExitTypes
<1>7. UNCHANGED <<exec, ioVars, stsVars, expired, killVars, fault>>
  BY DEF ResourcesUnassign
<1>8. IoTypes' /\ StsTypes' /\ KillTypes'
  BY <1>7, TypesStay DEF Types, stsVars
<1>9. QED
  BY <1>4, <1>5, <1>6, <1>8 DEF Types

LEMMA ExitStepTypes ==
  ASSUME Types, ExitStep
  PROVE  Types'
<1>1. ASSUME JoinThreads PROVE Types'
  <2> DEFINE t == Head(joinedBy[exiting])
  <2>1. exiting \in Thread
    BY <1>1 DEF JoinThreads, Types, ExitTypes, ThreadOrNull
  <2>2. t \in Thread /\ Tail(joinedBy[exiting]) \in Seq(Thread)
    BY <1>1, <2>1, HeadTailProperties DEF JoinThreads, Types, TcbTypes
  <2>3. InsertStateReady(t, priority[t])
    BY <1>1 DEF JoinThreads
  <2>4. priority[t] \in Priority
    BY <2>2 DEF Types, TcbTypes
  <2>5. state' \in [Thread -> States] /\ ReadyTypes'
    BY <2>2, <2>3, <2>4, ReadyTyped DEF Types
  <2>6. joinedBy' \in [Thread -> Seq(Thread)] /\ UNCHANGED <<priority, assigned>>
    BY <1>1, <2>1, <2>2 DEF JoinThreads, Types, TcbTypes
  <2>7. TcbTypes'
    BY <2>5, <2>6 DEF TcbTypes, Types
  <2>8. UNCHANGED <<procVars, exec, ioVars, stsVars, expired, killVars, exitVars,
                    fault>>
    BY <1>1 DEF JoinThreads
  <2>9. QED
    BY <2>5, <2>7, <2>8, TypesStay DEF Types, stsVars
<1>2. ASSUME Destroy PROVE Types'
  <2>1. exiting \in Thread /\ exiting[1] \in Processes
    BY <1>2, ThreadFacts DEF Destroy, Types, ExitTypes, ThreadOrNull
  <2>2. TcbTypes'
    BY <1>2, <2>1 DEF Destroy, Types, TcbTypes, States
  <2>3. ProcTypes'
    <3>1. [m \in Mutexes |-> NoResource] \in [Mutexes -> Resource]
      BY DEF NoResource, Resource
    <3>2. process' \in [Processes -> {"NONE", "ALIVE", "DESTROYED"}]
      BY <1>2, <2>1 DEF Destroy, Types, ProcTypes
    <3>3. resource' \in [Processes -> [Mutexes -> Resource]]
      BY <1>2, <2>1, <3>1 DEF Destroy, Types, ProcTypes
    <3>4. QED
      BY <1>2, <3>2, <3>3 DEF Destroy, Types, ProcTypes
  <2>4. ReadyTypes' /\ IoTypes'
    BY <1>2, TypesStay DEF Destroy, Types
  <2>5. StsTypes'
    BY <1>2 DEF Destroy, Types, StsTypes
  <2>6. KillTypes'
    BY <1>2 DEF Destroy, Types, KillTypes, ThreadOrNull
  <2>7. ExitTypes'
    BY <1>2 DEF Destroy, Types, ExitTypes, ThreadOrNull
  <2>8. QED
    BY <2>2, <2>3, <2>4, <2>5, <2>6, <2>7 DEF Types
<1>3. QED
  BY <1>1, <1>2, UnassignTypes DEF ExitStep

LEMMA KillStepTypes ==
  ASSUME Types, KillStep
  PROVE  Types'
<1>1. /\ killSelf \in Thread /\ Victim \in Thread
      /\ killNext + 1 \in 0 .. MaxTid + 1
  <2>1. /\ killSelf \in Thread /\ killNext \in 0 .. MaxTid + 1
        /\ killLast \in 0 .. MaxTid + 1 /\ killNext < killLast
    BY DEF KillStep, KillNone, KillExec, KillReady, KillBlocked, Killing, Types,
      KillTypes
  <2>2. killNext \in 0 .. MaxTid /\ killNext + 1 \in 0 .. MaxTid + 1
    BY <2>1, KernelThreadsAssumption
  <2>3. QED
    BY <2>1, <2>2, ThreadFacts DEF Victim
<1>2. ASSUME KillNone PROVE Types'
  <2>1. UNCHANGED <<tcbVars, procVars, ready, exec, ioVars, stsVars, expired,
                    exitVars, fault>>
    BY <1>2 DEF KillNone
  <2>2. KillTypes'
    BY <1>1, <1>2 DEF KillNone, Types, KillTypes, stsVars
  <2>3. QED
    BY <2>1, <2>2, TypesStay DEF Types
<1>3. ASSUME KillExec PROVE Types'
  <2>1. UNCHANGED <<tcbVars, procVars, ready, ioVars, exitVars>>
    BY <1>3 DEF KillExec
  <2>2. KillTypes'
    BY <1>1, <1>3 DEF KillExec, Types, KillTypes
  <2>3. StsTypes'
    BY <1>3 DEF KillExec, Types, StsTypes
  <2>4. QED
    BY <2>1, <2>2, <2>3, TypesStay DEF Types
<1>4. ASSUME KillReady PROVE Types'
  <2>1. UNCHANGED <<tcbVars, procVars, ready, ioVars, killVars, exitVars>>
    BY <1>4 DEF KillReady
  <2>2. StsTypes'
    BY <1>4 DEF KillReady, Types, StsTypes, stsVars
  <2>3. UNCHANGED sts
    BY <1>4 DEF KillReady, stsVars
  <2>4. QED
    BY <2>1, <2>2, <2>3, TypesStay DEF Types
<1>5. ASSUME KillBlocked PROVE Types'
  <2> DEFINE t == Victim
             p == t[1]
             waits(m) == t \in Range(resource[p][m].blocked)
             locks == [m \in Mutexes |->
                        IF waits(m) THEN DropWaiter(resource[p][m], t)
                        ELSE resource[p][m]]
  <2>1. t \in Thread /\ p \in Processes
    BY <1>1, ThreadFacts
  <2>2. UNCHANGED <<priority, assigned, process, size, ready, exec, semIo, device,
                    stsVars, expired, writer, killSelf, killLast, staleHandover,
                    fault>>
    BY <1>5 DEF KillBlocked
  <2>3. InsertStateExit(t) /\ killNext' = killNext + 1
    BY <1>5 DEF KillBlocked
  <2>4. ExitTypes' /\ state' \in [Thread -> States]
    BY <2>1, <2>2, <2>3, ExitTyped DEF Types, ExitTypes
  <2>5. KillTypes'
    BY <1>1, <2>2, <2>3 DEF Types, KillTypes, stsVars
  <2>6. joinedBy' \in [Thread -> Seq(Thread)]
    <3>1. \A u \in Thread : ListRemove(joinedBy[u], t) \in Seq(Thread)
      BY RemoveFirstFacts DEF ListRemove, Types, TcbTypes
    <3>2. \/ joinedBy' = [u \in Thread |-> ListRemove(joinedBy[u], t)]
          \/ joinedBy' = joinedBy
      BY <1>5, Zenon DEF KillBlocked
    <3>3. QED
      BY <3>1, <3>2 DEF Types, TcbTypes
  <2>7. resource' \in [Processes -> [Mutexes -> Resource]]
    <3>1. resource \in [Processes -> [Mutexes -> Resource]]
      BY DEF Types, ProcTypes
    <3>2. ASSUME NEW r \in Resource PROVE DropWaiter(r, t) \in Resource
      <4>1. r.instances + 1 \in Int /\ r.blocked \in Seq(Thread)
        BY DEF Resource
      <4>2. RemoveFirst(r.blocked, t) \in Seq(Thread)
        BY <4>1, RemoveFirstFacts
      <4>3. QED
        BY <4>1, <4>2, ResourceUpdate DEF DropWaiter, ListRemove
    <3>3. locks \in [Mutexes -> Resource]
      BY <2>1, <3>1, <3>2
    <3>4. \/ resource' = [resource EXCEPT ![p] = locks]
          \/ resource' = resource
      BY <1>5 DEF KillBlocked
    <3> HIDE DEF locks, p
    <3>5. QED
      BY <2>1, <3>1, <3>3, <3>4
  <2>8. IoTypes'
    <3>1. ioReady \in Seq(Thread)
      BY DEF Types, IoTypes
    <3>2. /\ RemoveFirst(ioReady, t) \in Seq(Thread)
          /\ Len(RemoveFirst(ioReady, t)) <= Len(ioReady)
          /\ Len(RemoveFirst(ioReady, t)) \in Nat /\ Len(ioReady) \in Nat
      BY <3>1, RemoveFirstFacts, LenProperties
    <3>3. /\ ioReady' = RemoveFirst(ioReady, t) \/ ioReady' = ioReady
          /\ ioExec' = NoThread \/ ioExec' = ioExec
      BY <1>5, Zenon DEF KillBlocked, ListRemove
    <3>4. QED
      BY <2>2, <3>2, <3>3 DEF Types, IoTypes, IoCounted, ThreadOrNull
  <2>9. QED
    BY <2>2, <2>4, <2>5, <2>6, <2>7, <2>8, TypesStay
      DEF Types, TcbTypes, ProcTypes
<1>6. QED
  BY <1>2, <1>3, <1>4, <1>5 DEF KillStep

LEMMA ExitExecTypes ==
  ASSUME Types, exec \in Thread, ExitExec,
         UNCHANGED <<priority, assigned, joinedBy, exec, expired, staleHandover,
                     fault>>
  PROVE  TcbTypes' /\ StsTypes' /\ ExitTypes'
<1>1. InsertStateExit(exec)
  BY DEF ExitExec
<1>2. /\ state' \in [Thread -> States]
      /\ exiting' \in ThreadOrNull /\ left' \in SUBSET Mutexes
      /\ unblock' \in ThreadOrNull
  BY <1>1, ExitTyped DEF Types
<1>3. StsTypes'
  BY DEF ExitExec, Types, StsTypes
<1>4. QED
  BY <1>2, <1>3, TypesStay DEF Types, ExitTypes

LEMMA ContinueTypes ==
  ASSUME Types, exec \in Thread, NEW again \in BOOLEAN, Continue(again),
         UNCHANGED <<exec, expired, fault>>
  PROVE  StsTypes' /\ ExitTypes'
BY TypesStay DEF Continue, Types, StsTypes

LEMMA EvictedExec ==
  Types /\ (Evicted \/ Syscall) => exec \in Thread /\ writer = "NONE"
BY DEF Types, StsTypes, Evicted, Syscall, CanRead

LEMMA EvictionTypes ==
  ASSUME Types, EvictExit \/ EvictKilled \/ EvictQuantum \/ QuantumExpires
  PROVE  Types'
<1>1. ASSUME EvictExit \/ EvictKilled PROVE Types'
  <2>1. /\ exec \in Thread /\ writer = "NONE" /\ ExitExec
        /\ UNCHANGED <<priority, assigned, joinedBy, procVars, ready, exec, ioVars,
                       expired, killVars, staleHandover, fault>>
    BY <1>1, EvictedExec DEF EvictExit, EvictKilled
  <2>2. TcbTypes' /\ StsTypes' /\ ExitTypes'
    BY <2>1, ExitExecTypes
  <2>3. QED
    BY <2>1, <2>2, TypesStay DEF Types
<1>2. ASSUME EvictQuantum PROVE Types'
  <2>1. /\ exec \in Thread /\ writer = "NONE"
        /\ InsertStateReady(exec, priority[exec])
        /\ Continue(FALSE)
        /\ UNCHANGED <<priority, assigned, joinedBy, procVars, exec, ioVars, expired,
                       killVars, fault>>
    BY <1>2, EvictedExec DEF EvictQuantum
  <2>2. priority[exec] \in Priority
    BY <2>1 DEF Types, TcbTypes
  <2>3. state' \in [Thread -> States] /\ ReadyTypes'
    BY <2>1, <2>2, ReadyTyped DEF Types
  <2>4. StsTypes' /\ ExitTypes'
    BY <2>1, ContinueTypes
  <2>5. QED
    BY <2>1, <2>3, <2>4, TypesStay DEF Types
<1>3. ASSUME QuantumExpires PROVE Types'
  <2>1. UNCHANGED <<tcbVars, procVars, ready, ioVars, killVars, exitVars, sts>>
    BY <1>3 DEF QuantumExpires, stsVars
  <2>2. StsTypes'
    BY <1>3 DEF QuantumExpires, Types, StsTypes, stsVars
  <2>3. QED
    BY <2>1, <2>2, TypesStay DEF Types
<1>4. QED
  BY <1>1, <1>2, <1>3

LEMMA SchedulerTypes ==
  ASSUME Types, SchedulerStep
  PROVE  Types'
<1>1. ASSUME Dispatch PROVE Types'
  <2>1. PICK q \in Priority :
          LET t == Head(ready[q]) IN
          /\ ready[q] # <<>>
          /\ ready' = [ready EXCEPT ![q] = Tail(@)]
          /\ state' = [state EXCEPT ![t] = "EXEC"]
          /\ exec' = t
          /\ killExec' = FALSE /\ killSent' = FALSE /\ expired' = FALSE
          /\ sts' = "CPU"
          /\ fault' = (state[t] = "NULL")
          /\ UNCHANGED <<priority, assigned, joinedBy, procVars, ioVars, call, target,
                         redispatch, killVars, exitVars>>
    BY <1>1, Zenon DEF Dispatch
  <2>2. Head(ready[q]) \in Thread /\ Tail(ready[q]) \in Seq(Thread)
    BY <2>1, HeadTailProperties DEF Types, ReadyTypes
  <2>3. ReadyTypes'
    BY <2>1, <2>2 DEF Types, ReadyTypes
  <2>4. state' \in [Thread -> States]
    BY <2>1, <2>2 DEF Types, TcbTypes, States
  <2>5. StsTypes'
    BY <2>1, <2>2 DEF Types, StsTypes, ThreadOrNull
  <2>6. /\ writer = "NONE"
        /\ UNCHANGED <<priority, assigned, joinedBy, procVars, ioVars, killVars,
                       exitVars>>
    BY <1>1, <2>1, Zenon DEF Dispatch, CanRead
  <2>7. QED
    BY <2>3, <2>4, <2>5, <2>6, TypesStay DEF Types
<1>2. ASSUME After PROVE Types'
  <2>1. exec \in Thread
    BY <1>2 DEF After, Types, StsTypes
  <2>2. priority[exec] \in Priority
    BY <2>1 DEF Types, TcbTypes
  <2>3. UNCHANGED <<state, ready>> \/ InsertStateReady(exec, priority[exec])
    BY <1>2 DEF After
  <2>4. state' \in [Thread -> States] /\ ReadyTypes'
    BY <2>1, <2>2, <2>3, ReadyTyped, TypesStay DEF Types, TcbTypes
  <2>5. StsTypes'
    BY <1>2, <2>1 DEF After, Types, StsTypes
  <2>6. /\ writer = "NONE"
        /\ UNCHANGED <<priority, assigned, joinedBy, procVars, ioVars, killVars,
                       exitVars>>
    BY <1>2 DEF After, CanRead
  <2>7. QED
    BY <2>4, <2>5, <2>6, TypesStay DEF Types
<1>3. ASSUME JoinLocked PROVE Types'
  <2>1. exec \in Thread /\ <<exec[1], target>> \in Thread
    BY <1>3, ThreadFacts DEF JoinLocked, Types, StsTypes
  <2>2. Append(joinedBy[<<exec[1], target>>], exec) \in Seq(Thread)
    BY <2>1 DEF Types, TcbTypes
  <2>3. TcbTypes'
    <3>1. state' \in [Thread -> States]
      BY <1>3, <2>1 DEF JoinLocked, Types, TcbTypes, States
    <3>2. joinedBy' \in [Thread -> Seq(Thread)]
      BY <1>3, <2>1, <2>2 DEF JoinLocked, Types, TcbTypes
    <3>3. QED
      BY <1>3, <3>1, <3>2 DEF JoinLocked, Types, TcbTypes
  <2>4. StsTypes'
    BY <1>3, <2>1 DEF JoinLocked, Types, StsTypes
  <2>5. /\ writer = "NONE"
        /\ UNCHANGED <<procVars, ready, ioVars, killVars, exitVars>>
    BY <1>3 DEF JoinLocked, CanWrite, CanRead
  <2>6. QED
    BY <2>3, <2>4, <2>5, TypesStay DEF Types
<1>4. ASSUME KillLocked PROVE Types'
  <2>1. exec \in Thread /\ exec[1] \in Processes /\ target \in 0 .. MaxTid
    BY <1>4, ThreadFacts DEF KillLocked, Types, StsTypes
  <2>2. size[exec[1]] \in 0 .. MaxTid + 1
    BY <2>1 DEF Types, ProcTypes
  <2>3. killNext' \in 0 .. MaxTid + 1 /\ killLast' \in 0 .. MaxTid + 1
    BY <1>4, <2>1, <2>2, KernelThreadsAssumption DEF KillLocked
  <2>4. KillTypes'
    BY <1>4, <2>1, <2>3 DEF KillLocked, Types, KillTypes, ThreadOrNull
  <2>5. StsTypes'
    BY <1>4, <2>1 DEF KillLocked, Types, StsTypes
  <2>6. UNCHANGED <<tcbVars, procVars, ready, ioVars, exitVars>>
    BY <1>4 DEF KillLocked
  <2>7. QED
    BY <2>4, <2>5, <2>6, TypesStay DEF Types
<1>5. ASSUME KillUnlocked PROVE Types'
  <2>1. StsTypes'
    <3>1. exec \in Thread
      BY <1>5 DEF KillUnlocked, Types, StsTypes, KillTypes
    <3>2. QED
      BY <1>5, <3>1 DEF KillUnlocked, Types, StsTypes
  <2>2. KillTypes'
    BY <1>5 DEF KillUnlocked, Types, KillTypes, ThreadOrNull
  <2>3. UNCHANGED <<tcbVars, procVars, ready, ioVars, exitVars>>
    BY <1>5 DEF KillUnlocked
  <2>4. QED
    BY <2>1, <2>2, <2>3, TypesStay DEF Types
<1>6. ASSUME Downgrade PROVE Types'
  <2>1. exec \in Thread
    BY <1>6 DEF Downgrade, Types, StsTypes
  <2>2. /\ \/ InsertStateExit(exec)
           \/ UNCHANGED <<state, exiting, left, unblock>>
        /\ UNCHANGED <<priority, assigned, joinedBy, procVars, ready, ioVars,
                       killVars, staleHandover>>
        /\ writer = "NONE"
    BY <1>6 DEF Downgrade, CanRead
  <2>3. /\ state' \in [Thread -> States]
        /\ exiting' \in ThreadOrNull /\ left' \in SUBSET Mutexes
        /\ unblock' \in ThreadOrNull
    BY <2>1, <2>2, ExitTyped DEF Types, TcbTypes, ExitTypes
  <2>4. StsTypes'
    <3>1. 0 \in 0 .. MaxTid
      BY KernelThreadsAssumption
    <3>2. /\ call' = "NONE" /\ target' = 0
          /\ \/ sts' = "EXITING" /\ redispatch' = FALSE
             \/ sts' = "AFTER" /\ redispatch' = redispatch
          /\ UNCHANGED <<exec, killExec, killSent, expired, fault>>
      BY <1>6 DEF Downgrade
    <3>3. QED
      BY <2>1, <3>1, <3>2 DEF Types, StsTypes
  <2>5. ExitTypes'
    BY <2>2, <2>3 DEF ExitTypes, Types
  <2>6. QED
    BY <2>2, <2>3, <2>4, <2>5, TypesStay DEF Types
<1>7. QED
  BY <1>1, <1>2, <1>3, <1>4, <1>5, <1>6 DEF SchedulerStep

LEMMA CallTypes ==
  ASSUME Types,
         \/ \E prio \in Priority : ThreadCreate(prio)
         \/ DumpMemory \/ Io \/ SelfJoin \/ ProcessExit
         \/ \E tid \in 0 .. MaxTid : WindowCall(tid)
  PROVE  Types'
<1>1. exec \in Thread /\ writer = "NONE" /\ priority[exec] \in Priority
  <2>1. exec \in Thread /\ writer = "NONE"
    BY EvictedExec DEF ThreadCreate, DumpMemory, Io, SelfJoin, ProcessExit,
      WindowCall, ThreadJoin, ThreadCancel
  <2>2. QED
    BY <2>1 DEF Types, TcbTypes
<1>2. ASSUME NEW prio \in Priority, ThreadCreate(prio) PROVE Types'
  <2> DEFINE p == exec[1]
             t == <<p, size[p]>>
  <2>1. p \in Processes /\ size[p] \in 0 .. MaxTid + 1
    BY <1>1, ThreadFacts DEF Types, ProcTypes
  <2>2. size[p] \in 0 .. MaxTid /\ size[p] + 1 \in 0 .. MaxTid + 1
    BY <1>2, <2>1, KernelThreadsAssumption DEF ThreadCreate
  <2>3. t \in Thread
    BY <2>1, <2>2, ThreadFacts
  <2>4. /\ size' = [size EXCEPT ![p] = @ + 1]
        /\ priority' = [priority EXCEPT ![t] = prio]
        /\ \/ InsertStateReady(t, prio)
           \/ state' = [state EXCEPT ![t] = "NEW"] /\ UNCHANGED ready
        /\ Continue(TRUE)
        /\ UNCHANGED <<assigned, joinedBy, process, resource, exec, ioVars, expired,
                       killVars, fault>>
    BY <1>2 DEF ThreadCreate
  <2> HIDE DEF t, p
  <2>5. state' \in [Thread -> States] /\ ReadyTypes'
    <3>1. CASE InsertStateReady(t, prio)
      BY <2>3, <3>1, ReadyTyped DEF Types
    <3>2. CASE state' = [state EXCEPT ![t] = "NEW"] /\ UNCHANGED ready
      BY <2>3, <3>2, TypesStay DEF Types, TcbTypes, States
    <3>3. QED
      BY <2>4, <3>1, <3>2
  <2>6. TcbTypes'
    BY <2>3, <2>4, <2>5 DEF Types, TcbTypes
  <2>7. ProcTypes'
    BY <2>1, <2>2, <2>4 DEF Types, ProcTypes
  <2>8. StsTypes' /\ ExitTypes'
    BY <1>1, <2>4, ContinueTypes
  <2>9. QED
    BY <1>1, <2>4, <2>5, <2>6, <2>7, <2>8, TypesStay DEF Types
<1>3. ASSUME DumpMemory PROVE Types'
  <2>1. /\ Continue(FALSE) /\ state' = [state EXCEPT ![exec] = "BLOCKED_DUMP"]
        /\ UNCHANGED <<priority, assigned, joinedBy, procVars, ready, exec, ioVars,
                       expired, killVars, fault>>
    BY <1>3 DEF DumpMemory
  <2>2. state' \in [Thread -> States]
    BY <1>1, <2>1 DEF Types, TcbTypes, States
  <2>3. StsTypes' /\ ExitTypes'
    BY <1>1, <2>1, ContinueTypes
  <2>4. QED
    BY <1>1, <2>1, <2>2, <2>3, TypesStay DEF Types
<1>4. ASSUME Io PROVE Types'
  <2>1. /\ Continue(FALSE) /\ state' = [state EXCEPT ![exec] = "BLOCKED_IO_READY"]
        /\ ioReady' = Append(ioReady, exec) /\ semIo' = semIo + 1
        /\ UNCHANGED <<priority, assigned, joinedBy, procVars, ready, exec, ioExec,
                       device, expired, killVars, fault>>
    BY <1>4 DEF Io, InsertStateBlockedIoReady
  <2>2. state' \in [Thread -> States]
    BY <1>1, <2>1 DEF Types, TcbTypes, States
  <2>3. StsTypes' /\ ExitTypes'
    BY <1>1, <2>1, ContinueTypes
  <2>4. IoTypes'
    <3>1. ioReady \in Seq(Thread)
      BY DEF Types, IoTypes
    <3>2. /\ Append(ioReady, exec) \in Seq(Thread)
          /\ Len(Append(ioReady, exec)) = Len(ioReady) + 1 /\ Len(ioReady) \in Nat
      BY <1>1, <3>1, AppendProperties, LenProperties
    <3>3. QED
      BY <2>1, <3>2 DEF Types, IoTypes, IoCounted
  <2>5. QED
    BY <1>1, <2>1, <2>2, <2>3, <2>4, TypesStay DEF Types
<1>5. ASSUME SelfJoin PROVE Types'
  <2>1. /\ Continue(TRUE)
        /\ UNCHANGED <<tcbVars, procVars, ready, exec, ioVars, expired, killVars,
                       fault>>
    BY <1>5 DEF SelfJoin
  <2>2. StsTypes' /\ ExitTypes'
    BY <1>1, <2>1, ContinueTypes
  <2>3. QED
    BY <1>1, <2>1, <2>2, TypesStay DEF Types
<1>6. ASSUME NEW name \in {"PROCESS_EXIT", "THREAD_JOIN", "THREAD_CANCEL"},
             NEW tid \in 0 .. MaxTid, GiveUpRead(name, tid)
      PROVE  Types'
  <2>1. UNCHANGED <<tcbVars, procVars, ready, ioVars, killVars, exitVars>>
    BY <1>6 DEF GiveUpRead
  <2>2. StsTypes'
    BY <1>1, <1>6 DEF GiveUpRead, Types, StsTypes
  <2>3. QED
    BY <1>1, <2>1, <2>2, TypesStay DEF Types
<1>7. ASSUME ProcessExit PROVE Types'
  <2>1. 0 \in 0 .. MaxTid
    BY KernelThreadsAssumption
  <2>2. QED
    BY <1>6, <1>7, <2>1 DEF ProcessExit
<1>8. ASSUME NEW tid \in 0 .. MaxTid, WindowCall(tid) PROVE Types'
  BY <1>6, <1>8 DEF WindowCall, ThreadJoin, ThreadCancel
<1>9. QED
  BY <1>2, <1>3, <1>4, <1>5, <1>7, <1>8

LEMMA ResourceFacts ==
  ASSUME Types, NEW p \in Processes, NEW m \in Mutexes
  PROVE  /\ resource[p][m] \in Resource
         /\ resource[p][m].made \in BOOLEAN
         /\ resource[p][m].instances \in Int
         /\ resource[p][m].blocked \in Seq(Thread)
<1>1. resource[p][m] \in Resource
  BY DEF Types, ProcTypes
<1>2. QED
  BY <1>1 DEF Resource

LEMMA ResourceTyped ==
  ASSUME Types, NEW p \in Processes, NEW m \in Mutexes, NEW r \in Resource,
         resource' = [resource EXCEPT ![p][m] = r], UNCHANGED <<process, size>>
  PROVE  ProcTypes'
BY DEF Types, ProcTypes

LEMMA MutexTypes ==
  ASSUME Types, NEW m \in Mutexes, MutexCall(m)
  PROVE  Types'
<1> DEFINE p == exec[1]
           r == resource[p][m]
<1>1. exec \in Thread /\ writer = "NONE" /\ p \in Processes
  BY EvictedExec, ThreadFacts DEF MutexCall, MutexCreate, MutexLock, MutexUnlock
<1>2. /\ r \in Resource /\ r.made \in BOOLEAN /\ r.instances \in Int
      /\ r.blocked \in Seq(Thread)
  BY <1>1, ResourceFacts
<1>3. ASSUME ExitExec,
             UNCHANGED <<priority, assigned, joinedBy, procVars, ready, exec,
                         ioVars, expired, killVars, staleHandover, fault>>
      PROVE  Types'
  <2>1. TcbTypes' /\ StsTypes' /\ ExitTypes'
    BY <1>1, <1>3, ExitExecTypes
  <2>2. QED
    BY <1>1, <1>3, <2>1, TypesStay DEF Types
<1>4. ASSUME MutexCreate(m) PROVE Types'
  <2>1. CASE r.made
    BY <1>3, <1>4, <2>1 DEF MutexCreate, procVars
  <2>2. CASE ~ r.made
    <3> DEFINE new == [made |-> TRUE, instances |-> 1, blocked |-> <<>>]
    <3>1. new \in Resource
      BY DEF Resource
    <3>2. /\ resource' = [resource EXCEPT ![p][m] = new]
          /\ Continue(TRUE)
          /\ UNCHANGED <<tcbVars, process, size, ready, exec, ioVars, expired,
                         killVars, fault>>
      BY <1>4, <2>2 DEF MutexCreate, tcbVars
    <3>3. ProcTypes'
      BY <1>1, <3>1, <3>2, ResourceTyped
    <3>4. StsTypes' /\ ExitTypes'
      BY <1>1, <3>2, ContinueTypes
    <3>5. QED
      BY <1>1, <3>2, <3>3, <3>4, TypesStay DEF Types
  <2>3. QED
    BY <2>1, <2>2
<1>5. ASSUME MutexLock(m) PROVE Types'
  <2>0. UNCHANGED <<priority, joinedBy, process, size, ready, exec, ioVars, expired,
                    killVars, fault>>
    BY <1>5 DEF MutexLock
  <2>1. CASE ExitExec /\ UNCHANGED <<assigned, resource, staleHandover>>
    BY <1>3, <2>0, <2>1 DEF procVars
  <2>2. CASE /\ resource' = [resource EXCEPT ![p][m] =
                  [r EXCEPT !.instances = @ - 1, !.blocked = Append(@, exec)]]
             /\ state' = [state EXCEPT ![exec] = "BLOCKED_MUTEX"]
             /\ Continue(FALSE) /\ UNCHANGED assigned
    <3> DEFINE new == [r EXCEPT !.instances = @ - 1, !.blocked = Append(@, exec)]
    <3> HIDE DEF p, r
    <3>1. new \in Resource
      <4>1. r.instances - 1 \in Int /\ Append(r.blocked, exec) \in Seq(Thread)
        BY <1>1, <1>2
      <4>2. QED
        BY <1>2, <4>1, ResourceUpdate
    <3>2. ProcTypes'
      BY <1>1, <2>0, <2>2, <3>1, ResourceTyped
    <3>3. state' \in [Thread -> States]
      BY <1>1, <2>2 DEF Types, TcbTypes, States
    <3>4. StsTypes' /\ ExitTypes'
      BY <1>1, <2>0, <2>2, ContinueTypes
    <3>5. QED
      BY <1>1, <2>0, <2>2, <3>2, <3>3, <3>4, TypesStay DEF Types
  <2>3. CASE /\ resource' = [resource EXCEPT ![p][m].instances = @ - 1]
             /\ assigned' = [assigned EXCEPT ![exec] = @ \cup {m}]
             /\ Continue(TRUE) /\ UNCHANGED state
    <3>1. [r EXCEPT !.instances = @ - 1] \in Resource
      <4> HIDE DEF r
      <4>1. QED
        BY <1>2 DEF Resource
    <3>2. resource' = [resource EXCEPT ![p][m] = [r EXCEPT !.instances = @ - 1]]
      BY <2>3
    <3> HIDE DEF p, r
    <3>3. ProcTypes'
      BY <1>1, <2>0, <3>1, <3>2, ResourceTyped
    <3>4. TcbTypes'
      BY <1>1, <2>0, <2>3 DEF Types, TcbTypes
    <3>5. StsTypes' /\ ExitTypes'
      BY <1>1, <2>0, <2>3, ContinueTypes
    <3>6. QED
      BY <1>1, <2>0, <3>3, <3>4, <3>5, TypesStay DEF Types
  <2>4. QED
    BY <1>5, <2>1, <2>2, <2>3, Zenon DEF MutexLock
<1>6. ASSUME MutexUnlock(m) PROVE Types'
  <2> DEFINE heir == IF r.instances + 1 > 0 \/ r.blocked = <<>> THEN NoThread
                     ELSE Head(r.blocked)
             freed == [assigned EXCEPT ![exec] = @ \ {m}]
             new == [r EXCEPT !.instances = @ + 1,
                       !.blocked = IF heir = NoThread THEN @ ELSE Tail(@)]
  <2>0. UNCHANGED <<priority, joinedBy, process, size, exec, ioVars, expired,
                    killVars, fault>>
    BY <1>6 DEF MutexUnlock
  <2>1. CASE ExitExec /\ UNCHANGED <<assigned, resource, ready, staleHandover>>
    BY <1>3, <2>0, <2>1 DEF procVars
  <2>2. CASE /\ resource' = [resource EXCEPT ![p][m] = new]
             /\ IF heir = NoThread
                THEN assigned' = freed /\ UNCHANGED <<state, ready>>
                ELSE /\ assigned' = [freed EXCEPT ![heir] = @ \cup {m}]
                     /\ InsertStateReady(heir, priority[heir])
             /\ Continue(TRUE)
    <3> HIDE DEF p, r
    <3>1. heir # NoThread => heir \in Thread /\ Tail(r.blocked) \in Seq(Thread)
      BY <1>2, HeadTailProperties
    <3> HIDE DEF heir
    <3>2. new \in Resource
      <4> DEFINE b == IF heir = NoThread THEN r.blocked ELSE Tail(r.blocked)
      <4>1. r.instances + 1 \in Int /\ b \in Seq(Thread)
        BY <1>2, <3>1
      <4>2. new = [r EXCEPT !.instances = r.instances + 1, !.blocked = b]
        OBVIOUS
      <4> HIDE DEF b, new
      <4>3. QED
        BY <1>2, <4>1, <4>2, ResourceUpdate
    <3> HIDE DEF new
    <3>3. ProcTypes'
      BY <1>1, <2>0, <2>2, <3>2, ResourceTyped
    <3>4. freed \in [Thread -> SUBSET Mutexes]
      BY <1>1 DEF Types, TcbTypes
    <3> HIDE DEF freed
    <3>5. TcbTypes' /\ ReadyTypes'
      <4>1. CASE heir = NoThread
        <5>1. assigned' = freed /\ UNCHANGED <<state, ready>>
          BY <2>2, <4>1
        <5>2. QED
          BY <2>0, <3>4, <5>1, TypesStay DEF Types, TcbTypes
      <4>2. CASE heir # NoThread
        <5>1. /\ assigned' = [freed EXCEPT ![heir] = @ \cup {m}]
              /\ InsertStateReady(heir, priority[heir])
          BY <2>2, <4>2
        <5>2. heir \in Thread /\ priority[heir] \in Priority
          BY <3>1, <4>2 DEF Types, TcbTypes
        <5>3. state' \in [Thread -> States] /\ ReadyTypes'
          BY <5>1, <5>2, ReadyTyped DEF Types
        <5>4. assigned' \in [Thread -> SUBSET Mutexes]
          BY <3>4, <5>1, <5>2
        <5>5. QED
          BY <2>0, <5>3, <5>4 DEF Types, TcbTypes
      <4>3. QED
        BY <4>1, <4>2
    <3>6. StsTypes' /\ ExitTypes'
      BY <1>1, <2>0, <2>2, ContinueTypes
    <3>7. QED
      BY <1>1, <2>0, <3>3, <3>5, <3>6, TypesStay DEF Types
  <2>3. QED
    BY <1>6, <2>1, <2>2, Zenon DEF MutexUnlock
<1>7. QED
  BY <1>4, <1>5, <1>6 DEF MutexCall

LEMMA OthersTypes ==
  ASSUME Types,
         \/ \E p \in Processes, prio \in Priority : AdmitProcess(p, prio)
         \/ IoBegin \/ IoEnd \/ DumpExit
         \/ \E t \in Thread : DumpOk(t) \/ DumpFails(t)
  PROVE  Types'
<1>1. ASSUME NEW p \in Processes, NEW prio \in Priority, AdmitProcess(p, prio)
      PROVE  Types'
  <2> DEFINE t == <<p, 0>>
  <2>1. t \in Thread /\ 1 \in 0 .. MaxTid + 1
    BY KernelThreadsAssumption DEF Thread
  <2>2. /\ process' = [process EXCEPT ![p] = "ALIVE"]
        /\ size' = [size EXCEPT ![p] = 1]
        /\ priority' = [priority EXCEPT ![t] = prio]
        /\ InsertStateReady(t, prio)
        /\ UNCHANGED <<assigned, joinedBy, resource, exec, ioVars, stsVars, expired,
                       killVars, exitVars, fault>>
    BY <1>1 DEF AdmitProcess
  <2> HIDE DEF t
  <2>3. state' \in [Thread -> States] /\ ReadyTypes'
    BY <2>1, <2>2, ReadyTyped DEF Types
  <2>4. TcbTypes'
    BY <2>1, <2>2, <2>3 DEF Types, TcbTypes
  <2>5. ProcTypes'
    BY <2>1, <2>2 DEF Types, ProcTypes
  <2>6. QED
    BY <2>2, <2>3, <2>4, <2>5, TypesStay DEF Types, stsVars
<1>2. ASSUME IoBegin PROVE Types'
  <2>1. UNCHANGED <<priority, assigned, joinedBy, procVars, exec, ready, stsVars,
                    expired, killVars, exitVars, fault>>
    BY <1>2 DEF IoBegin
  <2>2. /\ semIo \in Nat /\ semIo > 0 /\ semIo' = semIo - 1
        /\ ioReady \in Seq(Thread) /\ semIo >= Len(ioReady)
        /\ device = "IDLE" => ioExec = NoThread
        /\ ioExec \in ThreadOrNull /\ device \in {"IDLE", "BUSY"}
    BY <1>2 DEF IoBegin, Types, IoTypes, IoCounted
  <2>3. CASE ioReady = <<>>
    <3>1. UNCHANGED <<state, ioReady, ioExec, device>>
      BY <1>2, <2>3 DEF IoBegin
    <3>2. IoTypes'
      BY <2>2, <2>3, <3>1 DEF IoTypes, IoCounted
    <3>3. QED
      BY <2>1, <3>1, <3>2, TypesStay DEF Types, stsVars, tcbVars
  <2>4. CASE ioReady # <<>>
    <3>1. /\ state' = [state EXCEPT ![Head(ioReady)] = "BLOCKED_IO_EXEC"]
          /\ ioExec' = Head(ioReady)
          /\ ioReady' = Tail(ioReady)
          /\ device' = "BUSY"
      BY <1>2, <2>4 DEF IoBegin
    <3>2. /\ Head(ioReady) \in Thread /\ Tail(ioReady) \in Seq(Thread)
          /\ Len(Tail(ioReady)) = Len(ioReady) - 1 /\ Len(ioReady) \in Nat
      BY <2>2, <2>4, HeadTailProperties, LenProperties
    <3>3. state' \in [Thread -> States]
      BY <3>1, <3>2 DEF Types, TcbTypes, States
    <3>4. IoTypes'
      BY <2>2, <3>1, <3>2 DEF IoTypes, IoCounted, ThreadOrNull
    <3>5. QED
      BY <2>1, <3>3, <3>4, TypesStay DEF Types, stsVars
  <2>5. QED
    BY <2>3, <2>4
<1>3. ASSUME IoEnd PROVE Types'
  <2>1. UNCHANGED <<priority, assigned, joinedBy, procVars, exec, ioReady, semIo,
                    stsVars, expired, killVars, exitVars, fault>>
    BY <1>3 DEF IoEnd
  <2>2. IoTypes'
    BY <1>3, <2>1 DEF IoEnd, Types, IoTypes, IoCounted, ThreadOrNull
  <2>3. state' \in [Thread -> States] /\ ReadyTypes'
    <3>1. CASE ioExec = NoThread
      BY <1>3, <3>1, TypesStay DEF IoEnd, Types, TcbTypes
    <3>2. CASE ioExec # NoThread
      <4>1. ioExec \in Thread /\ priority[ioExec] \in Priority
        BY <3>2 DEF Types, TcbTypes, IoTypes, ThreadOrNull
      <4>2. InsertStateReady(ioExec, priority[ioExec])
        BY <1>3, <3>2 DEF IoEnd
      <4>3. QED
        BY <4>1, <4>2, ReadyTyped DEF Types
    <3>3. QED
      BY <3>1, <3>2
  <2>4. QED
    BY <2>1, <2>2, <2>3, TypesStay DEF Types, stsVars
<1>4. ASSUME DumpExit PROVE Types'
  <2>1. /\ killSelf \in Thread /\ InsertStateExit(killSelf)
        /\ UNCHANGED <<priority, assigned, joinedBy, procVars, ready, exec, ioVars,
                       stsVars, expired, killVars, staleHandover, fault>>
    BY <1>4 DEF DumpExit, Types, KillTypes
  <2>2. /\ state' \in [Thread -> States]
        /\ exiting' \in ThreadOrNull /\ left' \in SUBSET Mutexes
        /\ unblock' \in ThreadOrNull
    BY <2>1, ExitTyped DEF Types
  <2>3. ExitTypes'
    BY <2>1, <2>2 DEF Types, ExitTypes
  <2>4. QED
    BY <2>1, <2>2, <2>3, TypesStay DEF Types, stsVars
<1>5. ASSUME NEW t \in Thread, DumpOk(t) PROVE Types'
  <2>1. /\ InsertStateReady(t, priority[t])
        /\ UNCHANGED <<priority, assigned, joinedBy, procVars, exec, ioVars, stsVars,
                       expired, killVars, exitVars, fault>>
    BY <1>5 DEF DumpOk
  <2>2. priority[t] \in Priority
    BY DEF Types, TcbTypes
  <2>3. state' \in [Thread -> States] /\ ReadyTypes'
    BY <2>1, <2>2, ReadyTyped DEF Types
  <2>4. QED
    BY <2>1, <2>3, TypesStay DEF Types, stsVars
<1>6. ASSUME NEW t \in Thread, DumpFails(t) PROVE Types'
  <2>1. t[1] \in Processes /\ 0 \in 0 .. MaxTid + 1
    BY ThreadFacts, KernelThreadsAssumption
  <2>2. size[t[1]] \in 0 .. MaxTid + 1
    BY <2>1 DEF Types, ProcTypes
  <2>3. KillTypes'
    BY <1>6, <2>1, <2>2 DEF DumpFails, KillTypes, ThreadOrNull
  <2>4. UNCHANGED <<tcbVars, procVars, ready, exec, ioVars, stsVars, expired,
                    exitVars, fault>>
    BY <1>6 DEF DumpFails
  <2>5. QED
    BY <2>3, <2>4, TypesStay DEF Types
<1>7. QED
  BY <1>1, <1>2, <1>3, <1>4, <1>5, <1>6

LEMMA NextTypes == Types /\ [Next]_vars => Types'
<1>1. ASSUME Types, Next PROVE Types'
  BY <1>1, ExitStepTypes, KillStepTypes, SchedulerTypes, EvictionTypes, CallTypes,
    MutexTypes, OthersTypes DEF Next
<1>2. ASSUME Types, UNCHANGED vars PROVE Types'
  BY <1>2, TypesStay DEF Types, vars, stsVars
<1>3. QED
  BY <1>1, <1>2

LEMMA InitTypes == Init => Types
<1> SUFFICES ASSUME Init PROVE Types
  OBVIOUS
<1>1. TcbTypes
  BY KernelThreadsAssumption DEF Init, TcbTypes, States, Priority
<1>2. ProcTypes
  BY KernelThreadsAssumption DEF Init, ProcTypes, NoResource, Resource
<1>3. ReadyTypes /\ IoTypes
  BY DEF Init, ReadyTypes, IoTypes, IoCounted, ThreadOrNull
<1>4. StsTypes /\ KillTypes /\ ExitTypes
  <2>1. 0 \in 0 .. MaxTid /\ 0 \in 0 .. MaxTid + 1
    BY KernelThreadsAssumption
  <2>2. StsTypes
    BY <2>1 DEF Init, StsTypes, ThreadOrNull
  <2>3. KillTypes
    BY <2>1 DEF Init, KillTypes, ThreadOrNull
  <2>4. ExitTypes
    BY DEF Init, ExitTypes, ThreadOrNull
  <2>5. QED
    BY <2>2, <2>3, <2>4
<1>5. QED
  BY <1>1, <1>2, <1>3, <1>4 DEF Types

-----------------------------------------------------------------------------
(* The invariant                                                           *)

In(s) == {t \in Thread : state[t] = s}

HomeReady == Houses(ready, In("READY"))
Queued ==
  \A q \in Priority : \A i \in DOMAIN ready[q] :
    ReadyQueue(priority[ready[q][i]]) = q
HomeJoin == Houses(joinedBy, In("BLOCKED_JOIN"))
\* The lists of all mutexes of all processes
Waits == [x \in Processes \X Mutexes |-> resource[x[1]][x[2]].blocked]
HomeMutex == Houses(Waits, In("BLOCKED_MUTEX"))
HomeIo == Houses(<<ioReady>>, In("BLOCKED_IO_READY"))
\* The states that only one thread can be in
Singles ==
  \A t \in Thread : /\ state[t] = "BLOCKED_IO_EXEC" <=> t = ioExec
                    /\ state[t] = "EXIT" <=> t = exiting
                    /\ state[t] = "EXEC" => t = exec
Homes == HomeReady /\ Queued /\ HomeJoin /\ HomeMutex /\ HomeIo /\ Singles

Joins ==
  \A t \in Thread :
    /\ \A i \in DOMAIN joinedBy[t] : joinedBy[t][i][1] = t[1] /\ joinedBy[t][i] # t
    /\ state[t] = "NULL" => joinedBy[t] = <<>>

\* The mutexes of a thread; an exiting one has given some back
Held(t) == IF t = exiting THEN left ELSE assigned[t]

\* A mutex has one holder and -instances waiters, or is free
Lock(p, m) ==
  LET r == resource[p][m] IN
  /\ \A i \in DOMAIN r.blocked : r.blocked[i][1] = p
  /\ (\A t \in Thread : t[1] = p => m \notin Held(t))
       => r.blocked = <<>> /\ (r.made => r.instances = 1)
  /\ \A t \in Thread : t[1] = p /\ m \in Held(t)
       => /\ r.made /\ r.instances = - Len(r.blocked)
          /\ \A u \in Thread : u[1] = p /\ m \in Held(u) => u = t
Bare == \A t \in Thread : state[t] = "NULL" => assigned[t] = {}
Locks == Bare /\ \A p \in Processes, m \in Mutexes : Lock(p, m)

Populated ==
  \A p \in Processes :
    process[p] = "ALIVE" <=> \E t \in Thread : t[1] = p /\ Exists(t)
Numbered ==
  /\ \A t \in Thread : t[2] >= size[t[1]] => state[t] = "NULL"
  /\ \A p \in Processes : process[p] = "NONE" => size[p] = 0
  /\ exec # NoThread => exec[2] < size[exec[1]]
Unmade ==
  \A p \in Processes :
    process[p] # "ALIVE" => \A m \in Mutexes : ~resource[p][m].made
Procs == Populated /\ Numbered /\ Unmade

\* What the scheduler's place tells of TCB_EXEC
Running ==
  /\ sts \in {"CPU", "UPGRADE", "LOCKED"} => state[exec] = "EXEC"
  /\ sts \in {"DOWNGRADE", "AFTER"} => (redispatch <=> state[exec] = "EXEC")
  /\ sts \in {"IDLE", "EXITING"} => \A t \in Thread : state[t] # "EXEC"
  /\ sts = "EXITING" => exec = exiting /\ ~redispatch
\* Who exits and who kills
Writing ==
  /\ exiting # NoThread => sts = "EXITING" \/ writer # "NONE"
  /\ writer = "STS" <=> sts = "LOCKED"
  /\ writer = "STS" => killSelf = exec
  /\ writer = "DUMP" => /\ sts \in {"IDLE", "CPU", "UPGRADE", "DOWNGRADE"}
                        /\ state[killSelf] = "BLOCKED_DUMP" \/ exiting = killSelf
\* The call that gave the read lock up
Calling ==
  /\ call # "NONE" <=> sts \in {"UPGRADE", "LOCKED", "DOWNGRADE"}
  /\ call = "THREAD_JOIN" => sts # "LOCKED" /\ (sts = "UPGRADE" => target # exec[2])
  /\ sts = "LOCKED" => redispatch
  /\ sts = "DOWNGRADE" /\ call # "THREAD_JOIN" => redispatch
\* A KILL is on its way only while KILL_EXEC_TCB is set
Kills ==
  killSent =>
    /\ killExec /\ exec # NoThread
    /\ sts \in {"UPGRADE", "LOCKED", "DOWNGRADE"} => call = "PROCESS_EXIT"
    /\ sts \in {"IDLE", "AFTER"} => state[exec] = "NULL"
Control == Running /\ Writing /\ Calling /\ Kills

Sound == Homes /\ Joins /\ Locks /\ Procs /\ Control

\* Once a mutex was handed over by a stale pointer only the types are left.
IInv == Types /\ (~staleHandover => Sound)

-----------------------------------------------------------------------------
(* Steps that leave a part of the invariant alone                          *)

Moves(t, s) == state' = [state EXCEPT ![t] = s]
Sets(p, m, r) == resource' = [resource EXCEPT ![p][m] = r]
SameThreads == \A u \in Thread : state'[u] = "NULL" <=> state[u] = "NULL"
SameHeld == \A u \in Thread : Held(u)' = Held(u)
SameMade ==
  \A p \in Processes, m \in Mutexes : resource'[p][m].made = resource[p][m].made

LEMMA MoveFacts ==
  ASSUME Types, NEW t \in Thread, NEW b, Moves(t, b)
  PROVE  /\ state'[t] = b
         /\ \A u \in Thread : u # t => state'[u] = state[u]
         /\ state[t] # "NULL" /\ b # "NULL" => SameThreads
BY DEF Types, TcbTypes, Moves, SameThreads

LEMMA InMoves ==
  ASSUME Types, NEW t \in Thread, NEW b, Moves(t, b), NEW s
  PROVE  /\ s = b => In(s)' = In(s) \cup {t}
         /\ s # b => In(s)' = In(s) \ {t}
         /\ s # b /\ s # state[t] => In(s)' = In(s)
         /\ t \in In(s) <=> state[t] = s
<1>1. state'[t] = b /\ \A u \in Thread : u # t => state'[u] = state[u]
  BY MoveFacts
<1>2. QED
  BY <1>1 DEF In

LEMMA HomesStay ==
  ASSUME Types, NEW t \in Thread, NEW b, Moves(t, b)
  PROVE  /\ HomeReady /\ UNCHANGED ready /\ "READY" \notin {state[t], b}
              => HomeReady'
         /\ HomeJoin /\ UNCHANGED joinedBy /\ "BLOCKED_JOIN" \notin {state[t], b}
              => HomeJoin'
         /\ HomeMutex /\ Waits' = Waits /\ "BLOCKED_MUTEX" \notin {state[t], b}
              => HomeMutex'
         /\ HomeIo /\ UNCHANGED ioReady /\ "BLOCKED_IO_READY" \notin {state[t], b}
              => HomeIo'
<1>1. \A s \in States : s # b /\ s # state[t] => In(s)' = In(s)
  BY InMoves
<1>2. QED
  BY <1>1, Zenon DEF HomeReady, HomeJoin, HomeMutex, HomeIo, States

LEMMA WaitsFacts ==
  ASSUME Types
  PROVE  /\ Waits \in [Processes \X Mutexes -> Seq(Thread)]
         /\ \A p \in Processes, m \in Mutexes :
              /\ <<p, m>> \in Processes \X Mutexes
              /\ Waits[<<p, m>>] = resource[p][m].blocked
BY ResourceFacts DEF Waits

LEMMA WaitsStay ==
  ASSUME Types,
         \A p \in Processes, m \in Mutexes :
           resource'[p][m].blocked = resource[p][m].blocked
  PROVE  Waits' = Waits
BY DEF Waits

LEMMA SetsOne ==
  ASSUME Types, NEW p \in Processes, NEW m \in Mutexes, NEW r, Sets(p, m, r)
  PROVE  /\ resource'[p][m] = r
         /\ \A q \in Processes, n \in Mutexes :
              q # p \/ n # m => resource'[q][n] = resource[q][n]
BY DEF Types, ProcTypes, Sets

LEMMA WaitsUpdate ==
  ASSUME Types, NEW p \in Processes, NEW m \in Mutexes, NEW r, Sets(p, m, r)
  PROVE  /\ resource'[p][m] = r
         /\ \A q \in Processes, n \in Mutexes :
              q # p \/ n # m => resource'[q][n] = resource[q][n]
         /\ Waits' = [Waits EXCEPT ![<<p, m>>] = r.blocked]
<1>1. /\ resource'[p][m] = r
      /\ \A q \in Processes, n \in Mutexes :
           q # p \/ n # m => resource'[q][n] = resource[q][n]
  BY SetsOne
<1>2. Waits' = [x \in Processes \X Mutexes |-> resource'[x[1]][x[2]].blocked]
  BY DEF Waits
<1>3. Waits' = [Waits EXCEPT ![<<p, m>>] = r.blocked]
  <2> DEFINE new == [x \in Processes \X Mutexes |-> resource'[x[1]][x[2]].blocked]
             upd == [x \in Processes \X Mutexes |->
                       IF x = <<p, m>> THEN r.blocked ELSE Waits[x]]
  <2>1. ASSUME NEW x \in Processes \X Mutexes
        PROVE  resource'[x[1]][x[2]].blocked
                 = IF x = <<p, m>> THEN r.blocked ELSE Waits[x]
    <3>1. /\ x[1] \in Processes /\ x[2] \in Mutexes
          /\ x = <<p, m>> <=> (x[1] = p /\ x[2] = m)
      OBVIOUS
    <3>2. Waits[x] = resource[x[1]][x[2]].blocked
      BY DEF Waits
    <3>3. QED
      BY <1>1, <3>1, <3>2
  <2>2. new = upd
    BY <2>1
  <2>3. upd = [Waits EXCEPT ![<<p, m>>] = r.blocked]
    BY DEF Waits
  <2>4. QED
    BY <1>2, <2>2, <2>3, Zenon
<1>4. QED
  BY <1>1, <1>3

LEMMA JoinsStay == Joins /\ SameThreads /\ UNCHANGED joinedBy => Joins'
BY DEF Joins, SameThreads

LEMMA LockStays ==
  ASSUME NEW p \in Processes, NEW m \in Mutexes, Lock(p, m),
         resource'[p][m] = resource[p][m],
         \A u \in Thread : u[1] = p => (m \in Held(u)' <=> m \in Held(u))
  PROVE  Lock(p, m)'
BY Zenon DEF Lock

LEMMA LocksStay ==
  ASSUME Locks, SameThreads, SameHeld, UNCHANGED <<assigned, resource>>
  PROVE  Locks'
<1>1. Bare'
  BY DEF Locks, Bare, SameThreads
<1>2. ASSUME NEW p \in Processes, NEW m \in Mutexes PROVE Lock(p, m)'
  BY LockStays DEF Locks, SameHeld
<1>3. QED
  BY <1>1, <1>2, Zenon DEF Locks

LEMMA HeldStays ==
  ASSUME UNCHANGED <<assigned, exiting, left>>
  PROVE  SameHeld
BY DEF SameHeld, Held

LEMMA ProcsStay ==
  ASSUME Types, Procs, SameThreads, SameMade, UNCHANGED <<process, size>>,
         exec' = exec \/ (exec' \in Thread /\ state[exec'] # "NULL")
  PROVE  Procs'
<1>1. Populated'
  BY DEF Procs, Populated, SameThreads, Exists
<1>2. Numbered'
  <2>1. /\ \A t \in Thread : t[2] >= size'[t[1]] => state'[t] = "NULL"
        /\ \A p \in Processes : process'[p] = "NONE" => size'[p] = 0
    BY DEF Procs, Numbered, SameThreads
  <2>2. ASSUME exec' # NoThread PROVE exec'[2] < size'[exec'[1]]
    <3>1. CASE exec' = exec
      BY <2>2, <3>1 DEF Procs, Numbered
    <3>2. CASE exec' \in Thread /\ state[exec'] # "NULL"
      <4>1. exec'[2] \in 0 .. MaxTid /\ size[exec'[1]] \in 0 .. MaxTid + 1
        BY <3>2, ThreadFacts DEF Types, ProcTypes
      <4>2. ~ (exec'[2] >= size[exec'[1]])
        BY <3>2 DEF Procs, Numbered
      <4>3. QED
        BY <4>1, <4>2
    <3>3. QED
      BY <3>1, <3>2
  <2>3. QED
    BY <2>1, <2>2, Zenon DEF Numbered
<1>3. Unmade'
  BY DEF Procs, Unmade, SameMade
<1>4. QED
  BY <1>1, <1>2, <1>3 DEF Procs

\* What the control of the scheduler asks of the states
LEMMA ControlStays ==
  ASSUME Types, Control,
         UNCHANGED <<sts, call, target, redispatch, killExec, killSent, exec,
                     writer, killSelf, exiting>>,
         \A u \in Thread : /\ state'[u] = "EXEC" <=> state[u] = "EXEC"
                           /\ state[u] = "NULL" => state'[u] = "NULL"
                           /\ writer = "DUMP" /\ state[u] = "BLOCKED_DUMP"
                                => state'[u] = "BLOCKED_DUMP"
  PROVE  Control'
<1>1. sts # "IDLE" => exec \in Thread
  BY DEF Types, StsTypes
<1>2. writer # "NONE" => killSelf \in Thread
  BY DEF Types, KillTypes
<1>3. Running'
  BY <1>1 DEF Control, Running
<1>4. Writing'
  BY <1>2 DEF Control, Writing
<1>5. Calling'
  BY DEF Control, Calling
<1>6. Kills'
  <2>1. exec # NoThread => exec \in Thread
    BY DEF Types, StsTypes, ThreadOrNull
  <2>2. QED
    BY <2>1 DEF Control, Kills
<1>7. QED
  BY <1>3, <1>4, <1>5, <1>6 DEF Control

LEMMA ReadyEnters ==
  ASSUME Types, HomeReady, Queued, NEW t \in Thread, NEW prio \in Priority,
         InsertStateReady(t, prio), state[t] # "READY", priority'[t] = prio,
         \A u \in Thread : u # t => priority'[u] = priority[u]
  PROVE  HomeReady' /\ Queued' /\ Moves(t, "READY")
<1> DEFINE q == ReadyQueue(prio)
<1>1. q \in Priority /\ ready \in [Priority -> Seq(Thread)]
  BY QueueOf DEF Types, ReadyTypes
<1>2. Moves(t, "READY") /\ ready' = [ready EXCEPT ![q] = Append(@, t)]
  BY DEF Moves, InsertStateReady
<1>3. In("READY")' = In("READY") \cup {t} /\ t \notin In("READY")
  BY <1>2, InMoves DEF In
<1> HIDE DEF q
<1>4. HomeReady'
  <2>1. Houses([ready EXCEPT ![q] = Append(@, t)], In("READY") \cup {t})
    BY <1>1, <1>3, HousesAppend, Zenon DEF HomeReady
  <2>2. QED
    BY <1>2, <1>3, <2>1, Zenon DEF HomeReady
<1>5. Queued'
  <2> SUFFICES ASSUME NEW k \in Priority, NEW i \in DOMAIN ready'[k]
               PROVE  ReadyQueue(priority'[ready'[k][i]]) = k
    BY Zenon DEF Queued
  <2>1. ready[k] \in Seq(Thread) /\ ready[q] \in Seq(Thread)
    BY <1>1
  <2>2. ASSUME i \in DOMAIN ready[k], ready'[k][i] = ready[k][i]
        PROVE  ReadyQueue(priority'[ready'[k][i]]) = k
    <3>1. ready[k][i] \in In("READY")
      BY <1>1, <2>2 DEF HomeReady, Houses, Within
    <3>2. ready[k][i] # t /\ ready[k][i] \in Thread
      BY <1>3, <3>1 DEF In
    <3>3. QED
      BY <2>2, <3>2, Zenon DEF Queued
  <2>3. CASE k # q
    BY <1>1, <1>2, <2>2, <2>3
  <2>4. CASE k = q
    <3>1. ready'[k] = Append(ready[k], t)
      BY <1>1, <1>2, <2>4
    <3>2. /\ DOMAIN ready'[k] = 1 .. Len(ready[k]) + 1
          /\ DOMAIN ready[k] = 1 .. Len(ready[k]) /\ Len(ready[k]) \in Nat
          /\ \A j \in 1 .. Len(ready[k]) : ready'[k][j] = ready[k][j]
          /\ ready'[k][Len(ready[k]) + 1] = t
      BY <2>1, <3>1
    <3>3. CASE i \in 1 .. Len(ready[k])
      BY <2>2, <3>2, <3>3
    <3>4. CASE i = Len(ready[k]) + 1
      BY <2>4, <3>2, <3>4 DEF q
    <3>5. QED
      BY <3>2, <3>3, <3>4
  <2>5. QED
    BY <2>3, <2>4
<1>6. QED
  BY <1>2, <1>4, <1>5

\* The usual case: the thread keeps its priority.
LEMMA ReadyReturns ==
  ASSUME Types, HomeReady, Queued, NEW t \in Thread,
         InsertStateReady(t, priority[t]), state[t] # "READY", UNCHANGED priority
  PROVE  HomeReady' /\ Queued' /\ Moves(t, "READY")
<1>1. priority[t] \in Priority
  BY DEF Types, TcbTypes
<1>2. QED
  BY <1>1, ReadyEnters, Zenon

LEMMA QueuedStays == Queued /\ UNCHANGED <<ready, priority>> => Queued'
BY DEF Queued

\* A list alone is a family of one.
LEMMA ListAlone ==
  ASSUME NEW T, NEW s \in Seq(T)
  PROVE  /\ <<s>> \in [1 .. 1 -> Seq(T)] /\ 1 \in 1 .. 1
         /\ <<s>>[1] = s /\ DOMAIN <<s>> = 1 .. 1
         /\ \A r : [<<s>> EXCEPT ![1] = r] = <<r>>
OBVIOUS

\* Steps of the scheduler and of kills that move no thread
LEMMA QuietStep ==
  ASSUME Types, Homes, Joins, Locks, Procs,
         UNCHANGED <<tcbVars, procVars, ready, ioReady, ioExec, exec, exiting, left>>
  PROVE  Homes' /\ Joins' /\ Locks' /\ Procs'
<1>1. /\ UNCHANGED <<state, priority, assigned, joinedBy>>
      /\ UNCHANGED <<process, size, resource>>
      /\ UNCHANGED <<ready, ioReady, ioExec, exec, exiting, left>>
  BY DEF tcbVars, procVars
<1>2. SameThreads /\ SameHeld /\ SameMade
  BY <1>1, HeldStays DEF SameThreads, SameMade
<1>3. Homes'
  <2>1. Waits' = Waits
    BY <1>1, WaitsStay
  <2>2. \A s : In(s)' = In(s)
    BY <1>1 DEF In
  <2>3. HomeReady' /\ HomeJoin' /\ HomeMutex' /\ HomeIo'
    BY <1>1, <2>1, <2>2, Zenon DEF Homes, HomeReady, HomeJoin, HomeMutex, HomeIo
  <2>4. Queued' /\ Singles'
    BY <1>1, QueuedStays DEF Homes, Singles
  <2>5. QED
    BY <2>3, <2>4, Zenon DEF Homes
<1>4. Joins' /\ Locks' /\ Procs'
  BY <1>1, <1>2, JoinsStay, LocksStay, ProcsStay, Zenon
<1>5. QED
  BY <1>3, <1>4, Zenon

-----------------------------------------------------------------------------
(* Steps of killers                                                        *)

LEMMA KillerFacts ==
  ASSUME Types, Killing
  PROVE  /\ killSelf \in Thread /\ Victim \in Thread /\ Victim[1] = killSelf[1]
         /\ killNext \in 0 .. MaxTid
<1>1. /\ killSelf \in Thread /\ killNext \in 0 .. MaxTid + 1
      /\ killLast \in 0 .. MaxTid + 1 /\ killNext < killLast
  BY DEF Killing, Types, KillTypes
<1>2. killNext \in 0 .. MaxTid
  BY <1>1, KernelThreadsAssumption
<1>3. QED
  BY <1>1, <1>2, ThreadFacts DEF Victim

LEMMA KillQuietStep ==
  ASSUME Types, Sound, KillNone \/ KillExec \/ KillReady
  PROVE  Sound'
<1>1. /\ UNCHANGED <<tcbVars, procVars, ready, ioVars, exitVars>>
      /\ UNCHANGED <<exec, sts, call, target, redispatch, writer, killSelf>>
  BY DEF KillNone, KillExec, KillReady, stsVars, killVars
<1>2. Homes' /\ Joins' /\ Locks' /\ Procs'
  BY <1>1, QuietStep DEF Sound, ioVars, exitVars
<1>3. UNCHANGED <<state, exiting>>
  BY <1>1 DEF tcbVars, exitVars
<1>4. Running' /\ Writing' /\ Calling'
  BY <1>1, <1>3 DEF Sound, Control, Running, Writing, Calling
<1>5. Kills'
  <2>1. CASE KillExec
    <3>1. state[Victim] = "EXEC" /\ Victim \in Thread
      BY <2>1, KillerFacts DEF KillExec
    <3>2. exec = Victim /\ exec # NoThread
      BY <3>1, ThreadFacts DEF Sound, Homes, Singles
    <3>3. killExec' = TRUE /\ killSent' = (killSent \/ sts = "CPU")
      BY <2>1 DEF KillExec
    <3>4. QED
      BY <1>1, <1>3, <3>2, <3>3 DEF Sound, Control, Kills
  <2>2. CASE KillNone \/ KillReady
    <3>1. UNCHANGED <<killExec, killSent>>
      BY <2>2 DEF KillNone, KillReady, stsVars
    <3>2. QED
      BY <1>1, <1>3, <3>1 DEF Sound, Control, Kills
  <2>3. QED
    BY <2>1, <2>2
<1>6. QED
  BY <1>2, <1>4, <1>5 DEF Sound, Control

\* Nobody is exiting: what an exit does to the mutexes and to the others.
LEMMA ExitBegins ==
  ASSUME Types, NEW t \in Thread, exiting = NoThread, InsertStateExit(t),
         UNCHANGED assigned
  PROVE  SameHeld /\ Moves(t, "EXIT") /\ exiting' = t
<1>1. state' = [state EXCEPT ![t] = "EXIT"] /\ exiting' = t /\ left' = assigned[t]
  BY DEF InsertStateExit
<1>2. \A u \in Thread : Held(u) = assigned[u]
  BY ThreadFacts DEF Held
<1>3. \A u \in Thread : Held(u)' = assigned[u]
  BY <1>1 DEF Held
<1>4. QED
  BY <1>1, <1>2, <1>3 DEF SameHeld, Moves

\* A waiter that is killed gives its place in the list of a mutex back.
LEMMA DropLock ==
  ASSUME Types, NEW p \in Processes, NEW m \in Mutexes, Lock(p, m), NEW t \in Thread,
         t \in Range(resource[p][m].blocked),
         resource'[p][m] = DropWaiter(resource[p][m], t), SameHeld
  PROVE  Lock(p, m)'
<1> DEFINE r == resource[p][m]
           s == RemoveFirst(r.blocked, t)
<1>1. r \in Resource /\ r.instances \in Int /\ r.blocked \in Seq(Thread)
  BY ResourceFacts
<1> HIDE DEF r
<1>2. PICK i \in 1 .. Len(r.blocked) : r.blocked[i] = t
  BY <1>1 DEF r, Range
<1>3. PICK k \in 1 .. Len(r.blocked) : s = RemoveAt(r.blocked, k)
  BY <1>1, <1>2, RemoveFirstAt, Zenon
<1>4. /\ s \in Seq(Thread) /\ Len(s) = Len(r.blocked) - 1
      /\ Len(r.blocked) \in Nat \ {0} /\ DOMAIN s = 1 .. Len(s)
      /\ DOMAIN r.blocked = 1 .. Len(r.blocked)
      /\ \A j \in 1 .. Len(r.blocked) - 1 :
           s[j] = IF j < k THEN r.blocked[j] ELSE r.blocked[j + 1]
  <2>1. /\ s \in Seq(Thread) /\ Len(s) = Len(r.blocked) - 1
        /\ \A j \in 1 .. Len(r.blocked) - 1 :
             s[j] = IF j < k THEN r.blocked[j] ELSE r.blocked[j + 1]
    <3> HIDE DEF s
    <3>1. QED
      BY <1>1, <1>3, RemoveAtFacts
  <2>2. Len(r.blocked) \in Nat \ {0}
    BY <1>1, <1>2
  <2>3. DOMAIN s = 1 .. Len(s) /\ DOMAIN r.blocked = 1 .. Len(r.blocked)
    BY <1>1, <2>1, LenProperties
  <2>4. QED
    BY <2>1, <2>2, <2>3
<1>5. /\ resource'[p][m].made = r.made
      /\ resource'[p][m].instances = r.instances + 1
      /\ resource'[p][m].blocked = s
  <2>1. resource'[p][m] = [r EXCEPT !.instances = r.instances + 1, !.blocked = s]
    BY DEF DropWaiter, ListRemove, r
  <2>2. r.instances + 1 \in Int
    BY <1>1
  <2> HIDE DEF s
  <2>3. s \in Seq(Thread)
    BY <1>4
  <2>4. LET new == [r EXCEPT !.instances = r.instances + 1, !.blocked = s] IN
        /\ new.made = r.made /\ new.instances = r.instances + 1 /\ new.blocked = s
    BY <1>1, <2>2, <2>3 DEF Resource
  <2>5. QED
    BY <2>1, <2>4, Zenon
<1> HIDE DEF s
<1>6. /\ \A j \in DOMAIN r.blocked : r.blocked[j][1] = p
      /\ (\A u \in Thread : u[1] = p => m \notin Held(u)) => r.blocked = <<>>
      /\ \A u \in Thread : u[1] = p /\ m \in Held(u)
           => /\ r.made /\ r.instances = - Len(r.blocked)
              /\ \A v \in Thread : v[1] = p /\ m \in Held(v) => v = u
  BY DEF Lock, r
<1>7. \A j \in DOMAIN s : s[j][1] = p
  <2> SUFFICES ASSUME NEW j \in 1 .. Len(r.blocked) - 1 PROVE s[j][1] = p
    BY <1>4
  <2>1. j \in DOMAIN r.blocked /\ j + 1 \in DOMAIN r.blocked
    BY <1>4
  <2>2. QED
    BY <1>4, <1>6, <2>1
<1>8. \E u \in Thread : u[1] = p /\ m \in Held(u)
  BY <1>4, <1>6
<1>9. r.instances = - Len(r.blocked) => r.instances + 1 = - Len(s)
  BY <1>1, <1>4
<1>10. QED
  BY <1>5, <1>6, <1>7, <1>8, <1>9, Zenon DEF Lock, SameHeld

LEMMA KillBlockedStep ==
  ASSUME Types, Sound, KillBlocked
  PROVE  Sound'
<1> DEFINE t == Victim
           p == t[1]
           waits(m) == t \in Range(resource[p][m].blocked)
           locks == [m \in Mutexes |->
                      IF waits(m) THEN DropWaiter(resource[p][m], t)
                      ELSE resource[p][m]]
<1>1. /\ t \in Thread /\ p \in Processes /\ killSelf \in Thread /\ t # killSelf
      /\ state[t] \in BlockedStates /\ writer # "NONE" /\ exiting = NoThread
      /\ InsertStateExit(t)
      /\ UNCHANGED <<priority, assigned, process, size, ready, exec>>
      /\ UNCHANGED <<sts, call, target, redispatch, killExec, killSent>>
      /\ UNCHANGED <<writer, killSelf>>
  BY KillerFacts, ThreadFacts DEF KillBlocked, Killing, Removable, stsVars
<1>2. /\ joinedBy' = IF state[t] = "BLOCKED_JOIN"
                     THEN [u \in Thread |-> RemoveFirst(joinedBy[u], t)]
                     ELSE joinedBy
      /\ resource' = IF state[t] = "BLOCKED_MUTEX"
                     THEN [resource EXCEPT ![p] = locks]
                     ELSE resource
      /\ ioReady' = IF state[t] = "BLOCKED_IO_READY" THEN RemoveFirst(ioReady, t)
                    ELSE ioReady
      /\ ioExec' = IF state[t] = "BLOCKED_IO_EXEC" THEN NoThread ELSE ioExec
  BY DEF KillBlocked, ListRemove
<1> HIDE DEF t, p, locks
<1>3. SameHeld /\ Moves(t, "EXIT") /\ exiting' = t
  BY <1>1, ExitBegins
<1>4. /\ state'[t] = "EXIT" /\ SameThreads
      /\ \A u \in Thread : u # t => state'[u] = state[u]
  BY <1>1, <1>3, MoveFacts DEF BlockedStates
<1>5. \A s : s # "EXIT" => In(s)' = In(s) \ {t}
  BY <1>4 DEF In
<1>6. HomeReady' /\ Queued'
  <2>1. "READY" \notin {state[t], "EXIT"}
    BY <1>1 DEF BlockedStates
  <2>2. QED
    BY <1>1, <1>3, <2>1, HomesStay, QueuedStays DEF Sound, Homes
<1>7. HomeJoin'
  <2>1. CASE state[t] = "BLOCKED_JOIN"
    <3>1. joinedBy \in [Thread -> Seq(Thread)]
      BY DEF Types, TcbTypes
    <3>2. /\ DOMAIN joinedBy' = Thread
          /\ \A u \in Thread : joinedBy'[u] = RemoveFirst(joinedBy[u], t)
      BY <1>2, <2>1
    <3>3. Houses(joinedBy', In("BLOCKED_JOIN") \ {t})
      BY <3>1, <3>2, HousesRemove, Zenon DEF Sound, Homes, HomeJoin
    <3>4. QED
      BY <1>5, <3>3, Zenon DEF HomeJoin
  <2>2. CASE state[t] # "BLOCKED_JOIN"
    BY <1>1, <1>2, <1>3, <2>2, HomesStay DEF Sound, Homes
  <2>3. QED
    BY <2>1, <2>2
<1>8. /\ \A q \in Processes, m \in Mutexes :
           \/ resource'[q][m] = resource[q][m]
           \/ /\ q = p /\ t \in Range(resource[q][m].blocked)
              /\ resource'[q][m] = DropWaiter(resource[q][m], t)
      /\ state[t] = "BLOCKED_MUTEX" =>
           \A q \in Processes, m \in Mutexes :
             resource'[q][m].blocked = RemoveFirst(resource[q][m].blocked, t)
  <2>1. resource \in [Processes -> [Mutexes -> Resource]]
    BY DEF Types, ProcTypes
  <2>2. CASE state[t] # "BLOCKED_MUTEX"
    BY <1>2, <2>2, Zenon
  <2>3. CASE state[t] = "BLOCKED_MUTEX"
    <3>1. \A q \in Processes : resource'[q] = IF q = p THEN locks ELSE resource[q]
      BY <1>2, <2>1, <2>3
    <3>2. \A m \in Mutexes :
            locks[m] = IF waits(m) THEN DropWaiter(resource[p][m], t)
                       ELSE resource[p][m]
      BY DEF locks
    <3>3. ASSUME NEW q \in Processes, NEW m \in Mutexes
          PROVE  /\ \/ resource'[q][m] = resource[q][m]
                    \/ /\ q = p /\ t \in Range(resource[q][m].blocked)
                       /\ resource'[q][m] = DropWaiter(resource[q][m], t)
                 /\ resource'[q][m].blocked = RemoveFirst(resource[q][m].blocked, t)
      <4> DEFINE b == resource[q][m].blocked
      <4>1. resource[q][m] \in Resource /\ b \in Seq(Thread) /\ Lock(q, m)
        BY ResourceFacts DEF Sound, Locks
      <4>2. ASSUME t \notin Range(b) PROVE RemoveFirst(b, t) = b
        <5>1. \A i \in 1 .. Len(b) : b[i] # t
          BY <4>1, <4>2 DEF Range
        <5> HIDE DEF b
        <5>2. QED
          BY <4>1, <5>1, RemoveFirstFacts, Zenon
      <4>3. CASE q = p /\ waits(m)
        <5>1. resource'[q][m] = DropWaiter(resource[q][m], t)
          BY <3>1, <3>2, <4>3, Zenon
        <5>2. DropWaiter(resource[q][m], t).blocked = RemoveFirst(b, t)
          BY <4>1 DEF DropWaiter, ListRemove, Resource
        <5>3. QED
          BY <4>3, <5>1, <5>2, Zenon
      <4>4. CASE q = p /\ ~ waits(m)
        <5>1. resource'[q][m] = resource[q][m]
          BY <3>1, <3>2, <4>4, Zenon
        <5>2. QED
          BY <4>2, <4>4, <5>1, Zenon
      <4>5. CASE q # p
        <5>1. resource'[q][m] = resource[q][m]
          BY <3>1, <4>5, Zenon
        <5>2. t \notin Range(b)
          BY <4>1, <4>5 DEF Lock, Range, p
        <5>3. QED
          BY <4>2, <5>1, <5>2, Zenon
      <4>6. QED
        BY <4>3, <4>4, <4>5
    <3>4. QED
      BY <3>3, Zenon
  <2>4. QED
    BY <2>2, <2>3
<1>9. HomeMutex'
  <2>1. CASE state[t] = "BLOCKED_MUTEX"
    <3>1. Waits \in [Processes \X Mutexes -> Seq(Thread)]
      BY WaitsFacts
    <3>2. /\ DOMAIN Waits' = Processes \X Mutexes
          /\ \A x \in Processes \X Mutexes : Waits'[x] = RemoveFirst(Waits[x], t)
      BY <1>8, <2>1 DEF Waits
    <3>3. Houses(Waits', In("BLOCKED_MUTEX") \ {t})
      <4> DEFINE L == Waits
                 M == Waits'
                 K == Processes \X Mutexes
                 S == In("BLOCKED_MUTEX")
      <4>1. /\ Houses(L, S) /\ L \in [K -> Seq(Thread)] /\ DOMAIN M = K
            /\ \A k \in K : M[k] = RemoveFirst(L[k], t)
        BY <3>1, <3>2 DEF Sound, Homes, HomeMutex
      <4> HIDE DEF L, M, K, S
      <4>2. Houses(M, S \ {t})
        BY <4>1, HousesRemove
      <4>3. QED
        BY <4>2 DEF M, S
    <3>4. QED
      BY <1>5, <3>3, Zenon DEF HomeMutex
  <2>2. CASE state[t] # "BLOCKED_MUTEX"
    <3>1. Waits' = Waits
      BY <1>2, <2>2, WaitsStay
    <3>2. QED
      BY <1>1, <1>3, <2>2, <3>1, HomesStay DEF Sound, Homes
  <2>3. QED
    BY <2>1, <2>2
<1>10. HomeIo'
  <2>1. CASE state[t] = "BLOCKED_IO_READY"
    <3>1. ioReady \in Seq(Thread) /\ ioReady' = RemoveFirst(ioReady, t)
      BY <1>2, <2>1 DEF Types, IoTypes
    <3>2. /\ <<ioReady>> \in [1 .. 1 -> Seq(Thread)]
          /\ DOMAIN <<ioReady'>> = 1 .. 1
          /\ \A k \in 1 .. 1 : <<ioReady'>>[k] = RemoveFirst(<<ioReady>>[k], t)
      BY <3>1
    <3>3. Houses(<<ioReady'>>, In("BLOCKED_IO_READY") \ {t})
      <4> DEFINE L == <<ioReady>>
                 M == <<ioReady'>>
                 K == 1 .. 1
                 S == In("BLOCKED_IO_READY")
      <4>1. /\ Houses(L, S) /\ L \in [K -> Seq(Thread)] /\ DOMAIN M = K
            /\ \A k \in K : M[k] = RemoveFirst(L[k], t)
        BY <3>2, Zenon DEF Sound, Homes, HomeIo
      <4> HIDE DEF L, M, K, S
      <4>2. Houses(M, S \ {t})
        BY <4>1, HousesRemove
      <4>3. QED
        BY <4>2 DEF M, S
    <3>4. QED
      BY <1>5, <3>3, Zenon DEF HomeIo
  <2>2. CASE state[t] # "BLOCKED_IO_READY"
    BY <1>1, <1>2, <1>3, <2>2, HomesStay DEF Sound, Homes
  <2>3. QED
    BY <2>1, <2>2
<1>11. Singles'
  <2>1. \A u \in Thread : u # NoThread
    BY ThreadFacts
  <2>2. QED
    BY <1>1, <1>2, <1>3, <1>4, <2>1 DEF Sound, Homes, Singles, BlockedStates
<1>12. Joins'
  <2> SUFFICES ASSUME NEW u \in Thread
               PROVE  /\ \A i \in DOMAIN joinedBy'[u] :
                           joinedBy'[u][i][1] = u[1] /\ joinedBy'[u][i] # u
                      /\ state'[u] = "NULL" => joinedBy'[u] = <<>>
    BY Zenon DEF Joins
  <2>1. /\ \A i \in DOMAIN joinedBy[u] :
             joinedBy[u][i][1] = u[1] /\ joinedBy[u][i] # u
        /\ state[u] = "NULL" => joinedBy[u] = <<>>
        /\ joinedBy[u] \in Seq(Thread)
    BY DEF Sound, Joins, Types, TcbTypes
  <2>2. state'[u] = "NULL" <=> state[u] = "NULL"
    BY <1>4 DEF SameThreads
  <2>3. CASE joinedBy'[u] = joinedBy[u]
    BY <2>1, <2>2, <2>3
  <2>4. CASE joinedBy'[u] = RemoveFirst(joinedBy[u], t)
    <3>1. CASE \E i \in 1 .. Len(joinedBy[u]) : joinedBy[u][i] = t
      <4> DEFINE s == joinedBy[u]
      <4>1. PICK k \in 1 .. Len(s) : RemoveFirst(s, t) = RemoveAt(s, k)
        BY <2>1, <3>1, RemoveFirstAt, Zenon
      <4>2. /\ RemoveAt(s, k) \in Seq(Thread)
            /\ Len(RemoveAt(s, k)) = Len(s) - 1
            /\ \A j \in 1 .. Len(s) - 1 :
                 RemoveAt(s, k)[j] = IF j < k THEN s[j] ELSE s[j + 1]
        BY <2>1, RemoveAtFacts, Zenon
      <4>3. DOMAIN joinedBy'[u] = 1 .. Len(s) - 1 /\ DOMAIN s = 1 .. Len(s)
        BY <2>1, <2>4, <4>1, <4>2, LenProperties
      <4>4. Len(s) \in Nat /\ s # <<>>
        BY <2>1, <3>1
      <4> HIDE DEF s
      <4>5. ASSUME NEW i \in DOMAIN joinedBy'[u]
            PROVE  \E j \in DOMAIN s : joinedBy'[u][i] = s[j]
        <5>1. i \in DOMAIN s /\ i + 1 \in DOMAIN s /\ i \in 1 .. Len(s) - 1
          BY <4>3, <4>4
        <5>2. QED
          BY <2>4, <4>1, <4>2, <5>1 DEF s
      <4>6. QED
        BY <2>1, <2>2, <4>4, <4>5 DEF s
    <3>2. CASE ~ \E i \in 1 .. Len(joinedBy[u]) : joinedBy[u][i] = t
      <4>1. ASSUME NEW s \in Seq(Thread), \A i \in 1 .. Len(s) : s[i] # t
            PROVE  RemoveFirst(s, t) = s
        BY <4>1, RemoveFirstFacts, Zenon
      <4>2. RemoveFirst(joinedBy[u], t) = joinedBy[u]
        BY <2>1, <3>2, <4>1, Zenon
      <4>3. QED
        BY <2>3, <2>4, <4>2, Zenon
    <3>3. QED
      BY <3>1, <3>2
  <2>5. QED
    BY <1>2, <2>3, <2>4
<1>13. Locks'
  <2>1. Bare'
    BY <1>1, <1>4 DEF Sound, Locks, Bare, SameThreads
  <2>2. ASSUME NEW q \in Processes, NEW m \in Mutexes PROVE Lock(q, m)'
    <3>1. Lock(q, m)
      BY DEF Sound, Locks
    <3>2. CASE resource'[q][m] = resource[q][m]
      BY <1>3, <3>1, <3>2, LockStays DEF SameHeld
    <3>3. CASE /\ t \in Range(resource[q][m].blocked)
               /\ resource'[q][m] = DropWaiter(resource[q][m], t)
      BY <1>1, <1>3, <3>1, <3>3, DropLock, Zenon
    <3>4. QED
      BY <1>8, <3>2, <3>3, Zenon
  <2>3. QED
    BY <2>1, <2>2, Zenon DEF Locks
<1>14. Procs'
  <2>1. SameMade
    <3> SUFFICES ASSUME NEW q \in Processes, NEW m \in Mutexes
                 PROVE  resource'[q][m].made = resource[q][m].made
      BY DEF SameMade
    <3>1. resource[q][m] \in Resource
      BY ResourceFacts
    <3>2. DropWaiter(resource[q][m], t).made = resource[q][m].made
      BY <3>1 DEF DropWaiter, Resource
    <3>3. QED
      BY <1>8, <3>2, Zenon
  <2>2. QED
    BY <1>1, <1>4, <2>1, ProcsStay, Zenon DEF Sound
<1>15. Control'
  <2>1. \A u \in Thread : state'[u] = "EXEC" <=> state[u] = "EXEC"
    BY <1>1, <1>4 DEF BlockedStates
  <2>2. sts # "IDLE" => exec \in Thread
    BY DEF Types, StsTypes
  <2>3. sts # "EXITING"
    BY <1>1, <2>2, ThreadFacts DEF Sound, Control, Running
  <2>4. Running'
    BY <1>1, <2>1, <2>2, <2>3 DEF Sound, Control, Running
  <2>5. Writing'
    <3>1. killSelf # NoThread /\ state'[killSelf] = state[killSelf]
      BY <1>1, <1>4, ThreadFacts
    <3>2. QED
      BY <1>1, <1>3, <3>1 DEF Sound, Control, Writing
  <2>6. Calling'
    BY <1>1 DEF Sound, Control, Calling
  <2>7. Kills'
    <3>1. exec # NoThread => exec \in Thread
      BY DEF Types, StsTypes, ThreadOrNull
    <3>2. exec # NoThread /\ state[exec] = "NULL" => state'[exec] = "NULL"
      BY <1>4, <3>1 DEF SameThreads
    <3>3. QED
      BY <1>1, <3>2 DEF Sound, Control, Kills
  <2>8. QED
    BY <2>4, <2>5, <2>6, <2>7 DEF Control
<1>16. QED
  BY <1>6, <1>7, <1>9, <1>10, <1>11, <1>12, <1>13, <1>14, <1>15 DEF Sound, Homes

-----------------------------------------------------------------------------
(* A thread wakes up                                                       *)

\* A blocked thread goes to READY and the scheduler stays where it is.
LEMMA Wakes ==
  ASSUME Types, Sound, NEW t \in Thread, InsertStateReady(t, priority[t]),
         state[t] \in BlockedStates, state[t] = "BLOCKED_DUMP" => writer # "DUMP",
         UNCHANGED <<priority, exec, sts, call, target, redispatch, killExec,
                     killSent, writer, killSelf, exiting>>
  PROVE  /\ HomeReady' /\ Queued' /\ Control' /\ SameThreads
         /\ Moves(t, "READY") /\ state'[t] = "READY"
         /\ \A u \in Thread : u # t => state'[u] = state[u]
<1>1. HomeReady' /\ Queued' /\ Moves(t, "READY")
  BY ReadyReturns DEF Sound, Homes, BlockedStates
<1>2. /\ state'[t] = "READY" /\ SameThreads
      /\ \A u \in Thread : u # t => state'[u] = state[u]
  BY <1>1, MoveFacts DEF BlockedStates
<1>3. \A u \in Thread : /\ state'[u] = "EXEC" <=> state[u] = "EXEC"
                        /\ state[u] = "NULL" => state'[u] = "NULL"
                        /\ writer = "DUMP" /\ state[u] = "BLOCKED_DUMP"
                             => state'[u] = "BLOCKED_DUMP"
  BY <1>2 DEF BlockedStates
<1>4. Control'
  BY <1>3, ControlStays DEF Sound
<1>5. QED
  BY <1>1, <1>2, <1>4

\* The head of the list of a mutex waits for it.
LEMMA HeirFacts ==
  ASSUME Types, HomeMutex, NEW p \in Processes, NEW m \in Mutexes, Lock(p, m),
         resource[p][m].blocked # <<>>
  PROVE  LET heir == Head(resource[p][m].blocked) IN
         heir \in Thread /\ heir[1] = p /\ state[heir] = "BLOCKED_MUTEX"
<1> DEFINE b == resource[p][m].blocked
<1>1. b \in Seq(Thread) /\ b # <<>>
  BY ResourceFacts
<1>2. /\ Waits \in [Processes \X Mutexes -> Seq(Thread)]
      /\ <<p, m>> \in Processes \X Mutexes /\ Waits[<<p, m>>] = b
  BY WaitsFacts
<1>3. \A i \in DOMAIN b : b[i][1] = p
  BY DEF Lock
<1> HIDE DEF b
<1>4. Head(b) \in In("BLOCKED_MUTEX") /\ Head(b) \in Thread
  BY <1>1, <1>2, HousesTail DEF HomeMutex
<1>5. 1 \in DOMAIN b /\ Head(b) = b[1]
  BY <1>1
<1>6. QED
  BY <1>3, <1>4, <1>5 DEF In, b

\* ... and leaves it for READY.
LEMMA HeirMoves ==
  ASSUME Types, HomeMutex, NEW p \in Processes, NEW m \in Mutexes,
         resource[p][m].blocked # <<>>, NEW r,
         Sets(p, m, r),
         r.blocked = Tail(resource[p][m].blocked),
         NEW heir \in Thread, heir = Head(resource[p][m].blocked),
         Moves(heir, "READY")
  PROVE  HomeMutex'
<1> DEFINE b == resource[p][m].blocked
<1>1. /\ Waits \in [Processes \X Mutexes -> Seq(Thread)]
      /\ <<p, m>> \in Processes \X Mutexes /\ Waits[<<p, m>>] = b
  BY WaitsFacts
<1>2. Waits' = [Waits EXCEPT ![<<p, m>>] = Tail(@)]
  <2>1. Waits' = [Waits EXCEPT ![<<p, m>>] = r.blocked]
    BY WaitsUpdate
  <2>2. r.blocked = Tail(Waits[<<p, m>>])
    BY <1>1
  <2>3. QED
    BY <2>1, <2>2, Zenon
<1>3. In("BLOCKED_MUTEX")' = In("BLOCKED_MUTEX") \ {heir}
  BY InMoves
<1>4. Houses([Waits EXCEPT ![<<p, m>>] = Tail(@)], In("BLOCKED_MUTEX") \ {Head(b)})
  <2> DEFINE L == Waits
             k == <<p, m>>
             K == Processes \X Mutexes
             S == In("BLOCKED_MUTEX")
  <2>1. Houses(L, S) /\ L[k] # <<>> /\ k \in K /\ L \in [K -> Seq(Thread)] /\ L[k] = b
    BY <1>1, Zenon DEF HomeMutex
  <2> HIDE DEF L, k, K, S, b
  <2>2. Houses([L EXCEPT ![k] = Tail(@)], S \ {Head(L[k])})
    BY <2>1, HousesTail
  <2>3. QED
    BY <2>1, <2>2 DEF L, k, S
<1>5. QED
  BY <1>2, <1>3, <1>4 DEF HomeMutex

\* A mutex goes from its holder to its first waiter or, without one, is free.
LEMMA LockPasses ==
  ASSUME Types, NEW p \in Processes, NEW m \in Mutexes, Lock(p, m),
         NEW t \in Thread, t[1] = p, m \in Held(t), NEW heir,
         LET r == resource[p][m] IN
         /\ resource'[p][m].made = r.made
         /\ resource'[p][m].instances = r.instances + 1
         /\ \/ r.blocked = <<>> /\ resource'[p][m].blocked = <<>> /\ heir = NoThread
            \/ /\ r.blocked # <<>> /\ resource'[p][m].blocked = Tail(r.blocked)
               /\ heir \in Thread /\ heir[1] = p,
         \A u \in Thread : m \in Held(u)' <=> u = heir \/ (m \in Held(u) /\ u # t)
  PROVE  Lock(p, m)'
<1> DEFINE r == resource[p][m]
           b == resource'[p][m].blocked
<1>1. r.instances \in Int /\ r.blocked \in Seq(Thread)
  BY ResourceFacts
<1>2. /\ \A j \in DOMAIN r.blocked : r.blocked[j][1] = p
      /\ r.made /\ r.instances = - Len(r.blocked)
      /\ \A u \in Thread : u[1] = p /\ m \in Held(u) => u = t
  BY Zenon DEF Lock
<1>3. \A u \in Thread : u[1] = p => (m \in Held(u)' <=> u = heir)
  BY <1>2, Zenon
<1>4. CASE r.blocked = <<>>
  <2>1. b = <<>> /\ resource'[p][m].instances = 1 /\ heir = NoThread
    BY <1>1, <1>2, <1>4
  <2>2. \A u \in Thread : u # NoThread
    BY ThreadFacts
  <2>3. \A u \in Thread : u[1] = p => ~ (m \in Held(u)')
    BY <1>3, <2>1, <2>2, Zenon
  <2>4. \A i \in DOMAIN b : b[i][1] = p
    BY <2>1
  <2>5. QED
    BY <2>1, <2>3, <2>4 DEF Lock
<1>5. CASE r.blocked # <<>>
  <2>1. /\ b = Tail(r.blocked) /\ heir \in Thread /\ heir[1] = p
        /\ resource'[p][m].made
    BY <1>2, <1>5
  <2>2. /\ b \in Seq(Thread) /\ Len(b) = Len(r.blocked) - 1
        /\ Len(r.blocked) \in Nat
        /\ \A i \in 1 .. Len(b) : b[i] = r.blocked[i + 1]
    <3> HIDE DEF b, r
    <3>1. QED
      BY <1>1, <1>5, <2>1, HeadTailProperties, LenProperties
  <2>3. resource'[p][m].instances = - Len(b)
    BY <1>1, <1>2, <2>2
  <2>4. \A i \in DOMAIN b : b[i][1] = p
    <3>1. DOMAIN b = 1 .. Len(b) /\ DOMAIN r.blocked = 1 .. Len(r.blocked)
      <4> HIDE DEF b, r
      <4>1. QED
        BY <1>1, <2>2, LenProperties
    <3>2. ASSUME NEW i \in DOMAIN b PROVE b[i][1] = p
      <4>1. i + 1 \in DOMAIN r.blocked
        <5> HIDE DEF b, r
        <5>1. QED
          BY <2>2, <3>1
      <4>2. b[i] = r.blocked[i + 1]
        BY <2>2, <3>1, Zenon
      <4>3. QED
        BY <1>2, <4>1, <4>2, Zenon
    <3>3. QED
      BY <3>2, Zenon
  <2>5. m \in Held(heir)'
    BY <1>3, <2>1
  <2>6. ASSUME NEW u \in Thread, u[1] = p, m \in Held(u)' PROVE u = heir
    BY <1>3, <2>6
  <2>7. QED
    BY <2>1, <2>3, <2>4, <2>5, <2>6, Zenon DEF Lock
<1>6. QED
  BY <1>4, <1>5

-----------------------------------------------------------------------------
(* Exits                                                                   *)

LEMMA ExitingFacts ==
  ASSUME Types, Sound, exiting # NoThread
  PROVE  exiting \in Thread /\ exiting[1] \in Processes /\ state[exiting] = "EXIT"
<1>1. exiting \in Thread
  BY DEF Types, ExitTypes, ThreadOrNull
<1>2. QED
  BY <1>1, ThreadFacts DEF Sound, Homes, Singles

LEMMA UnassignStep ==
  ASSUME Types, Sound, NEW m \in Mutexes, ResourcesUnassign(m), ~staleHandover'
  PROVE  Sound'
<1>0. PICK x \in Thread : x = exiting
  BY ExitingFacts, Zenon DEF ResourcesUnassign
<1> DEFINE p == x[1]
           r == resource[p][m]
           woken == r.instances + 1 <= 0
           heir == IF ~woken THEN unblock
                   ELSE IF r.blocked = <<>> THEN NoThread ELSE Head(r.blocked)
           new == [r EXCEPT !.instances = @ + 1,
                            !.blocked = IF woken /\ @ # <<>> THEN Tail(@) ELSE @]
<1>1. /\ exiting # NoThread /\ m \in left
      /\ left' = left \ {m}
      /\ resource' = [resource EXCEPT ![p][m] = new]
      /\ IF heir = NoThread
         THEN UNCHANGED <<state, ready, assigned>>
         ELSE /\ assigned' = [assigned EXCEPT ![heir] = @ \cup {m}]
              /\ InsertStateReady(heir, priority[heir])
      /\ staleHandover' = (staleHandover \/ (~woken /\ heir # NoThread))
      /\ UNCHANGED <<priority, joinedBy, process, size, exec, ioVars, stsVars,
                     expired, killVars, exiting, fault>>
  BY <1>0, Zenon DEF ResourcesUnassign
<1>2. p \in Processes /\ state[x] = "EXIT"
  BY <1>0, <1>1, ExitingFacts
<1>3. /\ r \in Resource /\ r.instances \in Int /\ r.blocked \in Seq(Thread)
      /\ Lock(p, m) /\ m \in Held(x)
  BY <1>0, <1>1, <1>2, ResourceFacts DEF Sound, Locks, Held
<1>4. r.made /\ r.instances = - Len(r.blocked)
  BY <1>2, <1>3 DEF Lock
<1>5. Len(r.blocked) \in Nat /\ (r.blocked = <<>> <=> Len(r.blocked) = 0)
  BY <1>3
<1>6. woken <=> r.blocked # <<>>
  <2> HIDE DEF r
  <2>1. QED
    BY <1>4, <1>5
<1>7. heir = IF r.blocked = <<>> THEN NoThread ELSE Head(r.blocked)
  <2>1. ~woken => heir = NoThread
    BY <1>1, Zenon
  <2>2. QED
    BY <1>6, <2>1, Zenon
<1>8. /\ UNCHANGED <<ioExec, ioReady, sts, call, target, redispatch, killExec,
                     killSent, writer, killSelf>>
      /\ UNCHANGED <<priority, joinedBy, process, size, exec, exiting>>
  BY <1>1 DEF ioVars, stsVars, killVars
<1>9. /\ new.made = r.made /\ new.instances = r.instances + 1
      /\ new.blocked = IF r.blocked = <<>> THEN <<>> ELSE Tail(r.blocked)
  <2> HIDE DEF r, woken
  <2>1. QED
    BY <1>3, <1>6 DEF Resource
<1>10. resource'[p][m] = new
       /\ \A q \in Processes, n \in Mutexes :
            q # p \/ n # m => resource'[q][n] = resource[q][n]
  <2>1. Sets(p, m, new)
    BY <1>1, Zenon DEF Sets
  <2> HIDE DEF new, p
  <2>2. QED
    BY <1>2, <2>1, SetsOne
<1>11. SameMade
  BY <1>9, <1>10, Zenon DEF SameMade
<1> HIDE DEF heir, new, woken, r, p
<1>12. CASE r.blocked = <<>>
  <2>1. heir = NoThread /\ UNCHANGED <<state, ready, assigned>>
    BY <1>1, <1>7, <1>12
  <2>2. SameThreads
    BY <2>1 DEF SameThreads
  <2>3. Waits' = Waits
    BY <1>9, <1>10, <1>12, WaitsStay DEF r
  <2>4. Homes'
    <3>1. \A s : In(s)' = In(s)
      BY <2>1 DEF In
    <3>2. HomeReady' /\ HomeJoin' /\ HomeMutex' /\ HomeIo'
      BY <1>8, <2>1, <2>3, <3>1, Zenon
        DEF Sound, Homes, HomeReady, HomeJoin, HomeMutex, HomeIo
    <3>3. Queued' /\ Singles'
      BY <1>8, <2>1, QueuedStays DEF Sound, Homes, Singles
    <3>4. QED
      BY <3>2, <3>3 DEF Homes
  <2>5. Joins'
    BY <1>8, <2>2, JoinsStay DEF Sound
  <2>6. Locks'
    <3>1. \A u \in Thread : Held(u)' = IF u = x THEN Held(u) \ {m} ELSE Held(u)
      BY <1>0, <1>1, <1>8, <2>1 DEF Held
    <3>2. Lock(p, m)'
      <4>1. \A u \in Thread : u # NoThread
        BY ThreadFacts
      <4>2. \A u \in Thread :
              m \in Held(u)' <=> u = NoThread \/ (m \in Held(u) /\ u # x)
        BY <3>1, <4>1
      <4>3. /\ resource'[p][m].made = resource[p][m].made
            /\ resource'[p][m].instances = resource[p][m].instances + 1
            /\ resource[p][m].blocked = <<>> /\ resource'[p][m].blocked = <<>>
        BY <1>9, <1>10, <1>12 DEF r
      <4>4. x[1] = p
        BY DEF p
      <4>5. QED
        BY <1>2, <1>3, <4>2, <4>3, <4>4, LockPasses
    <3>3. ASSUME NEW q \in Processes, NEW n \in Mutexes, q # p \/ n # m
          PROVE  Lock(q, n)'
      <4>1. \A u \in Thread : u[1] = q => (n \in Held(u)' <=> n \in Held(u))
        BY <3>1, <3>3 DEF p
      <4>2. QED
        BY <1>10, <3>3, <4>1, LockStays DEF Sound, Locks
    <3>4. Bare'
      BY <2>1 DEF Sound, Locks, Bare
    <3>5. QED
      BY <3>2, <3>3, <3>4, Zenon DEF Locks
  <2>7. Procs'
    BY <1>8, <1>11, <2>2, ProcsStay DEF Sound
  <2>8. Control'
    BY <1>8, <2>1, ControlStays DEF Sound
  <2>9. QED
    BY <2>4, <2>5, <2>6, <2>7, <2>8 DEF Sound
<1>13. CASE r.blocked # <<>>
  <2>0. /\ heir \in Thread /\ heir[1] = p /\ state[heir] = "BLOCKED_MUTEX"
    BY <1>2, <1>3, <1>7, <1>13, HeirFacts DEF r, Sound, Homes
  <2> PICK h \in Thread : h = heir
    BY <2>0, Zenon
  <2>1. h = Head(r.blocked) /\ h[1] = p /\ state[h] = "BLOCKED_MUTEX"
    BY <1>7, <1>13, <2>0, Zenon
  <2>2. /\ assigned' = [assigned EXCEPT ![h] = @ \cup {m}]
        /\ InsertStateReady(h, priority[h])
    <3>1. h # NoThread
      BY ThreadFacts
    <3>2. QED
      BY <1>1, <3>1
  <2>3. /\ HomeReady' /\ Queued' /\ Control' /\ SameThreads
        /\ Moves(h, "READY") /\ state'[h] = "READY"
        /\ \A u \in Thread : u # h => state'[u] = state[u]
    BY <1>8, <2>1, <2>2, Wakes DEF BlockedStates
  <2>4. HomeMutex'
    <3>1. Sets(p, m, new) /\ new.blocked = Tail(resource[p][m].blocked)
      BY <1>1, <1>9, <1>13, Zenon DEF Sets, r
    <3>2. HomeMutex /\ resource[p][m].blocked # <<>> /\ h = Head(resource[p][m].blocked)
      BY <1>13, <2>1 DEF r, Sound, Homes
    <3>3. QED
      BY <1>2, <2>3, <3>1, <3>2, HeirMoves
  <2>5. HomeJoin' /\ HomeIo'
    BY <1>8, <2>1, <2>3, HomesStay DEF Sound, Homes
  <2>6. Singles'
    BY <1>8, <2>1, <2>3 DEF Sound, Homes, Singles
  <2>7. Joins'
    BY <1>8, <2>3, JoinsStay DEF Sound
  <2>8. h # x
    BY <1>2, <2>1
  <2>9. Locks'
    <3>1. \A u \in Thread : Held(u)' = IF u = x THEN Held(u) \ {m}
                                       ELSE IF u = h THEN Held(u) \cup {m} ELSE Held(u)
      <4>1. \A u \in Thread : assigned'[u] = IF u = h THEN assigned[u] \cup {m}
                                           ELSE assigned[u]
        BY <2>2 DEF Types, TcbTypes
      <4>2. QED
        BY <1>0, <1>1, <1>8, <2>8, <4>1 DEF Held
    <3>2. Lock(p, m)'
      <4>1. \A u \in Thread :
              m \in Held(u)' <=> u = h \/ (m \in Held(u) /\ u # x)
        BY <2>1, <2>8, <3>1
      <4>2. /\ resource'[p][m].made = resource[p][m].made
            /\ resource'[p][m].instances = resource[p][m].instances + 1
            /\ resource[p][m].blocked # <<>>
            /\ resource'[p][m].blocked = Tail(resource[p][m].blocked)
        BY <1>9, <1>10, <1>13 DEF r
      <4>3. x[1] = p
        BY DEF p
      <4>4. QED
        BY <1>2, <1>3, <2>1, <4>1, <4>2, <4>3, LockPasses
    <3>3. ASSUME NEW q \in Processes, NEW n \in Mutexes, q # p \/ n # m
          PROVE  Lock(q, n)'
      <4>1. \A u \in Thread : u[1] = q => (n \in Held(u)' <=> n \in Held(u))
        BY <2>1, <3>1, <3>3 DEF p
      <4>2. QED
        BY <1>10, <3>3, <4>1, LockStays DEF Sound, Locks
    <3>4. Bare'
      <4>1. \A u \in Thread : assigned'[u] = IF u = h THEN assigned[u] \cup {m}
                                           ELSE assigned[u]
        BY <2>2 DEF Types, TcbTypes
      <4>2. QED
        BY <2>3, <4>1 DEF Sound, Locks, Bare
    <3>5. QED
      BY <3>2, <3>3, <3>4, Zenon DEF Locks
  <2>10. Procs'
    BY <1>8, <1>11, <2>3, ProcsStay DEF Sound
  <2>11. QED
    BY <2>3, <2>4, <2>5, <2>6, <2>7, <2>9, <2>10 DEF Sound, Homes
<1>14. QED
  BY <1>12, <1>13

\* The next thread that waits for the exiting one wakes up.
LEMMA JoinThreadsStep ==
  ASSUME Types, Sound, JoinThreads
  PROVE  Sound'
<1>0. PICK x \in Thread : x = exiting
  BY ExitingFacts, Zenon DEF JoinThreads
<1> DEFINE b == joinedBy[x]
<1>1. /\ b # <<>> /\ joinedBy \in [Thread -> Seq(Thread)] /\ b \in Seq(Thread)
      /\ joinedBy' = [joinedBy EXCEPT ![x] = Tail(@)]
      /\ InsertStateReady(Head(b), priority[Head(b)])
      /\ UNCHANGED <<priority, assigned, procVars, exec, ioVars, stsVars, expired,
                     killVars, exitVars, fault>>
  BY <1>0 DEF JoinThreads, Types, TcbTypes
<1>2. /\ Head(b) \in In("BLOCKED_JOIN") /\ Head(b) \in Thread
      /\ Houses([joinedBy EXCEPT ![x] = Tail(@)], In("BLOCKED_JOIN") \ {Head(b)})
  BY <1>1, HousesTail DEF Sound, Homes, HomeJoin
<1>3. PICK t \in Thread : t = Head(b)
  BY <1>2, Zenon
<1>4. state[t] = "BLOCKED_JOIN" /\ InsertStateReady(t, priority[t])
  BY <1>1, <1>2, <1>3 DEF In
<1>5. /\ UNCHANGED <<ioExec, ioReady, sts, call, target, redispatch, killExec,
                     killSent, writer, killSelf>>
      /\ UNCHANGED <<process, size, resource, left, priority, assigned, exec, exiting>>
  BY <1>1 DEF ioVars, stsVars, killVars, procVars, exitVars
<1>6. /\ HomeReady' /\ Queued' /\ Control' /\ SameThreads
      /\ Moves(t, "READY") /\ state'[t] = "READY"
      /\ \A u \in Thread : u # t => state'[u] = state[u]
  BY <1>4, <1>5, Wakes DEF BlockedStates
<1>7. HomeJoin'
  <2>1. In("BLOCKED_JOIN")' = In("BLOCKED_JOIN") \ {t}
    BY <1>6, InMoves
  <2>2. QED
    BY <1>1, <1>2, <1>3, <2>1 DEF HomeJoin
<1>8. HomeMutex' /\ HomeIo'
  <2>1. Waits' = Waits
    BY <1>5, WaitsStay
  <2>2. QED
    BY <1>4, <1>5, <1>6, <2>1, HomesStay DEF Sound, Homes
<1>9. Singles'
  BY <1>4, <1>5, <1>6 DEF Sound, Homes, Singles
<1>10. Joins'
  <2>1. ASSUME NEW u \in Thread
        PROVE  /\ \A i \in DOMAIN joinedBy'[u] :
                    joinedBy'[u][i][1] = u[1] /\ joinedBy'[u][i] # u
               /\ state'[u] = "NULL" => joinedBy'[u] = <<>>
    <3>1. /\ \A i \in DOMAIN joinedBy[u] :
               joinedBy[u][i][1] = u[1] /\ joinedBy[u][i] # u
          /\ state[u] = "NULL" => joinedBy[u] = <<>>
      BY DEF Sound, Joins
    <3>2. state'[u] = "NULL" <=> state[u] = "NULL"
      BY <1>6 DEF SameThreads
    <3>3. CASE u # x
      <4>1. joinedBy'[u] = joinedBy[u]
        BY <1>1, <3>3
      <4>2. QED
        BY <3>1, <3>2, <4>1
    <3>4. CASE u = x
      <4>1. /\ joinedBy'[u] = Tail(b) /\ Tail(b) \in Seq(Thread)
            /\ Len(Tail(b)) = Len(b) - 1 /\ Len(b) \in Nat
            /\ \A i \in 1 .. Len(Tail(b)) : Tail(b)[i] = b[i + 1]
        <5>1. joinedBy'[u] = Tail(b)
          BY <1>1, <3>4
        <5> HIDE DEF b
        <5>2. QED
          BY <1>1, <5>1, HeadTailProperties, LenProperties
      <4>2. state[u] = "EXIT"
        BY <1>0, <3>4 DEF Sound, Homes, Singles
      <4>3. ASSUME NEW i \in DOMAIN joinedBy'[u]
            PROVE  i + 1 \in DOMAIN b /\ joinedBy'[u][i] = b[i + 1]
        BY <1>1, <4>1
      <4>4. QED
        BY <3>1, <3>2, <3>4, <4>2, <4>3
    <3>5. QED
      BY <3>3, <3>4
  <2>2. QED
    BY <2>1, Zenon DEF Joins
<1>11. Locks'
  BY <1>5, <1>6, HeldStays, LocksStay DEF Sound
<1>12. Procs'
  <2>1. SameMade
    BY <1>5 DEF SameMade
  <2>2. QED
    BY <1>5, <1>6, <2>1, ProcsStay DEF Sound
<1>13. QED
  BY <1>6, <1>7, <1>8, <1>9, <1>10, <1>11, <1>12 DEF Sound, Homes

\* The members of a process are finitely many, whatever Processes is.
LEMMA MembersFinite ==
  ASSUME NEW p \in Processes, NEW S, S \subseteq {t \in Thread : t[1] = p}
  PROVE  IsFiniteSet(S)
<1>1. IsFiniteSet({p}) /\ IsFiniteSet(0 .. MaxTid)
  <2>1. 0 \in Int /\ MaxTid \in Int
    BY KernelThreadsAssumption
  <2>2. IsFiniteSet(0 .. MaxTid)
    BY <2>1, FS_Interval, Zenon
  <2>3. QED
    BY <2>2, FS_Singleton, Zenon
<1>2. IsFiniteSet({p} \X (0 .. MaxTid))
  BY <1>1, FS_Product
<1>3. S \subseteq {p} \X (0 .. MaxTid)
  BY DEF Thread
<1>4. QED
  BY <1>2, <1>3, FS_Subset

LEMMA LastFacts ==
  ASSUME NEW x \in Thread, Exists(x)
  PROVE  IsLast(x[1]) <=> \A u \in Thread : u[1] = x[1] /\ Exists(u) => u = x
<1> DEFINE S == {t \in Thread : t[1] = x[1] /\ Exists(t)}
<1>1. x[1] \in Processes
  BY ThreadFacts
<1>2. IsFiniteSet(S)
  BY <1>1, MembersFinite
<1>3. x \in S
  OBVIOUS
<1>4. IsLast(x[1]) <=> Cardinality(S) = 1
  BY DEF IsLast, Counter
<1>5. Cardinality(S) = 1 <=> \E y : S = {y}
  <2> HIDE DEF S
  <2>1. QED
    BY <1>2, FS_Singleton
<1>6. (\E y : S = {y}) <=> \A u \in S : u = x
  BY <1>3
<1>7. QED
  BY <1>4, <1>5, <1>6

LEMMA DestroyStep ==
  ASSUME Types, Sound, Destroy
  PROVE  Sound'
<1>0. PICK x \in Thread : x = exiting
  BY ExitingFacts, Zenon DEF Destroy
<1> DEFINE p == x[1]
           last == IsLast(p)
<1>1. /\ left = {} /\ joinedBy[x] = <<>> /\ exiting # NoThread
      /\ state' = [state EXCEPT ![x] = "NULL"]
      /\ assigned' = [assigned EXCEPT ![x] = {}]
      /\ IF last
         THEN /\ process' = [process EXCEPT ![p] = "DESTROYED"]
              /\ resource' = [resource EXCEPT ![p] = [m \in Mutexes |-> NoResource]]
         ELSE UNCHANGED <<process, resource>>
      /\ exiting' = NoThread
      /\ IF writer = "DUMP" /\ exiting = killSelf
         THEN writer' = "NONE" /\ killSelf' = NoThread
         ELSE UNCHANGED <<writer, killSelf>>
      /\ sts' = IF sts = "EXITING" THEN "AFTER" ELSE sts
      /\ UNCHANGED <<priority, joinedBy, size, ready, exec, ioReady, ioExec>>
      /\ UNCHANGED <<call, target, redispatch, killExec, killSent, left>>
  BY <1>0 DEF Destroy, ioVars
<1>2. p \in Processes /\ state[x] = "EXIT" /\ Exists(x) /\ x # NoThread
  BY <1>0, ExitingFacts, ThreadFacts DEF Destroy, Exists
<1>3. Moves(x, "NULL") /\ state'[x] = "NULL"
      /\ \A u \in Thread : u # x => state'[u] = state[u]
  BY <1>1, MoveFacts DEF Moves
<1>4. \A u \in Thread : Held(u)' = Held(u)
  <2>1. \A u \in Thread : assigned'[u] = IF u = x THEN {} ELSE assigned[u]
    BY <1>1 DEF Types, TcbTypes
  <2>2. \A u \in Thread : u # NoThread
    BY ThreadFacts
  <2>3. QED
    BY <1>0, <1>1, <2>1, <2>2 DEF Held
<1>5. last <=> \A u \in Thread : u[1] = p /\ Exists(u) => u = x
  BY <1>2, LastFacts
<1>6. last => \A u \in Thread : u[1] = p => Held(u) = {}
  <2> SUFFICES ASSUME last, NEW u \in Thread, u[1] = p PROVE Held(u) = {}
    OBVIOUS
  <2>1. CASE u = x
    BY <1>0, <1>1, <2>1 DEF Held
  <2>2. CASE u # x
    BY <1>0, <1>5, <2>2 DEF Held, Exists, Sound, Locks, Bare
  <2>3. QED
    BY <2>1, <2>2
<1>7. last => \A m \in Mutexes : resource[p][m].blocked = <<>>
  BY <1>2, <1>6 DEF Sound, Locks, Lock
<1>8. /\ \A q \in Processes, m \in Mutexes :
           q # p \/ ~last => resource'[q][m] = resource[q][m]
      /\ last => \A m \in Mutexes : resource'[p][m] = NoResource
  BY <1>1, <1>2 DEF Types, ProcTypes
<1> HIDE DEF last, p
<1>9. Homes'
  <2>1. \A q \in Processes, m \in Mutexes :
          resource'[q][m].blocked = resource[q][m].blocked
    BY <1>7, <1>8 DEF NoResource
  <2>2. Waits' = Waits
    BY <2>1, WaitsStay
  <2>3. HomeReady' /\ HomeJoin' /\ HomeMutex' /\ HomeIo'
    BY <1>1, <1>2, <1>3, <2>2, HomesStay DEF Sound, Homes
  <2>4. Queued'
    BY <1>1, QueuedStays DEF Sound, Homes
  <2>5. Singles'
    <3>1. \A u \in Thread : u # NoThread
      BY ThreadFacts
    <3>2. QED
      BY <1>0, <1>1, <1>2, <1>3, <3>1 DEF Sound, Homes, Singles
  <2>6. QED
    BY <2>3, <2>4, <2>5 DEF Homes
<1>10. Joins'
  BY <1>1, <1>3 DEF Sound, Joins
<1>11. Locks'
  <2>1. Bare'
    <3>1. \A u \in Thread : assigned'[u] = IF u = x THEN {} ELSE assigned[u]
      BY <1>1 DEF Types, TcbTypes
    <3>2. QED
      BY <1>3, <3>1 DEF Sound, Locks, Bare
  <2>2. ASSUME NEW q \in Processes, NEW m \in Mutexes PROVE Lock(q, m)'
    <3>1. CASE q # p \/ ~last
      BY <1>4, <1>8, <3>1, LockStays DEF Sound, Locks
    <3>2. CASE q = p /\ last
      <4>1. /\ resource'[q][m].made = FALSE /\ resource'[q][m].blocked = <<>>
        BY <1>8, <3>2 DEF NoResource
      <4>2. \A u \in Thread : u[1] = q => ~ (m \in Held(u)')
        BY <1>4, <1>6, <3>2
      <4>3. \A i \in DOMAIN resource'[q][m].blocked :
              resource'[q][m].blocked[i][1] = q
        BY <4>1
      <4>4. QED
        BY <4>1, <4>2, <4>3 DEF Lock
    <3>3. QED
      BY <3>1, <3>2
  <2>3. QED
    BY <2>1, <2>2, Zenon DEF Locks
<1>12. Procs'
  <2>1. \A q \in Processes :
          process'[q] = IF last /\ q = p THEN "DESTROYED" ELSE process[q]
    BY <1>1, <1>2 DEF Types, ProcTypes
  <2>2. Populated'
    <3> SUFFICES ASSUME NEW q \in Processes
                 PROVE  process'[q] = "ALIVE"
                          <=> \E t \in Thread : t[1] = q /\ state'[t] # "NULL"
      BY DEF Populated, Exists
    <3>1. process[q] = "ALIVE" <=> \E t \in Thread : t[1] = q /\ state[t] # "NULL"
      BY DEF Sound, Procs, Populated, Exists
    <3>2. CASE q # p
      BY <1>3, <2>1, <3>1, <3>2 DEF p
    <3>3. CASE q = p /\ last
      BY <1>3, <1>5, <2>1, <3>3 DEF Exists
    <3>4. CASE q = p /\ ~last
      <4>1. PICK u \in Thread : u[1] = p /\ Exists(u) /\ u # x
        BY <1>5, <3>4
      <4>2. state'[u] # "NULL" /\ state[u] # "NULL"
        BY <1>3, <4>1 DEF Exists
      <4>3. QED
        BY <2>1, <3>1, <3>4, <4>1, <4>2
    <3>5. QED
      BY <3>2, <3>3, <3>4
  <2>3. Numbered'
    <3>1. \A t \in Thread : t[2] >= size[t[1]] => state'[t] = "NULL"
      BY <1>3 DEF Sound, Procs, Numbered
    <3>2. \A q \in Processes : process'[q] = "NONE" => size[q] = 0
      BY <2>1 DEF Sound, Procs, Numbered
    <3>3. QED
      BY <1>1, <3>1, <3>2 DEF Sound, Procs, Numbered
  <2>4. Unmade'
    <3>1. last => \A m \in Mutexes : ~ resource'[p][m].made
      BY <1>8 DEF NoResource
    <3>2. QED
      BY <1>8, <2>1, <3>1 DEF Sound, Procs, Unmade
  <2>5. QED
    BY <2>2, <2>3, <2>4 DEF Procs
<1>13. Control'
  <2>1. sts # "IDLE" => exec \in Thread
    BY DEF Types, StsTypes
  <2>2. writer # "NONE" => killSelf \in Thread /\ killSelf # NoThread
    BY ThreadFacts DEF Types, KillTypes
  <2>3. \A u \in Thread : /\ state'[u] = "EXEC" <=> state[u] = "EXEC"
                          /\ state[u] = "NULL" => state'[u] = "NULL"
    BY <1>2, <1>3
  <2>4. Running'
    <3>1. CASE sts = "EXITING"
      <4>1. sts' = "AFTER" /\ exec' = x /\ ~redispatch' /\ state'[exec'] = "NULL"
        BY <1>0, <1>1, <1>3, <3>1 DEF Sound, Control, Running
      <4>2. QED
        BY <4>1 DEF Running
    <3>2. CASE sts # "EXITING"
      BY <1>1, <2>1, <2>3, <3>2 DEF Sound, Control, Running
    <3>3. QED
      BY <3>1, <3>2
  <2>5. Writing'
    <3>1. writer = "STS" <=> sts' = "LOCKED"
      BY <1>1 DEF Sound, Control, Writing
    <3>2. writer' = "STS" <=> writer = "STS"
      BY <1>1
    <3>3. writer' = "STS" => killSelf' = exec
      BY <1>1, <3>2 DEF Sound, Control, Writing
    <3>4. ASSUME writer' = "DUMP"
          PROVE  /\ sts' \in {"IDLE", "CPU", "UPGRADE", "DOWNGRADE"}
                 /\ state'[killSelf'] = "BLOCKED_DUMP"
      <4>1. writer = "DUMP" /\ exiting # killSelf /\ killSelf' = killSelf
        BY <1>1, <3>4
      <4>2. /\ sts \in {"IDLE", "CPU", "UPGRADE", "DOWNGRADE"}
            /\ state[killSelf] = "BLOCKED_DUMP"
        BY <4>1 DEF Sound, Control, Writing
      <4>3. state'[killSelf] = "BLOCKED_DUMP"
        BY <1>0, <1>3, <2>2, <4>1, <4>2
      <4>4. QED
        BY <1>1, <4>1, <4>2, <4>3
    <3>5. QED
      BY <1>1, <3>1, <3>2, <3>3, <3>4 DEF Writing
  <2>6. Calling'
    BY <1>1 DEF Sound, Control, Calling
  <2>7. Kills'
    <3>1. exec # NoThread => exec \in Thread
      BY DEF Types, StsTypes, ThreadOrNull
    <3>2. sts = "EXITING" => state'[exec] = "NULL"
      BY <1>0, <1>3 DEF Sound, Control, Running
    <3>3. QED
      BY <1>1, <2>3, <3>1, <3>2 DEF Sound, Control, Kills
  <2>8. QED
    BY <2>4, <2>5, <2>6, <2>7 DEF Control
<1>14. QED
  BY <1>9, <1>10, <1>11, <1>12, <1>13 DEF Sound

-----------------------------------------------------------------------------
(* Evictions and the scheduler                                             *)

LEMMA EvictedFacts ==
  ASSUME Types, Sound, Evicted
  PROVE  /\ exec \in Thread /\ exec[1] \in Processes /\ exec # NoThread
         /\ state[exec] = "EXEC" /\ exiting = NoThread /\ writer = "NONE"
         /\ sts = "CPU" /\ call = "NONE" /\ process[exec[1]] = "ALIVE"
<1>1. sts = "CPU" /\ writer = "NONE"
  BY DEF Evicted, CanRead
<1>2. exec \in Thread
  BY <1>1 DEF Types, StsTypes
<1>3. exec[1] \in Processes /\ exec # NoThread
  BY <1>2, ThreadFacts
<1>4. state[exec] = "EXEC" /\ exiting = NoThread /\ call = "NONE"
  BY <1>1 DEF Sound, Control, Running, Writing, Calling
<1>5. process[exec[1]] = "ALIVE"
  BY <1>2, <1>3, <1>4 DEF Sound, Procs, Populated, Exists
<1>6. QED
  BY <1>1, <1>2, <1>3, <1>4, <1>5

\* The running thread begins its exit.
LEMMA ExecExits ==
  ASSUME Types, Sound, exec \in Thread, state[exec] = "EXEC", exiting = NoThread,
         writer = "NONE", InsertStateExit(exec),
         sts' = "EXITING", redispatch' = FALSE, call' = "NONE",
         UNCHANGED <<priority, assigned, joinedBy, process, size, resource, ready,
                     exec, ioReady, ioExec, killExec, killSent, writer, killSelf>>
  PROVE  Sound'
<1>0. PICK x \in Thread : x = exec
  BY Zenon
<1>1. SameHeld /\ Moves(x, "EXIT") /\ exiting' = x
  BY <1>0, ExitBegins
<1>2. /\ state'[x] = "EXIT" /\ SameThreads /\ state[x] = "EXEC"
      /\ \A u \in Thread : u # x => state'[u] = state[u]
  BY <1>0, <1>1, MoveFacts
<1>3. Homes'
  <2>1. Waits' = Waits
    BY WaitsStay
  <2>2. HomeReady' /\ HomeJoin' /\ HomeMutex' /\ HomeIo'
    BY <1>1, <1>2, <2>1, HomesStay DEF Sound, Homes
  <2>3. Queued'
    BY QueuedStays DEF Sound, Homes
  <2>4. Singles'
    <3>1. \A u \in Thread : u # NoThread
      BY ThreadFacts
    <3>2. QED
      BY <1>0, <1>1, <1>2, <3>1 DEF Sound, Homes, Singles
  <2>5. QED
    BY <2>2, <2>3, <2>4 DEF Homes
<1>4. Joins'
  BY <1>2, JoinsStay DEF Sound
<1>5. Locks'
  BY <1>1, <1>2, LocksStay DEF Sound
<1>6. Procs'
  <2>1. SameMade
    BY DEF SameMade
  <2>2. QED
    BY <1>2, <2>1, ProcsStay DEF Sound
<1>7. Running'
  BY <1>0, <1>1, <1>2 DEF Sound, Homes, Singles, Running
<1>8. Writing' /\ Calling'
  BY <1>0, <1>1 DEF Writing, Calling
<1>9. Kills'
  BY DEF Sound, Control, Kills
<1>10. QED
  BY <1>3, <1>4, <1>5, <1>6, <1>7, <1>8, <1>9 DEF Sound, Control

LEMMA EvictExitStep ==
  ASSUME Types, Sound, Evicted, ExitExec,
         UNCHANGED <<priority, assigned, joinedBy, procVars, ready, exec, ioVars,
                     killVars>>
  PROVE  Sound'
<1>1. /\ exec \in Thread /\ state[exec] = "EXEC" /\ exiting = NoThread
      /\ writer = "NONE" /\ call = "NONE"
  BY EvictedFacts
<1>2. /\ InsertStateExit(exec) /\ sts' = "EXITING" /\ redispatch' = FALSE
      /\ UNCHANGED <<call, killExec, killSent>>
  BY DEF ExitExec
<1>3. UNCHANGED <<process, size, resource, ioReady, ioExec, writer, killSelf>>
  BY DEF procVars, ioVars, killVars
<1>4. QED
  BY <1>1, <1>2, <1>3, ExecExits

\* The handling of an eviction ends, with TCB_EXEC running or blocked.
LEMMA ControlContinues ==
  ASSUME Types, Sound, Evicted, ~killExec, NEW again \in BOOLEAN, Continue(again),
         UNCHANGED <<exec, writer, killSelf>>,
         \A u \in Thread : state'[u] = "EXEC" <=> (again /\ u = exec)
  PROVE  Control'
<1>1. /\ exec \in Thread /\ exiting = NoThread /\ writer = "NONE" /\ call = "NONE"
  BY EvictedFacts
<1>2. /\ sts' = "AFTER" /\ redispatch' = again
      /\ UNCHANGED <<call, killExec, killSent, exiting>>
  BY DEF Continue, exitVars
<1>3. Running'
  BY <1>1, <1>2 DEF Running
<1>4. Writing' /\ Calling'
  BY <1>1, <1>2 DEF Writing, Calling
<1>5. Kills'
  BY <1>2 DEF Sound, Control, Kills
<1>6. QED
  BY <1>3, <1>4, <1>5 DEF Control

LEMMA OnlyExec ==
  ASSUME Types, Sound, Evicted, NEW x \in Thread, x = exec
  PROVE  \A u \in Thread : state[u] = "EXEC" <=> u = x
BY EvictedFacts DEF Sound, Homes, Singles

LEMMA EvictQuantumStep ==
  ASSUME Types, Sound, EvictQuantum
  PROVE  Sound'
<1>0. PICK x \in Thread : x = exec
  BY EvictedFacts, Zenon DEF EvictQuantum
<1>1. /\ Evicted /\ ~killExec /\ InsertStateReady(x, priority[x]) /\ Continue(FALSE)
      /\ UNCHANGED <<priority, assigned, joinedBy, process, size, resource, exec,
                     ioReady, ioExec, writer, killSelf>>
      /\ UNCHANGED <<exiting, left>>
  BY <1>0 DEF EvictQuantum, Continue, procVars, ioVars, killVars, exitVars
<1>2. state[x] = "EXEC" /\ \A u \in Thread : state[u] = "EXEC" <=> u = x
  BY <1>0, <1>1, EvictedFacts, OnlyExec
<1>3. HomeReady' /\ Queued' /\ Moves(x, "READY")
  BY <1>1, <1>2, ReadyReturns DEF Sound, Homes
<1>4. /\ state'[x] = "READY" /\ SameThreads
      /\ \A u \in Thread : u # x => state'[u] = state[u]
  BY <1>2, <1>3, MoveFacts
<1>5. Waits' = Waits /\ SameHeld /\ SameMade
  BY <1>1, WaitsStay, HeldStays DEF SameMade
<1>6. HomeJoin' /\ HomeMutex' /\ HomeIo'
  BY <1>1, <1>2, <1>3, <1>5, HomesStay DEF Sound, Homes
<1>7. Singles'
  BY <1>1, <1>2, <1>4 DEF Sound, Homes, Singles
<1>8. Joins' /\ Locks' /\ Procs'
  BY <1>1, <1>4, <1>5, JoinsStay, LocksStay, ProcsStay DEF Sound
<1>9. Control'
  BY <1>0, <1>1, <1>2, <1>4, ControlContinues
<1>10. QED
  BY <1>3, <1>6, <1>7, <1>8, <1>9 DEF Sound, Homes

LEMMA QuantumExpiresStep ==
  ASSUME Types, Sound, QuantumExpires
  PROVE  Sound'
<1>1. /\ UNCHANGED <<tcbVars, procVars, ready, ioReady, ioExec, exec, exiting, left>>
      /\ UNCHANGED <<sts, call, target, redispatch, killExec, killSent, writer,
                     killSelf, state>>
  BY DEF QuantumExpires, ioVars, stsVars, killVars, exitVars, tcbVars
<1>2. Control'
  BY <1>1, ControlStays DEF Sound
<1>3. QED
  BY <1>1, <1>2, QuietStep DEF Sound

LEMMA DispatchStep ==
  ASSUME Types, Sound, Dispatch
  PROVE  Sound'
<1>1. PICK q \in Priority :
        LET t == Head(ready[q]) IN
        /\ CanRead /\ sts = "IDLE"
        /\ ready[q] # <<>>
        /\ ready' = [ready EXCEPT ![q] = Tail(@)]
        /\ state' = [state EXCEPT ![t] = "EXEC"]
        /\ exec' = t
        /\ killExec' = FALSE /\ killSent' = FALSE /\ expired' = FALSE
        /\ sts' = "CPU"
        /\ UNCHANGED <<priority, assigned, joinedBy, procVars, ioVars, call, target,
                       redispatch, killVars, exitVars>>
  BY Zenon DEF Dispatch
<1>2. ready \in [Priority -> Seq(Thread)]
  BY DEF Types, ReadyTypes
<1>3. /\ Head(ready[q]) \in In("READY") /\ Head(ready[q]) \in Thread
      /\ Houses([ready EXCEPT ![q] = Tail(@)], In("READY") \ {Head(ready[q])})
  BY <1>1, <1>2, HousesTail DEF Sound, Homes, HomeReady
<1>4. PICK x \in Thread : x = Head(ready[q])
  BY <1>3, Zenon
<1>5. state[x] = "READY" /\ Moves(x, "EXEC") /\ exec' = x
  BY <1>1, <1>3, <1>4 DEF In, Moves
<1>6. /\ state'[x] = "EXEC" /\ SameThreads
      /\ \A u \in Thread : u # x => state'[u] = state[u]
  BY <1>5, MoveFacts
<1>7. /\ UNCHANGED <<priority, assigned, joinedBy, process, size, resource, ioReady,
                     ioExec, call, target, redispatch>>
      /\ UNCHANGED <<writer, killSelf, exiting, left>>
      /\ sts = "IDLE" /\ sts' = "CPU" /\ writer = "NONE"
      /\ killSent' = FALSE
  BY <1>1, Zenon DEF procVars, ioVars, killVars, exitVars, CanRead
<1>8. HomeReady'
  <2>1. In("READY")' = In("READY") \ {x}
    BY <1>5, InMoves
  <2>2. QED
    BY <1>1, <1>3, <1>4, <2>1 DEF HomeReady
<1>9. Queued'
  <2> SUFFICES ASSUME NEW k \in Priority, NEW i \in DOMAIN ready'[k]
               PROVE  ReadyQueue(priority'[ready'[k][i]]) = k
    BY Zenon DEF Queued
  <2>1. \A j \in DOMAIN ready[k] : ReadyQueue(priority[ready[k][j]]) = k
    BY DEF Sound, Homes, Queued
  <2>2. CASE k # q
    <3>1. ready'[k] = ready[k]
      BY <1>1, <1>2, <2>2
    <3>2. QED
      BY <1>7, <2>1, <3>1
  <2>3. CASE k = q
    <3>1. ready'[k] = Tail(ready[k]) /\ ready[k] \in Seq(Thread) /\ ready[k] # <<>>
      BY <1>1, <1>2, <2>3
    <3>2. /\ Tail(ready[k]) \in Seq(Thread)
          /\ Len(Tail(ready[k])) = Len(ready[k]) - 1 /\ Len(ready[k]) \in Nat
          /\ \A j \in 1 .. Len(Tail(ready[k])) : Tail(ready[k])[j] = ready[k][j + 1]
      BY <3>1, HeadTailProperties, LenProperties
    <3>3. i + 1 \in DOMAIN ready[k] /\ ready'[k][i] = ready[k][i + 1]
      BY <3>1, <3>2
    <3>4. QED
      BY <1>7, <2>1, <3>3
  <2>4. QED
    BY <2>2, <2>3
<1>10. HomeJoin' /\ HomeMutex' /\ HomeIo'
  <2>1. Waits' = Waits
    BY <1>7, WaitsStay
  <2>2. QED
    BY <1>5, <1>7, <2>1, HomesStay DEF Sound, Homes
<1>11. \A u \in Thread : state[u] # "EXEC"
  BY <1>7 DEF Sound, Control, Running
<1>12. Singles'
  BY <1>5, <1>6, <1>7, <1>11 DEF Sound, Homes, Singles
<1>13. Joins' /\ Locks' /\ Procs'
  <2>1. SameHeld /\ SameMade
    BY <1>7, HeldStays DEF SameMade
  <2>2. exec' \in Thread /\ state[exec'] # "NULL"
    BY <1>5
  <2>3. QED
    BY <1>6, <1>7, <2>1, <2>2, JoinsStay, LocksStay, ProcsStay DEF Sound
<1>14. Control'
  <2>1. call = "NONE" /\ exiting = NoThread
    BY <1>7 DEF Sound, Control, Writing, Calling
  <2>2. Running'
    BY <1>5, <1>6, <1>7 DEF Running
  <2>3. Writing' /\ Calling' /\ Kills'
    BY <1>7, <2>1 DEF Writing, Calling, Kills
  <2>4. QED
    BY <2>2, <2>3 DEF Control
<1>15. QED
  BY <1>8, <1>9, <1>10, <1>12, <1>13, <1>14 DEF Sound, Homes

LEMMA AfterStep ==
  ASSUME Types, Sound, After
  PROVE  Sound'
<1>0. PICK x \in Thread : x = exec
  BY Zenon DEF After, Types, StsTypes
<1>1. /\ sts = "AFTER" /\ writer = "NONE" /\ exiting = NoThread /\ call = "NONE"
      /\ redispatch <=> state[x] = "EXEC"
      /\ redispatch' = FALSE
      /\ UNCHANGED <<priority, assigned, joinedBy, process, size, resource, exec,
                     ioReady, ioExec, call, killExec, writer, killSelf>>
      /\ UNCHANGED <<exiting, left>>
  BY <1>0 DEF After, CanRead, procVars, ioVars, killVars, exitVars, Sound, Control,
    Running, Writing, Calling
<1>2. \A u \in Thread : state[u] = "EXEC" => u = x
  BY <1>0 DEF Sound, Homes, Singles
<1>3. killSent => state[x] = "NULL"
  BY <1>0, <1>1 DEF Sound, Control, Kills
<1>4. Writing' /\ Calling'
  <2>1. sts' \in {"CPU", "IDLE"}
    BY DEF After
  <2>2. QED
    BY <1>1, <2>1 DEF Writing, Calling
<1>5. CASE UNCHANGED <<state, ready>>
  <2>1. Homes' /\ Joins' /\ Locks' /\ Procs'
    BY <1>1, <1>5, QuietStep DEF Sound, tcbVars, procVars
  <2>2. \/ redispatch /\ sts' = "CPU" /\ killSent' = FALSE
        \/ ~redispatch /\ sts' = "IDLE" /\ killSent' = killSent
        \/ redispatch /\ InsertStateReady(x, priority[x])
    BY <1>0 DEF After
  <2>3. ~ (redispatch /\ InsertStateReady(x, priority[x]))
    <3>1. ASSUME InsertStateReady(x, priority[x]) PROVE state'[x] = "READY"
      BY <3>1 DEF InsertStateReady, Types, TcbTypes
    <3>2. QED
      BY <1>1, <1>5, <3>1
  <2>4. Running' /\ Kills'
    BY <1>0, <1>1, <1>2, <1>5, <2>2, <2>3 DEF Running, Kills, Sound, Control
  <2>5. QED
    BY <1>4, <2>1, <2>4 DEF Sound, Control
<1>6. CASE ~ UNCHANGED <<state, ready>>
  <2>1. /\ redispatch /\ sts' = "IDLE" /\ killSent' = killSent
        /\ InsertStateReady(x, priority[x])
    BY <1>0, <1>6 DEF After
  <2>2. HomeReady' /\ Queued' /\ Moves(x, "READY") /\ state[x] = "EXEC"
    BY <1>1, <2>1, ReadyReturns DEF Sound, Homes
  <2>3. /\ state'[x] = "READY" /\ SameThreads
        /\ \A u \in Thread : u # x => state'[u] = state[u]
    BY <2>2, MoveFacts
  <2>4. Waits' = Waits /\ SameHeld /\ SameMade
    BY <1>1, WaitsStay, HeldStays DEF SameMade
  <2>5. HomeJoin' /\ HomeMutex' /\ HomeIo'
    BY <1>1, <2>2, <2>4, HomesStay DEF Sound, Homes
  <2>6. Singles'
    BY <1>1, <1>2, <2>2, <2>3 DEF Sound, Homes, Singles
  <2>7. Joins' /\ Locks' /\ Procs'
    BY <1>1, <2>3, <2>4, JoinsStay, LocksStay, ProcsStay DEF Sound
  <2>8. Running' /\ Kills'
    BY <1>1, <1>2, <1>3, <2>1, <2>2, <2>3 DEF Running, Kills
  <2>9. QED
    BY <1>4, <2>2, <2>5, <2>6, <2>7, <2>8 DEF Sound, Homes, Control
<1>7. QED
  BY <1>5, <1>6

LEMMA JoinLockedStep ==
  ASSUME Types, Sound, JoinLocked
  PROVE  Sound'
<1>0. PICK x \in Thread : x = exec
  BY Zenon DEF JoinLocked, Types, StsTypes
<1> DEFINE t == <<x[1], target>>
           blocks == Joinable(t)
<1>1. /\ sts = "UPGRADE" /\ call = "THREAD_JOIN" /\ writer = "NONE"
      /\ sts' = "DOWNGRADE" /\ redispatch' = ~blocks
      /\ IF blocks
         THEN /\ state' = [state EXCEPT ![x] = "BLOCKED_JOIN"]
              /\ joinedBy' = [joinedBy EXCEPT ![t] = Append(@, x)]
         ELSE UNCHANGED <<state, joinedBy>>
      /\ UNCHANGED <<priority, assigned, process, size, resource, ready, exec,
                     ioReady, ioExec, call, target, killExec, killSent>>
      /\ UNCHANGED <<writer, killSelf, exiting, left>>
  BY <1>0 DEF JoinLocked, CanWrite, CanRead, procVars, ioVars, killVars, exitVars
<1>2. /\ state[x] = "EXEC" /\ target # x[2] /\ exiting = NoThread /\ ~killSent
  BY <1>0, <1>1 DEF Sound, Control, Running, Writing, Calling, Kills
<1>3. t \in Thread /\ t # x /\ t[1] = x[1]
  BY <1>2, ThreadFacts DEF Types, StsTypes
<1>4. \A u \in Thread : state[u] = "EXEC" <=> u = x
  BY <1>0, <1>2 DEF Sound, Homes, Singles
<1>5. Writing' /\ Calling' /\ Kills'
  BY <1>1, <1>2 DEF Writing, Calling, Kills
<1> HIDE DEF t
<1>6. CASE ~blocks
  <2>1. Homes' /\ Joins' /\ Locks' /\ Procs'
    BY <1>1, <1>6, QuietStep DEF Sound, tcbVars, procVars
  <2>2. Running'
    BY <1>0, <1>1, <1>2, <1>6 DEF Running
  <2>3. QED
    BY <1>5, <2>1, <2>2 DEF Sound, Control
<1>7. CASE blocks
  <2>1. /\ Moves(x, "BLOCKED_JOIN") /\ joinedBy' = [joinedBy EXCEPT ![t] = Append(@, x)]
        /\ state[t] # "NULL"
    BY <1>1, <1>7 DEF Moves, Joinable, Exists
  <2>2. /\ state'[x] = "BLOCKED_JOIN" /\ SameThreads
        /\ \A u \in Thread : u # x => state'[u] = state[u]
    BY <1>2, <2>1, MoveFacts
  <2>3. joinedBy \in [Thread -> Seq(Thread)]
    BY DEF Types, TcbTypes
  <2>4. HomeJoin'
    <3>1. In("BLOCKED_JOIN")' = In("BLOCKED_JOIN") \cup {x} /\ x \notin In("BLOCKED_JOIN")
      BY <1>2, <2>1, InMoves DEF In
    <3>2. Houses([joinedBy EXCEPT ![t] = Append(@, x)], In("BLOCKED_JOIN") \cup {x})
      BY <1>3, <2>3, <3>1, HousesAppend DEF Sound, Homes, HomeJoin
    <3>3. QED
      BY <2>1, <3>1, <3>2 DEF HomeJoin
  <2>5. Waits' = Waits /\ SameHeld /\ SameMade
    BY <1>1, WaitsStay, HeldStays DEF SameMade
  <2>6. HomeReady' /\ Queued' /\ HomeMutex' /\ HomeIo'
    BY <1>1, <1>2, <2>1, <2>5, HomesStay, QueuedStays DEF Sound, Homes
  <2>7. Singles'
    BY <1>1, <1>2, <2>2 DEF Sound, Homes, Singles
  <2>8. Joins'
    <3>1. ASSUME NEW u \in Thread
          PROVE  /\ \A i \in DOMAIN joinedBy'[u] :
                      joinedBy'[u][i][1] = u[1] /\ joinedBy'[u][i] # u
                 /\ state'[u] = "NULL" => joinedBy'[u] = <<>>
      <4>1. /\ \A i \in DOMAIN joinedBy[u] :
                 joinedBy[u][i][1] = u[1] /\ joinedBy[u][i] # u
            /\ state[u] = "NULL" => joinedBy[u] = <<>>
            /\ joinedBy[u] \in Seq(Thread)
        BY <2>3 DEF Sound, Joins
      <4>2. state'[u] = "NULL" <=> state[u] = "NULL"
        BY <2>2 DEF SameThreads
      <4>3. CASE u # t
        <5>1. joinedBy'[u] = joinedBy[u]
          BY <2>1, <2>3, <4>3
        <5>2. QED
          BY <4>1, <4>2, <5>1
      <4>4. CASE u = t
        <5>1. joinedBy'[u] = Append(joinedBy[u], x)
          BY <2>1, <2>3, <4>4
        <5>2. \A i \in DOMAIN joinedBy'[u] :
                joinedBy'[u][i] = x
                  \/ (i \in DOMAIN joinedBy[u] /\ joinedBy'[u][i] = joinedBy[u][i])
          BY <4>1, <5>1
        <5>3. QED
          BY <1>3, <2>1, <4>1, <4>2, <4>4, <5>2
      <4>5. QED
        BY <4>3, <4>4
    <3>2. QED
      BY <3>1, Zenon DEF Joins
  <2>9. Locks' /\ Procs'
    BY <1>1, <2>2, <2>5, LocksStay, ProcsStay DEF Sound
  <2>10. Running'
    BY <1>0, <1>1, <1>7, <2>2 DEF Running
  <2>11. QED
    BY <1>5, <2>4, <2>6, <2>7, <2>8, <2>9, <2>10 DEF Sound, Homes, Control
<1>8. QED
  BY <1>6, <1>7

LEMMA KillLockedStep ==
  ASSUME Types, Sound, KillLocked
  PROVE  Sound'
<1>0. PICK x \in Thread : x = exec
  BY Zenon DEF KillLocked, Types, StsTypes
<1>1. /\ sts = "UPGRADE" /\ call \in {"PROCESS_EXIT", "THREAD_CANCEL"}
      /\ writer = "NONE" /\ sts' = "LOCKED" /\ redispatch' = TRUE
      /\ writer' = "STS" /\ killSelf' = x
      /\ UNCHANGED <<tcbVars, procVars, ready, ioReady, ioExec, exec, exiting, left>>
      /\ UNCHANGED <<state, call, target, killExec, killSent>>
  BY <1>0 DEF KillLocked, CanWrite, CanRead, ioVars, exitVars, tcbVars
<1>2. /\ state[x] = "EXEC" /\ exiting = NoThread
  BY <1>0, <1>1 DEF Sound, Control, Running, Writing
<1>3. Running' /\ Writing' /\ Calling'
  BY <1>0, <1>1, <1>2 DEF Running, Writing, Calling
<1>4. Kills'
  BY <1>1 DEF Sound, Control, Kills
<1>5. QED
  BY <1>1, <1>3, <1>4, QuietStep DEF Sound, Control

LEMMA KillUnlockedStep ==
  ASSUME Types, Sound, KillUnlocked
  PROVE  Sound'
<1>1. /\ writer = "STS" /\ exiting = NoThread /\ sts = "LOCKED"
      /\ writer' = "NONE" /\ sts' = "DOWNGRADE"
      /\ UNCHANGED <<tcbVars, procVars, ready, ioReady, ioExec, exec, exiting, left>>
      /\ UNCHANGED <<state, call, target, redispatch, killExec, killSent>>
  BY DEF KillUnlocked, ioVars, exitVars, tcbVars, Sound, Control, Writing
<1>2. /\ state[exec] = "EXEC" /\ redispatch /\ call # "THREAD_JOIN" /\ call # "NONE"
  BY <1>1 DEF Sound, Control, Running, Calling
<1>3. Running' /\ Writing' /\ Calling'
  BY <1>1, <1>2 DEF Running, Writing, Calling
<1>4. Kills'
  BY <1>1 DEF Sound, Control, Kills
<1>5. QED
  BY <1>1, <1>3, <1>4, QuietStep DEF Sound, Control

LEMMA DowngradeStep ==
  ASSUME Types, Sound, Downgrade
  PROVE  Sound'
<1>1. /\ sts = "DOWNGRADE" /\ writer = "NONE" /\ call' = "NONE" /\ exiting = NoThread
      /\ exec \in Thread
      /\ UNCHANGED <<priority, assigned, joinedBy, process, size, resource, ready,
                     exec, ioReady, ioExec, killExec, killSent, writer, killSelf>>
  BY DEF Downgrade, CanRead, procVars, ioVars, killVars, Types, StsTypes, Sound,
    Control, Writing
<1>2. CASE call = "PROCESS_EXIT"
  <2>1. InsertStateExit(exec) /\ sts' = "EXITING" /\ redispatch' = FALSE
    BY <1>2 DEF Downgrade
  <2>2. state[exec] = "EXEC"
    BY <1>1, <1>2 DEF Sound, Control, Running, Calling
  <2>3. QED
    BY <1>1, <2>1, <2>2, ExecExits
<1>3. CASE call # "PROCESS_EXIT"
  <2>1. sts' = "AFTER" /\ UNCHANGED <<state, redispatch, exiting, left>>
    BY <1>3 DEF Downgrade
  <2>2. Homes' /\ Joins' /\ Locks' /\ Procs'
    BY <1>1, <2>1, QuietStep DEF Sound, tcbVars, procVars
  <2>3. Running' /\ Writing' /\ Calling'
    BY <1>1, <2>1 DEF Sound, Control, Running, Writing, Calling
  <2>4. Kills'
    BY <1>1, <1>3, <2>1 DEF Sound, Control, Kills
  <2>5. QED
    BY <2>2, <2>3, <2>4 DEF Sound, Control
<1>4. QED
  BY <1>2, <1>3

-----------------------------------------------------------------------------
(* System calls                                                            *)

\* TCB_EXEC leaves the CPU for a list.
LEMMA ExecLeaves ==
  ASSUME Types, Sound, Syscall, Continue(FALSE), NEW x \in Thread, x = exec,
         NEW b \in {"BLOCKED_MUTEX", "BLOCKED_DUMP", "BLOCKED_IO_READY"}, Moves(x, b),
         UNCHANGED <<exec, writer, killSelf, ioExec>>
  PROVE  /\ Control' /\ Singles' /\ SameThreads /\ state[x] = "EXEC"
         /\ state'[x] = b /\ \A u \in Thread : u # x => state'[u] = state[u]
<1>1. Evicted /\ ~killExec
  BY DEF Syscall
<1>2. state[x] = "EXEC" /\ \A u \in Thread : state[u] = "EXEC" <=> u = x
  BY <1>1, EvictedFacts, OnlyExec
<1>3. /\ state'[x] = b /\ SameThreads
      /\ \A u \in Thread : u # x => state'[u] = state[u]
  BY <1>2, MoveFacts
<1>4. Control'
  BY <1>1, <1>2, <1>3, ControlContinues
<1>5. Singles'
  BY <1>2, <1>3 DEF Sound, Homes, Singles, Continue, exitVars
<1>6. QED
  BY <1>2, <1>3, <1>4, <1>5

LEMMA DumpMemoryStep ==
  ASSUME Types, Sound, DumpMemory
  PROVE  Sound'
<1>0. PICK x \in Thread : x = exec
  BY EvictedFacts, Zenon DEF DumpMemory, Syscall
<1>1. /\ Syscall /\ Continue(FALSE) /\ Moves(x, "BLOCKED_DUMP")
      /\ UNCHANGED <<priority, assigned, joinedBy, process, size, resource, ready,
                     exec, ioReady, ioExec, writer, killSelf>>
      /\ UNCHANGED <<exiting, left>>
  BY <1>0 DEF DumpMemory, Continue, procVars, ioVars, killVars, exitVars, Moves
<1>2. /\ Control' /\ Singles' /\ SameThreads /\ state[x] = "EXEC"
  BY <1>0, <1>1, ExecLeaves
<1>3. Waits' = Waits /\ SameHeld /\ SameMade
  BY <1>1, WaitsStay, HeldStays DEF SameMade
<1>4. HomeReady' /\ Queued' /\ HomeJoin' /\ HomeMutex' /\ HomeIo'
  BY <1>1, <1>2, <1>3, HomesStay, QueuedStays DEF Sound, Homes
<1>5. Joins' /\ Locks' /\ Procs'
  BY <1>1, <1>2, <1>3, JoinsStay, LocksStay, ProcsStay DEF Sound
<1>6. QED
  BY <1>2, <1>4, <1>5 DEF Sound, Homes

LEMMA IoStep ==
  ASSUME Types, Sound, Io
  PROVE  Sound'
<1>0. PICK x \in Thread : x = exec
  BY EvictedFacts, Zenon DEF Io, Syscall
<1>1. /\ Syscall /\ Continue(FALSE) /\ Moves(x, "BLOCKED_IO_READY")
      /\ ioReady' = Append(ioReady, x)
      /\ UNCHANGED <<priority, assigned, joinedBy, process, size, resource, ready,
                     exec, ioExec, writer, killSelf>>
      /\ UNCHANGED <<exiting, left>>
  BY <1>0 DEF Io, InsertStateBlockedIoReady, Continue, procVars, killVars, exitVars,
    Moves
<1>2. /\ Control' /\ Singles' /\ SameThreads /\ state[x] = "EXEC"
  BY <1>0, <1>1, ExecLeaves
<1>3. Waits' = Waits /\ SameHeld /\ SameMade
  BY <1>1, WaitsStay, HeldStays DEF SameMade
<1>4. HomeReady' /\ Queued' /\ HomeJoin' /\ HomeMutex'
  BY <1>1, <1>2, <1>3, HomesStay, QueuedStays DEF Sound, Homes
<1>5. HomeIo'
  <2> DEFINE S == In("BLOCKED_IO_READY")
  <2>1. ioReady \in Seq(Thread) /\ Houses(<<ioReady>>, S)
    BY DEF Types, IoTypes, Sound, Homes, HomeIo
  <2>2. S' = S \cup {x} /\ x \notin S
    BY <1>1, <1>2, InMoves DEF In
  <2> HIDE DEF S
  <2>3. /\ <<ioReady>> \in [1 .. 1 -> Seq(Thread)] /\ 1 \in 1 .. 1
        /\ <<ioReady>>[1] = ioReady
        /\ [<<ioReady>> EXCEPT ![1] = Append(ioReady, x)] = <<Append(ioReady, x)>>
    BY <2>1, ListAlone
  <2>4. Houses([<<ioReady>> EXCEPT ![1] = Append(@, x)], S \cup {x})
    BY <2>1, <2>2, <2>3, HousesAppend
  <2>5. Houses(<<ioReady'>>, S')
    BY <1>1, <2>2, <2>3, <2>4
  <2>6. QED
    BY <2>5 DEF HomeIo, S
<1>6. Joins' /\ Locks' /\ Procs'
  BY <1>1, <1>2, <1>3, JoinsStay, LocksStay, ProcsStay DEF Sound
<1>7. QED
  BY <1>2, <1>4, <1>5, <1>6 DEF Sound, Homes

LEMMA SelfJoinStep ==
  ASSUME Types, Sound, SelfJoin
  PROVE  Sound'
<1>0. PICK x \in Thread : x = exec
  BY EvictedFacts, Zenon DEF SelfJoin, Syscall
<1>1. /\ Evicted /\ ~killExec /\ Continue(TRUE)
      /\ UNCHANGED <<tcbVars, procVars, ready, ioReady, ioExec, exec, exiting, left>>
      /\ UNCHANGED <<state, writer, killSelf>>
  BY DEF SelfJoin, Syscall, Continue, ioVars, killVars, exitVars, tcbVars
<1>2. \A u \in Thread : state'[u] = "EXEC" <=> u = x
  BY <1>0, <1>1, OnlyExec
<1>3. Control'
  BY <1>0, <1>1, <1>2, ControlContinues
<1>4. QED
  BY <1>1, <1>3, QuietStep DEF Sound

\* The read lock is given up; a KILL is only then sent for PROCESS_EXIT.
LEMMA GiveUpStep ==
  ASSUME Types, Sound, Evicted, NEW name, NEW tid, GiveUpRead(name, tid),
         \/ name = "PROCESS_EXIT"
         \/ name \in {"THREAD_JOIN", "THREAD_CANCEL"} /\ tid # exec[2] /\ ~killExec
  PROVE  Sound'
<1>1. /\ sts' = "UPGRADE" /\ call' = name /\ target' = tid
      /\ UNCHANGED <<tcbVars, procVars, ready, ioReady, ioExec, exec, exiting, left>>
      /\ UNCHANGED <<state, redispatch, killExec, killSent, writer, killSelf>>
  BY DEF GiveUpRead, ioVars, killVars, exitVars, tcbVars
<1>2. state[exec] = "EXEC" /\ exiting = NoThread /\ writer = "NONE" /\ exec # NoThread
  BY EvictedFacts
<1>3. Running' /\ Writing' /\ Calling'
  BY <1>1, <1>2 DEF Running, Writing, Calling
<1>4. Kills'
  BY <1>1, <1>2 DEF Sound, Control, Kills
<1>5. QED
  BY <1>1, <1>3, <1>4, QuietStep DEF Sound, Control

LEMMA WindowStep ==
  ASSUME Types, Sound, ProcessExit \/ \E tid \in 0 .. MaxTid : WindowCall(tid)
  PROVE  Sound'
<1>1. CASE ProcessExit
  BY <1>1, GiveUpStep, Zenon DEF ProcessExit
<1>2. ASSUME NEW tid \in 0 .. MaxTid, WindowCall(tid) PROVE Sound'
  <2>1. PICK name \in {"THREAD_JOIN", "THREAD_CANCEL"} :
          Syscall /\ tid # exec[2] /\ GiveUpRead(name, tid)
    BY <1>2, Zenon DEF WindowCall, ThreadJoin, ThreadCancel
  <2>2. Evicted /\ ~killExec
    BY <2>1 DEF Syscall
  <2>3. QED
    BY <2>1, <2>2, GiveUpStep, Zenon
<1>3. QED
  BY <1>1, <1>2

-----------------------------------------------------------------------------
(* The long-term scheduler, the IO device and the dump petitioners         *)

\* A thread the device or a petitioner had goes back to READY.
LEMMA AnswerStep ==
  ASSUME Types, Sound, NEW t \in Thread, InsertStateReady(t, priority[t]), writer = "NONE",
         \/ state[t] = "BLOCKED_DUMP" /\ ioExec' = ioExec
         \/ state[t] = "BLOCKED_IO_EXEC" /\ ioExec' = NoThread,
         UNCHANGED <<priority, assigned, joinedBy, procVars, exec, ioReady,
                     stsVars, killVars, exitVars>>
  PROVE  Sound'
<1>1. /\ UNCHANGED <<process, size, resource, exiting, left, writer, killSelf>>
      /\ UNCHANGED <<sts, call, target, redispatch, killExec, killSent>>
  BY DEF procVars, exitVars, killVars, stsVars
<1>2. /\ HomeReady' /\ Queued' /\ Control' /\ SameThreads
      /\ Moves(t, "READY") /\ state'[t] = "READY"
      /\ \A u \in Thread : u # t => state'[u] = state[u]
  BY <1>1, Wakes DEF BlockedStates
<1>3. Waits' = Waits /\ SameHeld /\ SameMade
  BY <1>1, WaitsStay, HeldStays DEF SameMade
<1>4. HomeJoin' /\ HomeMutex' /\ HomeIo'
  BY <1>2, <1>3, HomesStay DEF Sound, Homes
<1>5. Singles'
  BY <1>1, <1>2, ThreadFacts DEF Sound, Homes, Singles
<1>6. Joins' /\ Locks' /\ Procs'
  BY <1>1, <1>2, <1>3, JoinsStay, LocksStay, ProcsStay DEF Sound
<1>7. QED
  BY <1>2, <1>4, <1>5, <1>6 DEF Sound, Homes

LEMMA DumpOkStep ==
  ASSUME Types, Sound, NEW t \in Thread, DumpOk(t)
  PROVE  Sound'
<1>1. /\ InsertStateReady(t, priority[t]) /\ writer = "NONE"
      /\ state[t] = "BLOCKED_DUMP" /\ UNCHANGED <<ioExec, ioReady>>
      /\ UNCHANGED <<priority, assigned, joinedBy, procVars, exec, stsVars,
                     killVars, exitVars>>
  BY DEF DumpOk, CanRead, ioVars
<1>2. QED
  BY <1>1, AnswerStep

LEMMA DumpFailsStep ==
  ASSUME Types, Sound, NEW t \in Thread, DumpFails(t)
  PROVE  Sound'
<1>1. /\ writer = "NONE" /\ sts \in {"IDLE", "CPU", "UPGRADE", "DOWNGRADE"}
      /\ state[t] = "BLOCKED_DUMP" /\ writer' = "DUMP" /\ killSelf' = t
      /\ UNCHANGED <<tcbVars, procVars, ready, ioReady, ioExec, exec, exiting, left>>
      /\ UNCHANGED <<state, sts, call, target, redispatch, killExec, killSent>>
  BY DEF DumpFails, CanWrite, CanRead, ioVars, exitVars, stsVars, tcbVars
<1>2. Running' /\ Writing' /\ Calling'
  BY <1>1 DEF Sound, Control, Running, Writing, Calling
<1>3. Kills'
  BY <1>1 DEF Sound, Control, Kills
<1>4. QED
  BY <1>1, <1>2, <1>3, QuietStep DEF Sound, Control

LEMMA DumpExitStep ==
  ASSUME Types, Sound, DumpExit
  PROVE  Sound'
<1>0. PICK x \in Thread : x = killSelf
  BY Zenon DEF DumpExit, Types, KillTypes
<1>1. /\ writer = "DUMP" /\ exiting = NoThread /\ InsertStateExit(x)
      /\ UNCHANGED <<priority, assigned, joinedBy, process, size, resource, ready,
                     exec, ioReady, ioExec, writer, killSelf>>
      /\ UNCHANGED <<sts, call, target, redispatch, killExec, killSent>>
  BY <1>0 DEF DumpExit, procVars, ioVars, killVars, stsVars
<1>2. /\ state[x] = "BLOCKED_DUMP" /\ sts \in {"IDLE", "CPU", "UPGRADE", "DOWNGRADE"}
  <2>1. x # NoThread
    BY ThreadFacts
  <2>2. QED
    BY <1>0, <1>1, <2>1 DEF Sound, Control, Writing
<1>3. SameHeld /\ Moves(x, "EXIT") /\ exiting' = x
  BY <1>1, ExitBegins
<1>4. /\ state'[x] = "EXIT" /\ SameThreads
      /\ \A u \in Thread : u # x => state'[u] = state[u]
  BY <1>2, <1>3, MoveFacts
<1>5. Waits' = Waits /\ SameMade
  BY <1>1, WaitsStay DEF SameMade
<1>6. HomeReady' /\ Queued' /\ HomeJoin' /\ HomeMutex' /\ HomeIo'
  BY <1>1, <1>2, <1>3, <1>5, HomesStay, QueuedStays DEF Sound, Homes
<1>7. Singles'
  BY <1>1, <1>2, <1>3, <1>4, ThreadFacts DEF Sound, Homes, Singles
<1>8. Joins' /\ Locks' /\ Procs'
  BY <1>1, <1>3, <1>4, <1>5, JoinsStay, LocksStay, ProcsStay DEF Sound
<1>9. Control'
  <2>1. sts # "IDLE" => exec \in Thread
    BY DEF Types, StsTypes
  <2>2. Running'
    BY <1>1, <1>2, <1>4, <2>1 DEF Sound, Control, Running
  <2>3. Writing' /\ Calling'
    BY <1>0, <1>1, <1>2, <1>3 DEF Sound, Control, Writing, Calling
  <2>4. Kills'
    <3>1. exec # NoThread => exec \in Thread
      BY DEF Types, StsTypes, ThreadOrNull
    <3>2. QED
      BY <1>1, <1>2, <1>4, <3>1 DEF Sound, Control, Kills
  <2>5. QED
    BY <2>2, <2>3, <2>4 DEF Control
<1>10. QED
  BY <1>6, <1>7, <1>8, <1>9 DEF Sound, Homes

LEMMA IoEndStep ==
  ASSUME Types, Sound, IoEnd
  PROVE  Sound'
<1>1. /\ writer = "NONE" /\ ioExec' = NoThread
      /\ UNCHANGED <<priority, assigned, joinedBy, procVars, exec, ioReady,
                     stsVars, killVars, exitVars>>
  BY DEF IoEnd, CanRead
<1>2. CASE ioExec = NoThread
  <2>1. UNCHANGED <<state, ready, ioExec>>
    BY <1>1, <1>2 DEF IoEnd
  <2>2. /\ UNCHANGED <<tcbVars, procVars, ready, ioReady, ioExec, exec, exiting, left>>
        /\ UNCHANGED <<sts, call, target, redispatch, killExec, killSent, writer,
                       killSelf>>
    BY <1>1, <2>1 DEF tcbVars, exitVars, stsVars, killVars
  <2>3. Control'
    BY <2>1, <2>2, ControlStays DEF Sound, exitVars
  <2>4. QED
    BY <2>2, <2>3, QuietStep DEF Sound
<1>3. CASE ioExec # NoThread
  <2>1. PICK x \in Thread : x = ioExec
    BY <1>3, Zenon DEF Types, IoTypes, ThreadOrNull
  <2>2. state[x] = "BLOCKED_IO_EXEC" /\ InsertStateReady(x, priority[x])
    BY <1>3, <2>1 DEF IoEnd, Sound, Homes, Singles
  <2>3. QED
    BY <1>1, <2>2, AnswerStep
<1>4. QED
  BY <1>2, <1>3

LEMMA IoBeginStep ==
  ASSUME Types, Sound, IoBegin
  PROVE  Sound'
<1>1. /\ writer = "NONE" /\ device = "IDLE"
      /\ UNCHANGED <<priority, assigned, joinedBy, procVars, exec, ready,
                     stsVars, killVars, exitVars>>
      /\ UNCHANGED <<process, size, resource, exiting, left, writer, killSelf>>
      /\ UNCHANGED <<sts, call, target, redispatch, killExec, killSent>>
  BY DEF IoBegin, CanRead, procVars, exitVars, killVars, stsVars
<1>2. CASE ioReady = <<>>
  <2>1. /\ UNCHANGED <<tcbVars, procVars, ready, ioReady, ioExec, exec, exiting, left>>
        /\ UNCHANGED state
    BY <1>1, <1>2 DEF IoBegin, tcbVars
  <2>2. Control'
    BY <1>1, <2>1, ControlStays DEF Sound
  <2>3. QED
    BY <2>1, <2>2, QuietStep DEF Sound
<1>3. CASE ioReady # <<>>
  <2> DEFINE S == In("BLOCKED_IO_READY")
  <2>1. /\ ioReady \in Seq(Thread) /\ Houses(<<ioReady>>, S)
        /\ <<ioReady>> \in [1 .. 1 -> Seq(Thread)] /\ 1 \in 1 .. 1
        /\ <<ioReady>>[1] = ioReady
        /\ [<<ioReady>> EXCEPT ![1] = Tail(ioReady)] = <<Tail(ioReady)>>
    BY ListAlone DEF Types, IoTypes, Sound, Homes, HomeIo
  <2>2. /\ Head(ioReady) \in S /\ Head(ioReady) \in Thread
        /\ Houses(<<Tail(ioReady)>>, S \ {Head(ioReady)})
    <3> HIDE DEF S
    <3>1. /\ Head(<<ioReady>>[1]) \in S /\ Head(<<ioReady>>[1]) \in Thread
          /\ Houses([<<ioReady>> EXCEPT ![1] = Tail(@)], S \ {Head(<<ioReady>>[1])})
      BY <1>3, <2>1, HousesTail
    <3>2. QED
      BY <2>1, <3>1
  <2>3. PICK x \in Thread : x = Head(ioReady)
    BY <2>2, Zenon
  <2>4. /\ Moves(x, "BLOCKED_IO_EXEC") /\ ioExec' = x /\ ioReady' = Tail(ioReady)
        /\ state[x] = "BLOCKED_IO_READY"
    BY <1>3, <2>2, <2>3 DEF IoBegin, Moves, In
  <2>5. /\ state'[x] = "BLOCKED_IO_EXEC" /\ SameThreads
        /\ \A u \in Thread : u # x => state'[u] = state[u]
    BY <2>4, MoveFacts
  <2>6. Waits' = Waits /\ SameHeld /\ SameMade
    BY <1>1, WaitsStay, HeldStays DEF SameMade
  <2>7. HomeReady' /\ Queued' /\ HomeJoin' /\ HomeMutex'
    BY <1>1, <2>4, <2>6, HomesStay, QueuedStays DEF Sound, Homes
  <2>8. HomeIo'
    <3>1. S' = S \ {x}
      BY <2>4, InMoves
    <3> HIDE DEF S
    <3>2. Houses(<<ioReady'>>, S')
      BY <2>2, <2>3, <2>4, <3>1
    <3>3. QED
      BY <3>2 DEF HomeIo, S
  <2>9. Singles'
    <3>1. ioExec = NoThread
      BY <1>1 DEF Types, IoTypes, IoCounted
    <3>2. \A u \in Thread : u # NoThread
      BY ThreadFacts
    <3>3. \A u \in Thread : state[u] # "BLOCKED_IO_EXEC"
      BY <3>1, <3>2 DEF Sound, Homes, Singles
    <3>4. QED
      BY <1>1, <2>4, <2>5, <3>3 DEF Sound, Homes, Singles
  <2>10. Joins' /\ Locks' /\ Procs'
    BY <1>1, <2>5, <2>6, JoinsStay, LocksStay, ProcsStay DEF Sound
  <2>11. Control'
    BY <1>1, <2>4, <2>5, ControlStays DEF Sound
  <2>12. QED
    BY <2>7, <2>8, <2>9, <2>10, <2>11 DEF Sound, Homes
<1>4. QED
  BY <1>2, <1>3

-----------------------------------------------------------------------------
(* Threads are born                                                        *)

\* The next thread of a process that has none or is alive
LEMMA ThreadBorn ==
  ASSUME Types, Sound, NEW t \in Thread, state[t] = "NULL", t[2] = size[t[1]],
         NEW b \in {"READY", "NEW"}, Moves(t, b),
         process'[t[1]] = "ALIVE", size'[t[1]] = size[t[1]] + 1,
         \A q \in Processes : q # t[1] => process'[q] = process[q] /\ size'[q] = size[q],
         UNCHANGED <<assigned, joinedBy, resource, exec, ioReady, ioExec, exiting, left>>
  PROVE  HomeJoin' /\ HomeMutex' /\ HomeIo' /\ Singles' /\ Joins' /\ Locks' /\ Procs'
<1>1. /\ state'[t] = b /\ \A u \in Thread : u # t => state'[u] = state[u]
  BY MoveFacts
<1>2. Waits' = Waits /\ SameHeld
  BY WaitsStay, HeldStays
<1>3. HomeJoin' /\ HomeMutex' /\ HomeIo'
  BY <1>2, HomesStay DEF Sound, Homes
<1>4. Singles'
  BY <1>1 DEF Sound, Homes, Singles
<1>5. Joins'
  BY <1>1 DEF Sound, Joins
<1>6. Locks'
  <2>1. Bare'
    BY <1>1 DEF Sound, Locks, Bare
  <2>2. ASSUME NEW p \in Processes, NEW m \in Mutexes PROVE Lock(p, m)'
    BY <1>2, LockStays DEF Sound, Locks, SameHeld
  <2>3. QED
    BY <2>1, <2>2, Zenon DEF Locks
<1>7. Procs'
  <2>1. t[1] \in Processes
    BY ThreadFacts
  <2>2. Populated'
    <3>1. ASSUME NEW p \in Processes
          PROVE  process'[p] = "ALIVE" <=> \E u \in Thread : u[1] = p /\ state'[u] # "NULL"
      <4>1. CASE p = t[1]
        BY <1>1, <4>1
      <4>2. CASE p # t[1]
        <5>1. process[p] = "ALIVE" <=> \E u \in Thread : u[1] = p /\ state[u] # "NULL"
          BY DEF Sound, Procs, Populated, Exists
        <5>2. \A u \in Thread : u[1] = p => state'[u] = state[u]
          BY <1>1, <4>2
        <5>3. process'[p] = process[p]
          BY <4>2
        <5>4. QED
          BY <5>1, <5>2, <5>3
      <4>3. QED
        BY <4>1, <4>2
    <3>2. QED
      BY <3>1, Zenon DEF Populated, Exists
  <2>3. \A p \in Processes : size[p] \in 0 .. MaxTid + 1
    BY DEF Types, ProcTypes
  <2>4. \A u \in Thread : u[1] \in Processes /\ u[2] \in 0 .. MaxTid
    BY ThreadFacts
  <2>5. Numbered'
    <3>1. ASSUME NEW u \in Thread, u[2] >= size'[u[1]] PROVE state'[u] = "NULL"
      <4>1. u # t /\ u[2] >= size[u[1]]
        BY <2>1, <2>3, <2>4, <3>1
      <4>2. QED
        BY <1>1, <4>1 DEF Sound, Procs, Numbered
    <3>2. ASSUME NEW p \in Processes, process'[p] = "NONE" PROVE size'[p] = 0
      BY <3>2 DEF Sound, Procs, Numbered
    <3>3. ASSUME exec # NoThread PROVE exec[2] < size'[exec[1]]
      <4>1. exec[2] < size[exec[1]] /\ exec \in Thread
        BY <3>3 DEF Sound, Procs, Numbered, Types, StsTypes, ThreadOrNull
      <4>2. QED
        BY <2>1, <2>3, <2>4, <4>1
    <3>4. QED
      BY <3>1, <3>2, <3>3 DEF Numbered
  <2>6. Unmade'
    BY DEF Sound, Procs, Unmade
  <2>7. QED
    BY <2>2, <2>5, <2>6 DEF Procs
<1>8. QED
  BY <1>3, <1>4, <1>5, <1>6, <1>7

LEMMA AdmitProcessStep ==
  ASSUME Types, Sound, NEW p \in Processes, NEW prio \in Priority, AdmitProcess(p, prio)
  PROVE  Sound'
<1>1. PICK t \in Thread : t = <<p, 0>>
  <2>1. 0 \in 0 .. MaxTid
    BY KernelThreadsAssumption
  <2>2. QED
    BY <2>1, ThreadFacts
<1>2. /\ writer = "NONE" /\ process[p] = "NONE"
      /\ process' = [process EXCEPT ![p] = "ALIVE"]
      /\ size' = [size EXCEPT ![p] = 1]
      /\ priority' = [priority EXCEPT ![t] = prio]
      /\ InsertStateReady(t, prio)
      /\ UNCHANGED <<assigned, joinedBy, resource, exec, ioReady, ioExec, exiting, left>>
      /\ UNCHANGED <<sts, call, target, redispatch, killExec, killSent, writer,
                     killSelf>>
  BY <1>1 DEF AdmitProcess, CanRead, ioVars, exitVars, stsVars, killVars
<1>3. t[1] = p /\ t[2] = 0 /\ size[p] = 0
  BY <1>1, <1>2 DEF Sound, Procs, Numbered
<1>4. state[t] = "NULL"
  <2>1. t[2] >= size[t[1]]
    BY <1>3
  <2>2. QED
    BY <2>1 DEF Sound, Procs, Numbered
<1>5. priority'[t] = prio /\ \A u \in Thread : u # t => priority'[u] = priority[u]
  BY <1>2 DEF Types, TcbTypes
<1>6. HomeReady' /\ Queued' /\ Moves(t, "READY")
  BY <1>2, <1>4, <1>5, ReadyEnters DEF Sound, Homes
<1>7. /\ process'[p] = "ALIVE" /\ size'[p] = size[p] + 1
      /\ \A q \in Processes : q # p => process'[q] = process[q] /\ size'[q] = size[q]
  BY <1>2, <1>3 DEF Types, ProcTypes
<1>8. HomeJoin' /\ HomeMutex' /\ HomeIo' /\ Singles' /\ Joins' /\ Locks' /\ Procs'
  BY <1>2, <1>3, <1>4, <1>6, <1>7, ThreadBorn
<1>9. /\ state'[t] = "READY" /\ \A u \in Thread : u # t => state'[u] = state[u]
  BY <1>6, MoveFacts
<1>10. exec # t
  <2>1. CASE exec = NoThread
    BY <2>1, ThreadFacts
  <2>2. CASE exec # NoThread
    <3>1. exec[2] < size[exec[1]]
      BY <2>2 DEF Sound, Procs, Numbered
    <3>2. QED
      BY <1>3, <3>1
  <2>3. QED
    BY <2>1, <2>2
<1>11. Control'
  <2>1. /\ sts # "IDLE" => exec \in Thread
        /\ exec # NoThread => exec \in Thread
    BY DEF Types, StsTypes, ThreadOrNull
  <2>2. Running'
    BY <1>2, <1>4, <1>9, <1>10, <2>1 DEF Sound, Control, Running
  <2>3. Writing' /\ Calling'
    BY <1>2 DEF Sound, Control, Writing, Calling
  <2>4. Kills'
    BY <1>2, <1>9, <1>10, <2>1 DEF Sound, Control, Kills
  <2>5. QED
    BY <2>2, <2>3, <2>4 DEF Control
<1>12. QED
  BY <1>6, <1>8, <1>11 DEF Sound, Homes

LEMMA ThreadCreateStep ==
  ASSUME Types, Sound, NEW prio \in Priority, ThreadCreate(prio)
  PROVE  Sound'
<1>0. PICK x \in Thread : x = exec
  BY EvictedFacts, Zenon DEF ThreadCreate, Syscall
<1> DEFINE p == x[1]
<1>1. /\ Evicted /\ ~killExec /\ size[p] <= MaxTid
      /\ size' = [size EXCEPT ![p] = @ + 1]
      /\ priority' = [priority EXCEPT ![<<p, size[p]>>] = prio]
      /\ \/ InsertStateReady(<<p, size[p]>>, prio)
         \/ Moves(<<p, size[p]>>, "NEW") /\ UNCHANGED ready
      /\ Continue(TRUE)
      /\ UNCHANGED <<assigned, joinedBy, process, resource, exec, ioReady, ioExec,
                     exiting, left>>
      /\ UNCHANGED <<writer, killSelf>>
  <2>1. /\ Syscall /\ size[p] <= MaxTid
        /\ size' = [size EXCEPT ![p] = @ + 1]
        /\ priority' = [priority EXCEPT ![<<p, size[p]>>] = prio]
        /\ \/ InsertStateReady(<<p, size[p]>>, prio)
           \/ /\ state' = [state EXCEPT ![<<p, size[p]>>] = "NEW"]
              /\ UNCHANGED ready
        /\ Continue(TRUE)
        /\ UNCHANGED <<assigned, joinedBy, process, resource, exec, ioVars, expired,
                       killVars, fault>>
    BY <1>0, Zenon DEF ThreadCreate
  <2> HIDE DEF p
  <2>2. /\ UNCHANGED <<assigned, joinedBy, process, resource, exec, ioReady, ioExec,
                       exiting, left>>
        /\ UNCHANGED <<writer, killSelf>>
    BY <2>1 DEF Continue, ioVars, exitVars, killVars
  <2>3. Evicted /\ ~killExec
    BY <2>1 DEF Syscall
  <2>4. \/ InsertStateReady(<<p, size[p]>>, prio)
        \/ Moves(<<p, size[p]>>, "NEW") /\ UNCHANGED ready
    BY <2>1, Zenon DEF Moves
  <2>5. QED
    BY <2>1, <2>2, <2>3, <2>4, Zenon
<1>2. p \in Processes /\ process[p] = "ALIVE" /\ state[x] = "EXEC"
  BY <1>0, <1>1, EvictedFacts
<1>3. size[p] \in 0 .. MaxTid
  BY <1>1, <1>2, KernelThreadsAssumption DEF Types, ProcTypes
<1>4. PICK t \in Thread : t = <<p, size[p]>>
  BY <1>2, <1>3, ThreadFacts
<1>5. t[1] = p /\ t[2] = size[p]
  BY <1>4
<1>6. state[t] = "NULL"
  <2>1. t[2] >= size[t[1]]
    BY <1>3, <1>5
  <2>2. QED
    BY <2>1 DEF Sound, Procs, Numbered
<1>7. priority'[t] = prio /\ \A u \in Thread : u # t => priority'[u] = priority[u]
  BY <1>1, <1>4 DEF Types, TcbTypes
<1>8. /\ process'[p] = "ALIVE" /\ size'[p] = size[p] + 1
      /\ \A q \in Processes : q # p => process'[q] = process[q] /\ size'[q] = size[q]
  BY <1>1, <1>2 DEF Types, ProcTypes
<1>9. \E b \in {"READY", "NEW"} : Moves(t, b) /\ HomeReady' /\ Queued'
  <2>1. CASE InsertStateReady(t, prio)
    BY <1>6, <1>7, <2>1, ReadyEnters DEF Sound, Homes
  <2>2. CASE Moves(t, "NEW") /\ UNCHANGED ready
    <3>1. HomeReady'
      BY <1>6, <2>2, HomesStay DEF Sound, Homes
    <3>2. Queued'
      <4>1. ASSUME NEW q \in Priority, NEW i \in DOMAIN ready[q]
            PROVE  ReadyQueue(priority'[ready[q][i]]) = q
        <5>1. ready[q][i] \in In("READY") /\ ready[q][i] \in Thread
          <6>1. q \in DOMAIN ready
            BY DEF Types, ReadyTypes
          <6>2. ready[q][i] \in In("READY")
            BY <6>1 DEF Sound, Homes, HomeReady, Houses, Within
          <6>3. QED
            BY <6>2 DEF In
        <5>2. ready[q][i] # t
          BY <1>6, <5>1 DEF In
        <5>3. QED
          BY <1>7, <5>1, <5>2, Zenon DEF Sound, Homes, Queued
      <4>2. QED
        BY <2>2, <4>1, Zenon DEF Queued
    <3>3. QED
      BY <2>2, <3>1, <3>2
  <2>3. QED
    BY <1>1, <1>4, <2>1, <2>2
<1>10. PICK b \in {"READY", "NEW"} : Moves(t, b)
  BY <1>9
<1>11. HomeJoin' /\ HomeMutex' /\ HomeIo' /\ Singles' /\ Joins' /\ Locks' /\ Procs'
  BY <1>1, <1>5, <1>6, <1>8, <1>10, ThreadBorn
<1>12. /\ state'[t] = b /\ \A u \in Thread : u # t => state'[u] = state[u]
  BY <1>10, MoveFacts
<1>13. Control'
  <2>1. \A u \in Thread : state[u] = "EXEC" <=> u = x
    BY <1>0, <1>1, OnlyExec
  <2>2. \A u \in Thread : state'[u] = "EXEC" <=> u = x
    BY <1>2, <1>6, <1>12, <2>1
  <2>3. QED
    BY <1>0, <1>1, <2>2, ControlContinues
<1>14. QED
  BY <1>9, <1>11, <1>13 DEF Sound, Homes

-----------------------------------------------------------------------------
(* Mutexes                                                                 *)

LEMMA HomesSame ==
  ASSUME Homes, Waits' = Waits,
         UNCHANGED <<state, priority, ready, joinedBy,
                     ioReady, ioExec, exec, exiting>>
  PROVE  Homes' /\ SameThreads
<1>1. \A s : In(s)' = In(s)
  BY DEF In
<1>2. HomeReady' /\ HomeJoin' /\ HomeMutex' /\ HomeIo'
  BY <1>1, Zenon DEF Homes, HomeReady, HomeJoin, HomeMutex, HomeIo
<1>3. Queued' /\ Singles' /\ SameThreads
  BY QueuedStays DEF Homes, Singles, SameThreads
<1>4. QED
  BY <1>2, <1>3 DEF Homes

\* While no thread exits, a thread has all the mutexes it was assigned.
LEMMA HeldIs ==
  exiting = NoThread => \A u \in Thread : Held(u) = assigned[u]
BY ThreadFacts DEF Held

LEMMA HeldIsNext ==
  exiting' = NoThread => \A u \in Thread : Held(u)' = assigned'[u]
BY ThreadFacts DEF Held

LEMMA LockWaits ==
  ASSUME Types, NEW p \in Processes, NEW m \in Mutexes, Lock(p, m),
         NEW x \in Thread, x[1] = p,
         LET r == resource[p][m] IN
         /\ r.made /\ r.instances - 1 < 0
         /\ resource'[p][m].made = r.made
         /\ resource'[p][m].instances = r.instances - 1
         /\ resource'[p][m].blocked = Append(r.blocked, x),
         SameHeld
  PROVE  Lock(p, m)'
<1> DEFINE r == resource[p][m]
           b == resource'[p][m].blocked
<1>1. r.instances \in Int /\ r.blocked \in Seq(Thread)
  BY ResourceFacts
<1>2. PICK h \in Thread : h[1] = p /\ m \in Held(h)
  BY <1>1, Zenon, SMT DEF Lock
<1>3. /\ \A j \in DOMAIN r.blocked : r.blocked[j][1] = p
      /\ r.made /\ r.instances = - Len(r.blocked)
      /\ \A u \in Thread : u[1] = p /\ m \in Held(u) => u = h
  BY <1>2, Zenon DEF Lock
<1>4. \A u \in Thread : m \in Held(u)' <=> m \in Held(u)
  BY DEF SameHeld
<1>5. /\ b = Append(r.blocked, x)
      /\ resource'[p][m].made /\ resource'[p][m].instances = - Len(r.blocked) - 1
  BY <1>3
<1> HIDE DEF b, r
<1>6. /\ Len(b) = Len(r.blocked) + 1 /\ Len(r.blocked) \in Nat
      /\ \A j \in DOMAIN b :
           b[j] = x \/ (j \in DOMAIN r.blocked /\ b[j] = r.blocked[j])
  BY <1>1, <1>5
<1>7. \A j \in DOMAIN b : b[j][1] = p
  BY <1>3, <1>6
<1>8. resource'[p][m].instances = - Len(b)
  BY <1>5, <1>6
<1>9. QED
  BY <1>2, <1>3, <1>4, <1>5, <1>7, <1>8, Zenon DEF Lock, b

LEMMA LockTaken ==
  ASSUME Types, NEW p \in Processes, NEW m \in Mutexes, Lock(p, m),
         NEW x \in Thread, x[1] = p,
         LET r == resource[p][m] IN
         /\ r.made /\ r.instances - 1 >= 0
         /\ resource'[p][m].made = r.made
         /\ resource'[p][m].instances = r.instances - 1
         /\ resource'[p][m].blocked = r.blocked,
         \A u \in Thread : m \in Held(u)' <=> m \in Held(u) \/ u = x
  PROVE  Lock(p, m)'
<1> DEFINE r == resource[p][m]
<1>1. r.instances \in Int /\ r.blocked \in Seq(Thread) /\ Len(r.blocked) \in Nat
  BY ResourceFacts, LenProperties
<1>2. ASSUME NEW h \in Thread, h[1] = p, m \in Held(h) PROVE FALSE
  <2>1. r.instances = - Len(r.blocked)
    BY <1>2, Zenon DEF Lock
  <2> HIDE DEF r
  <2>2. QED
    BY <1>1, <2>1 DEF r
<1>3. r.blocked = <<>> /\ r.instances = 1
  BY <1>2, Zenon DEF Lock
<1>4. \A u \in Thread : u[1] = p => (m \in Held(u)' <=> u = x)
  BY <1>2
<1>5. /\ resource'[p][m].made /\ resource'[p][m].instances = 0
      /\ resource'[p][m].blocked = <<>> /\ Len(<<>>) = 0
  BY <1>3
<1>6. QED
  BY <1>4, <1>5 DEF Lock

\* A new mutex is free.
LEMMA LockMade ==
  ASSUME NEW p \in Processes, NEW m \in Mutexes, Lock(p, m), ~resource[p][m].made,
         resource'[p][m] = [made |-> TRUE, instances |-> 1, blocked |-> <<>>],
         SameHeld
  PROVE  Lock(p, m)' /\ resource[p][m].blocked = <<>>
<1>1. \A u \in Thread : u[1] = p => m \notin Held(u)
  BY Zenon DEF Lock
<1>2. resource[p][m].blocked = <<>>
  BY <1>1, Zenon DEF Lock
<1>3. \A u \in Thread : u[1] = p => ~ (m \in Held(u)')
  BY <1>1 DEF SameHeld
<1>4. /\ resource'[p][m].made /\ resource'[p][m].instances = 1
      /\ resource'[p][m].blocked = <<>>
  OBVIOUS
<1>5. QED
  BY <1>2, <1>3, <1>4 DEF Lock

LEMMA MutexCreateStep ==
  ASSUME Types, Sound, NEW m \in Mutexes, MutexCreate(m)
  PROVE  Sound'
<1>0. PICK x \in Thread : x = exec
  BY EvictedFacts, Zenon DEF MutexCreate, Syscall
<1> DEFINE p == x[1]
           new == [made |-> TRUE, instances |-> 1, blocked |-> <<>>]
<1>1. /\ Evicted /\ ~killExec
      /\ UNCHANGED <<priority, assigned, joinedBy, process, size, ready, exec,
                     ioVars, expired, killVars, fault>>
  BY DEF MutexCreate, Syscall
<1>2. /\ p \in Processes /\ process[p] = "ALIVE" /\ state[x] = "EXEC"
      /\ exiting = NoThread
  BY <1>0, <1>1, EvictedFacts
<1>3. CASE resource[p][m].made
  <2>1. ExitExec /\ UNCHANGED resource
    BY <1>0, <1>3 DEF MutexCreate
  <2>2. QED
    BY <1>1, <2>1, EvictExitStep DEF procVars
<1>4. CASE ~resource[p][m].made
  <2>1. /\ resource' = [resource EXCEPT ![p][m] = new]
        /\ Continue(TRUE) /\ UNCHANGED state
    BY <1>0, <1>4 DEF MutexCreate
  <2>2. /\ UNCHANGED <<priority, assigned, joinedBy, process, size, ready, exec,
                       ioReady, ioExec, exiting, left>>
        /\ UNCHANGED <<writer, killSelf>>
    BY <1>1, <2>1 DEF Continue, ioVars, killVars, exitVars
  <2>3. Sets(p, m, new)
    BY <2>1 DEF Sets
  <2> HIDE DEF new
  <2>4. /\ resource'[p][m] = new
        /\ \A q \in Processes, n \in Mutexes :
             q # p \/ n # m => resource'[q][n] = resource[q][n]
    <3> HIDE DEF p
    <3>1. QED
      BY <1>2, <2>3, SetsOne
  <2>5. SameHeld
    BY <2>2, HeldStays
  <2>6. Lock(p, m)' /\ resource[p][m].blocked = <<>>
    <3>1. Lock(p, m)
      BY <1>2 DEF Sound, Locks
    <3>2. QED
      BY <1>2, <1>4, <2>4, <2>5, <3>1, LockMade DEF new
  <2>7. Homes' /\ SameThreads
    <3>1. new.blocked = <<>>
      BY DEF new
    <3>2. Waits' = Waits
      BY <2>4, <2>6, <3>1, WaitsStay
    <3>3. QED
      BY <2>1, <2>2, <3>2, HomesSame DEF Sound
  <2>8. Joins'
    BY <2>2, <2>7, JoinsStay DEF Sound
  <2>9. Locks'
    <3>1. Bare'
      BY <2>1, <2>2 DEF Sound, Locks, Bare
    <3>2. ASSUME NEW q \in Processes, NEW n \in Mutexes, q # p \/ n # m
          PROVE  Lock(q, n)'
      BY <2>4, <2>5, <3>2, LockStays DEF Sound, Locks, SameHeld
    <3>3. QED
      BY <2>6, <3>1, <3>2, Zenon DEF Locks
  <2>10. Procs'
    <3>1. Populated' /\ Numbered'
      BY <2>1, <2>2 DEF Sound, Procs, Populated, Numbered, Exists
    <3>2. Unmade'
      BY <1>2, <2>2, <2>4 DEF Sound, Procs, Unmade
    <3>3. QED
      BY <3>1, <3>2 DEF Procs
  <2>11. Control'
    <3>1. \A u \in Thread : state'[u] = "EXEC" <=> u = x
      BY <1>0, <1>1, <2>1, OnlyExec
    <3>2. QED
      BY <1>0, <1>1, <2>1, <2>2, <3>1, ControlContinues
  <2>12. QED
    BY <2>7, <2>8, <2>9, <2>10, <2>11 DEF Sound
<1>5. QED
  BY <1>3, <1>4

LEMMA MutexLockStep ==
  ASSUME Types, Sound, NEW m \in Mutexes, MutexLock(m)
  PROVE  Sound'
<1>0. PICK x \in Thread : x = exec
  BY EvictedFacts, Zenon DEF MutexLock, Syscall
<1> DEFINE p == x[1]
           r == resource[p][m]
<1>1. /\ Syscall
      /\ \/ /\ ~r.made
            /\ ExitExec
            /\ UNCHANGED <<assigned, resource, staleHandover>>
         \/ /\ r.made /\ r.instances - 1 < 0
            /\ resource' = [resource EXCEPT ![p][m] =
                 [r EXCEPT !.instances = @ - 1, !.blocked = Append(@, x)]]
            /\ state' = [state EXCEPT ![x] = "BLOCKED_MUTEX"]
            /\ Continue(FALSE)
            /\ UNCHANGED assigned
         \/ /\ r.made /\ r.instances - 1 >= 0
            /\ resource' = [resource EXCEPT ![p][m].instances = @ - 1]
            /\ assigned' = [assigned EXCEPT ![x] = @ \cup {m}]
            /\ Continue(TRUE)
            /\ UNCHANGED state
      /\ UNCHANGED <<priority, joinedBy, process, size, ready, exec, ioVars,
                     expired, killVars, fault>>
  BY <1>0, Zenon DEF MutexLock
<1>2. Evicted /\ ~killExec
  BY <1>1 DEF Syscall
<1>3. p \in Processes /\ state[x] = "EXEC" /\ exiting = NoThread
  BY <1>0, <1>2, EvictedFacts
<1>4. /\ UNCHANGED <<priority, joinedBy, process, size, ready, exec, ioReady, ioExec>>
      /\ UNCHANGED <<writer, killSelf>>
  BY <1>1 DEF ioVars, killVars
<1>5. /\ r \in Resource /\ r.made \in BOOLEAN /\ r.instances \in Int
      /\ r.blocked \in Seq(Thread) /\ Lock(p, m)
  BY <1>3, ResourceFacts DEF Sound, Locks
<1>6. x[1] = p
  OBVIOUS
<1> HIDE DEF p
<1>7. CASE ~r.made /\ ExitExec /\ UNCHANGED <<assigned, resource, staleHandover>>
  BY <1>1, <1>2, <1>7, EvictExitStep DEF procVars
<1>8. ASSUME r.made, r.instances - 1 < 0,
             resource' = [resource EXCEPT ![p][m] =
                 [r EXCEPT !.instances = @ - 1, !.blocked = Append(@, x)]],
             state' = [state EXCEPT ![x] = "BLOCKED_MUTEX"],
             Continue(FALSE), UNCHANGED assigned
      PROVE  Sound'
  <2> DEFINE new == [r EXCEPT !.instances = @ - 1, !.blocked = Append(@, x)]
  <2>1. Sets(p, m, new) /\ Moves(x, "BLOCKED_MUTEX")
    BY <1>8, Zenon DEF Sets, Moves
  <2>2. /\ new.made = r.made /\ new.instances = r.instances - 1
        /\ new.blocked = Append(r.blocked, x)
    <3> HIDE DEF r
    <3>1. QED
      BY <1>5 DEF Resource
  <2> HIDE DEF new
  <2>3. /\ resource'[p][m] = new
        /\ \A q \in Processes, n \in Mutexes :
             q # p \/ n # m => resource'[q][n] = resource[q][n]
        /\ Waits' = [Waits EXCEPT ![<<p, m>>] = new.blocked]
    BY <1>3, <2>1, WaitsUpdate
  <2>4. /\ Control' /\ Singles' /\ SameThreads
    BY <1>0, <1>1, <1>4, <1>8, <2>1, ExecLeaves
  <2>5. SameHeld /\ SameMade
    <3>1. UNCHANGED <<assigned, exiting, left>>
      BY <1>8 DEF Continue, exitVars
    <3>2. SameMade
      BY <2>2, <2>3 DEF SameMade
    <3>3. QED
      BY <3>1, <3>2, HeldStays
  <2>6. HomeMutex'
    <3> DEFINE k == <<p, m>>
               S == In("BLOCKED_MUTEX")
    <3>1. Waits \in [Processes \X Mutexes -> Seq(Thread)] /\ k \in Processes \X Mutexes
          /\ Waits[k] = r.blocked /\ Houses(Waits, S)
      BY <1>3, WaitsFacts DEF Sound, Homes, HomeMutex
    <3>2. S' = S \cup {x} /\ x \notin S
      BY <1>3, <2>1, InMoves DEF In
    <3> HIDE DEF k, S, r
    <3>3. Houses([Waits EXCEPT ![k] = Append(@, x)], S \cup {x})
      BY <3>1, <3>2, HousesAppend
    <3>4. Waits' = [Waits EXCEPT ![k] = Append(Waits[k], x)]
      BY <2>2, <2>3, <3>1 DEF k
    <3>5. Houses(Waits', S')
      BY <3>2, <3>3, <3>4
    <3>6. QED
      BY <3>5 DEF HomeMutex, S
  <2>7. HomeReady' /\ Queued' /\ HomeJoin' /\ HomeIo'
    BY <1>3, <1>4, <2>1, HomesStay, QueuedStays DEF Sound, Homes
  <2>8. Joins' /\ Procs'
    BY <1>4, <2>4, <2>5, JoinsStay, ProcsStay DEF Sound
  <2>9. Locks'
    <3>1. Bare'
      BY <1>8, <2>4 DEF Sound, Locks, Bare, SameThreads
    <3>2. Lock(p, m)'
      BY <1>3, <1>5, <1>6, <1>8, <2>2, <2>3, <2>5, LockWaits
    <3>3. ASSUME NEW q \in Processes, NEW n \in Mutexes, q # p \/ n # m
          PROVE  Lock(q, n)'
      BY <2>3, <2>5, <3>3, LockStays DEF Sound, Locks, SameHeld
    <3>4. QED
      BY <3>1, <3>2, <3>3, Zenon DEF Locks
  <2>10. QED
    BY <2>4, <2>6, <2>7, <2>8, <2>9 DEF Sound, Homes
<1>9. ASSUME r.made, r.instances - 1 >= 0,
             resource' = [resource EXCEPT ![p][m].instances = @ - 1],
             assigned' = [assigned EXCEPT ![x] = @ \cup {m}],
             Continue(TRUE), UNCHANGED state
      PROVE  Sound'
  <2> DEFINE new == [r EXCEPT !.instances = @ - 1]
  <2>1. Sets(p, m, new)
    BY <1>9 DEF Sets
  <2>2. /\ new.made = r.made /\ new.instances = r.instances - 1
        /\ new.blocked = r.blocked
    <3> HIDE DEF r
    <3>1. QED
      BY <1>5 DEF Resource
  <2> HIDE DEF new
  <2>3. /\ resource'[p][m] = new
        /\ \A q \in Processes, n \in Mutexes :
             q # p \/ n # m => resource'[q][n] = resource[q][n]
    BY <1>3, <2>1, WaitsUpdate
  <2>4. UNCHANGED <<exiting, left>>
    BY <1>9 DEF Continue, exitVars
  <2>5. \A u \in Thread : Held(u)' = IF u = x THEN Held(u) \cup {m} ELSE Held(u)
    <3>1. \A u \in Thread : assigned'[u] = IF u = x THEN assigned[u] \cup {m}
                                         ELSE assigned[u]
      BY <1>9 DEF Types, TcbTypes
    <3>2. QED
      BY <1>3, <2>4, <3>1, HeldIs, HeldIsNext
  <2>6. Homes' /\ SameThreads
    <3>1. Waits' = Waits
      BY <2>2, <2>3, WaitsStay
    <3>2. QED
      BY <1>4, <1>9, <2>4, <3>1, HomesSame DEF Sound
  <2>7. Joins' /\ Procs'
    <3>1. SameMade
      BY <2>2, <2>3 DEF SameMade
    <3>2. QED
      BY <1>4, <2>6, <3>1, JoinsStay, ProcsStay DEF Sound
  <2>8. Locks'
    <3>1. Bare'
      <4>1. \A u \in Thread : u # x => assigned'[u] = assigned[u]
        BY <1>9 DEF Types, TcbTypes
      <4>2. QED
        BY <1>3, <1>9, <4>1 DEF Sound, Locks, Bare
    <3>2. Lock(p, m)'
      <4>1. \A u \in Thread : m \in Held(u)' <=> m \in Held(u) \/ u = x
        BY <2>5
      <4>2. QED
        BY <1>3, <1>5, <1>6, <1>9, <2>2, <2>3, <4>1, LockTaken
    <3>3. ASSUME NEW q \in Processes, NEW n \in Mutexes, q # p \/ n # m
          PROVE  Lock(q, n)'
      <4>1. \A u \in Thread : u[1] = q => (n \in Held(u)' <=> n \in Held(u))
        BY <1>6, <2>5, <3>3
      <4>2. QED
        BY <2>3, <3>3, <4>1, LockStays DEF Sound, Locks
    <3>4. QED
      BY <3>1, <3>2, <3>3, Zenon DEF Locks
  <2>9. Control'
    <3>1. \A u \in Thread : state'[u] = "EXEC" <=> u = x
      BY <1>0, <1>2, <1>9, OnlyExec
    <3>2. QED
      BY <1>0, <1>2, <1>4, <1>9, <3>1, ControlContinues
  <2>10. QED
    BY <2>6, <2>7, <2>8, <2>9 DEF Sound
<1>10. QED
  BY <1>1, <1>7, <1>8, <1>9, Zenon

LEMMA MutexUnlockStep ==
  ASSUME Types, Sound, NEW m \in Mutexes, MutexUnlock(m)
  PROVE  Sound'
<1>0. PICK x \in Thread : x = exec
  BY EvictedFacts, Zenon DEF MutexUnlock, Syscall
<1> DEFINE p == x[1]
           r == resource[p][m]
           heir == IF r.instances + 1 > 0 \/ r.blocked = <<>> THEN NoThread
                   ELSE Head(r.blocked)
           freed == [assigned EXCEPT ![x] = @ \ {m}]
           new == [r EXCEPT !.instances = @ + 1,
                            !.blocked = IF heir = NoThread THEN @ ELSE Tail(@)]
<1>1. /\ Syscall
      /\ \/ /\ ~r.made \/ m \notin assigned[x]
            /\ ExitExec
            /\ UNCHANGED <<assigned, resource, ready, staleHandover>>
         \/ /\ r.made /\ m \in assigned[x]
            /\ resource' = [resource EXCEPT ![p][m] = new]
            /\ IF heir = NoThread
               THEN assigned' = freed /\ UNCHANGED <<state, ready>>
               ELSE /\ assigned' = [freed EXCEPT ![heir] = @ \cup {m}]
                    /\ InsertStateReady(heir, priority[heir])
            /\ Continue(TRUE)
      /\ UNCHANGED <<priority, joinedBy, process, size, exec, ioVars, expired,
                     killVars, fault>>
  BY <1>0, Zenon DEF MutexUnlock
<1>2. Evicted /\ ~killExec
  BY <1>1 DEF Syscall
<1>3. p \in Processes /\ state[x] = "EXEC" /\ exiting = NoThread
  BY <1>0, <1>2, EvictedFacts
<1>4. /\ UNCHANGED <<priority, joinedBy, process, size, exec, ioReady, ioExec>>
      /\ UNCHANGED <<writer, killSelf>>
  BY <1>1 DEF ioVars, killVars
<1>5. /\ r \in Resource /\ r.made \in BOOLEAN /\ r.instances \in Int
      /\ r.blocked \in Seq(Thread) /\ Lock(p, m)
  BY <1>3, ResourceFacts DEF Sound, Locks
<1>6. x[1] = p
  OBVIOUS
<1> HIDE DEF p
<1>7. CASE ExitExec /\ UNCHANGED <<assigned, resource, ready, staleHandover>>
  BY <1>1, <1>2, <1>7, EvictExitStep DEF procVars
<1>8. ASSUME r.made, m \in assigned[x], Sets(p, m, new),
             IF heir = NoThread
             THEN assigned' = freed /\ UNCHANGED <<state, ready>>
             ELSE /\ assigned' = [freed EXCEPT ![heir] = @ \cup {m}]
                  /\ InsertStateReady(heir, priority[heir]),
             Continue(TRUE)
      PROVE  Sound'
  <2>1. m \in Held(x) /\ UNCHANGED <<exiting, left>>
    BY <1>3, <1>8, HeldIs DEF Continue, exitVars
  <2>2. r.instances = - Len(r.blocked)
    BY <1>5, <1>6, <2>1, Zenon DEF Lock
  <2>3. Len(r.blocked) \in Nat /\ (r.blocked = <<>> <=> Len(r.blocked) = 0)
    <3> HIDE DEF r
    <3>1. QED
      BY <1>5
  <2>4. heir = IF r.blocked = <<>> THEN NoThread ELSE Head(r.blocked)
    <3> HIDE DEF r
    <3>1. QED
      BY <1>5, <2>2, <2>3
  <2>5. /\ new.made = r.made /\ new.instances = r.instances + 1
        /\ new.blocked = IF heir = NoThread THEN r.blocked ELSE Tail(r.blocked)
    <3> HIDE DEF r, heir
    <3>1. QED
      BY <1>5 DEF Resource
  <2> HIDE DEF new, heir, r
  <2>6. /\ resource'[p][m] = new
        /\ \A q \in Processes, n \in Mutexes :
             q # p \/ n # m => resource'[q][n] = resource[q][n]
    BY <1>3, <1>8, WaitsUpdate
  <2>7. SameMade
    BY <2>5, <2>6 DEF SameMade, r
  <2>8. freed = [u \in Thread |-> IF u = x THEN assigned[u] \ {m} ELSE assigned[u]]
    BY DEF Types, TcbTypes
  <2> HIDE DEF freed
  <2>9. CASE r.blocked = <<>>
    <3>1. heir = NoThread /\ assigned' = freed /\ UNCHANGED <<state, ready>>
      BY <1>8, <2>4, <2>9
    <3>2. Homes' /\ SameThreads
      <4>1. Waits' = Waits
        BY <2>5, <2>6, <3>1, WaitsStay DEF r
      <4>2. QED
        BY <1>4, <2>1, <3>1, <4>1, HomesSame DEF Sound
    <3>3. Joins' /\ Procs'
      BY <1>4, <2>7, <3>2, JoinsStay, ProcsStay DEF Sound
    <3>4. \A u \in Thread : Held(u)' = IF u = x THEN Held(u) \ {m} ELSE Held(u)
      BY <1>3, <2>1, <2>8, <3>1, HeldIs, HeldIsNext
    <3>5. Lock(p, m)'
      <4>1. \A u \in Thread : u # NoThread
        BY ThreadFacts
      <4>2. \A u \in Thread :
              m \in Held(u)' <=> u = heir \/ (m \in Held(u) /\ u # x)
        BY <3>1, <3>4, <4>1
      <4>3. /\ resource'[p][m].made = resource[p][m].made
            /\ resource'[p][m].instances = resource[p][m].instances + 1
            /\ resource[p][m].blocked = <<>> /\ resource'[p][m].blocked = <<>>
        BY <2>5, <2>6, <2>9, <3>1 DEF r
      <4>4. QED
        BY <1>3, <1>5, <1>6, <2>1, <3>1, <4>2, <4>3, LockPasses
    <3>6. Locks'
      <4>1. ASSUME NEW q \in Processes, NEW n \in Mutexes, q # p \/ n # m
            PROVE  Lock(q, n)'
        <5>1. \A u \in Thread : u[1] = q => (n \in Held(u)' <=> n \in Held(u))
          BY <1>6, <3>4, <4>1
        <5>2. QED
          BY <2>6, <4>1, <5>1, LockStays DEF Sound, Locks
      <4>2. Bare'
        BY <2>8, <3>1 DEF Sound, Locks, Bare
      <4>3. QED
        BY <3>5, <4>1, <4>2, Zenon DEF Locks
    <3>7. Control'
      <4>1. \A u \in Thread : state'[u] = "EXEC" <=> u = x
        BY <1>0, <1>2, <3>1, OnlyExec
      <4>2. QED
        BY <1>0, <1>2, <1>4, <1>8, <4>1, ControlContinues
    <3>8. QED
      BY <3>2, <3>3, <3>6, <3>7 DEF Sound
  <2>10. CASE r.blocked # <<>>
    <3>0. /\ heir \in Thread /\ heir[1] = p /\ state[heir] = "BLOCKED_MUTEX"
      BY <1>3, <1>5, <2>4, <2>10, HeirFacts DEF r, Sound, Homes
    <3> PICK h \in Thread : h = heir
      BY <3>0, Zenon
    <3>1. h = Head(r.blocked) /\ h[1] = p /\ state[h] = "BLOCKED_MUTEX" /\ h # NoThread
      BY <2>4, <2>10, <3>0, ThreadFacts, Zenon
    <3>2. /\ assigned' = [freed EXCEPT ![h] = @ \cup {m}]
          /\ InsertStateReady(h, priority[h])
      BY <1>8, <3>1
    <3>3. HomeReady' /\ Queued' /\ Moves(h, "READY")
      BY <1>4, <3>1, <3>2, ReadyReturns DEF Sound, Homes
    <3>4. /\ state'[h] = "READY" /\ SameThreads
          /\ \A u \in Thread : u # h => state'[u] = state[u]
      BY <3>1, <3>3, MoveFacts
    <3>5. HomeMutex'
      <4>1. new.blocked = Tail(resource[p][m].blocked)
        BY <2>5, <3>1 DEF r
      <4>2. HomeMutex /\ resource[p][m].blocked # <<>> /\ h = Head(resource[p][m].blocked)
        BY <2>10, <3>1 DEF r, Sound, Homes
      <4>3. QED
        BY <1>3, <1>8, <3>3, <4>1, <4>2, HeirMoves
    <3>6. HomeJoin' /\ HomeIo'
      BY <1>4, <3>1, <3>3, HomesStay DEF Sound, Homes
    <3>7. Singles'
      BY <1>4, <2>1, <3>1, <3>4 DEF Sound, Homes, Singles
    <3>8. Joins' /\ Procs'
      BY <1>4, <2>7, <3>4, JoinsStay, ProcsStay DEF Sound
    <3>9. h # x
      BY <1>3, <3>1
    <3>10. \A u \in Thread : assigned'[u] = IF u = x THEN assigned[u] \ {m}
                                          ELSE IF u = h THEN assigned[u] \cup {m}
                                          ELSE assigned[u]
      BY <2>8, <3>2, <3>9
    <3>11. \A u \in Thread : Held(u)' = IF u = x THEN Held(u) \ {m}
                                       ELSE IF u = h THEN Held(u) \cup {m} ELSE Held(u)
      BY <1>3, <2>1, <3>10, HeldIs, HeldIsNext
    <3>12. Lock(p, m)'
      <4>1. \A u \in Thread :
              m \in Held(u)' <=> u = h \/ (m \in Held(u) /\ u # x)
        BY <3>9, <3>11
      <4>2. /\ resource'[p][m].made = resource[p][m].made
            /\ resource'[p][m].instances = resource[p][m].instances + 1
            /\ resource[p][m].blocked # <<>>
            /\ resource'[p][m].blocked = Tail(resource[p][m].blocked)
        BY <2>5, <2>6, <2>10, <3>1 DEF r
      <4>3. QED
        BY <1>3, <1>5, <1>6, <2>1, <3>1, <4>1, <4>2, LockPasses
    <3>13. Locks'
      <4>1. ASSUME NEW q \in Processes, NEW n \in Mutexes, q # p \/ n # m
            PROVE  Lock(q, n)'
        <5>1. \A u \in Thread : u[1] = q => (n \in Held(u)' <=> n \in Held(u))
          BY <1>6, <3>1, <3>11, <4>1
        <5>2. QED
          BY <2>6, <4>1, <5>1, LockStays DEF Sound, Locks
      <4>2. Bare'
        BY <3>4, <3>10 DEF Sound, Locks, Bare
      <4>3. QED
        BY <3>12, <4>1, <4>2, Zenon DEF Locks
    <3>14. Control'
      <4>1. \A u \in Thread : state'[u] = "EXEC" <=> u = x
        BY <1>0, <1>2, <3>1, <3>4, <3>9, OnlyExec
      <4>2. QED
        BY <1>0, <1>2, <1>4, <1>8, <4>1, ControlContinues
    <3>15. QED
      BY <3>3, <3>5, <3>6, <3>7, <3>8, <3>13, <3>14 DEF Sound, Homes
  <2>11. QED
    BY <2>9, <2>10
<1>9. QED
  BY <1>1, <1>7, <1>8, Zenon DEF Sets

-----------------------------------------------------------------------------
(* The invariant holds                                                     *)

LEMMA ExitSound ==
  ASSUME Types, Sound, ExitStep, ~staleHandover'
  PROVE  Sound'
BY UnassignStep, JoinThreadsStep, DestroyStep DEF ExitStep

LEMMA KillSound ==
  ASSUME Types, Sound, KillStep
  PROVE  Sound'
BY KillQuietStep, KillBlockedStep DEF KillStep

LEMMA SchedulerSound ==
  ASSUME Types, Sound, SchedulerStep
  PROVE  Sound'
BY DispatchStep, AfterStep, JoinLockedStep, KillLockedStep, KillUnlockedStep,
  DowngradeStep DEF SchedulerStep

LEMMA EvictionSound ==
  ASSUME Types, Sound, EvictExit \/ EvictKilled \/ EvictQuantum \/ QuantumExpires
  PROVE  Sound'
<1>1. CASE EvictExit \/ EvictKilled
  <2>1. /\ Evicted /\ ExitExec
        /\ UNCHANGED <<priority, assigned, joinedBy, procVars, ready, exec, ioVars,
                       killVars>>
    BY <1>1 DEF EvictExit, EvictKilled
  <2>2. QED
    BY <2>1, EvictExitStep
<1>2. QED
  BY <1>1, EvictQuantumStep, QuantumExpiresStep

LEMMA CallSound ==
  ASSUME Types, Sound,
         \/ \E prio \in Priority : ThreadCreate(prio)
         \/ \E m \in Mutexes : MutexCall(m)
         \/ DumpMemory \/ Io \/ SelfJoin \/ ProcessExit
         \/ \E tid \in 0 .. MaxTid : WindowCall(tid)
  PROVE  Sound'
<1>1. CASE \E m \in Mutexes : MutexCall(m)
  BY <1>1, MutexCreateStep, MutexLockStep, MutexUnlockStep DEF MutexCall
<1>2. QED
  BY <1>1, ThreadCreateStep, DumpMemoryStep, IoStep, SelfJoinStep, WindowStep

LEMMA OthersSound ==
  ASSUME Types, Sound,
         \/ \E p \in Processes, prio \in Priority : AdmitProcess(p, prio)
         \/ IoBegin \/ IoEnd \/ DumpExit
         \/ \E t \in Thread : DumpOk(t) \/ DumpFails(t)
  PROVE  Sound'
BY AdmitProcessStep, IoBeginStep, IoEndStep, DumpExitStep, DumpOkStep, DumpFailsStep

\* Only resources_unassign sets the mark, and nothing takes it back.
LEMMA StaleStays == [Next]_vars /\ staleHandover => staleHandover'
<1> SUFFICES ASSUME [Next]_vars, staleHandover PROVE staleHandover'
  OBVIOUS
<1>1. CASE ExitStep
  BY <1>1, Zenon DEF ExitStep, ResourcesUnassign, JoinThreads, Destroy, exitVars
<1>2. CASE KillStep
  BY <1>2 DEF KillStep, KillNone, KillExec, KillReady, KillBlocked, exitVars
<1>3. CASE SchedulerStep
  BY <1>3 DEF SchedulerStep, Dispatch, After, JoinLocked, KillLocked, KillUnlocked,
    Downgrade, exitVars
<1>4. CASE EvictExit \/ EvictKilled \/ EvictQuantum \/ QuantumExpires
  BY <1>4 DEF EvictExit, EvictKilled, EvictQuantum, QuantumExpires, Continue, exitVars
<1>5. CASE \E m \in Mutexes : MutexCall(m)
  <2>1. PICK m \in Mutexes : MutexCall(m)
    BY <1>5
  <2>2. Continue(TRUE) \/ Continue(FALSE) \/ UNCHANGED staleHandover
    BY <2>1, Zenon DEF MutexCall, MutexCreate, MutexLock, MutexUnlock
  <2>3. QED
    BY <2>2 DEF Continue, exitVars
<1>6. CASE \/ \E prio \in Priority : ThreadCreate(prio)
           \/ DumpMemory \/ Io \/ SelfJoin \/ ProcessExit
           \/ \E tid \in 0 .. MaxTid : WindowCall(tid)
  BY <1>6 DEF ThreadCreate, DumpMemory, Io, SelfJoin, ProcessExit, WindowCall,
    ThreadJoin, ThreadCancel, GiveUpRead, Continue, exitVars
<1>7. CASE \/ \E p \in Processes, prio \in Priority : AdmitProcess(p, prio)
           \/ IoBegin \/ IoEnd \/ DumpExit
           \/ \E t \in Thread : DumpOk(t) \/ DumpFails(t)
  BY <1>7 DEF AdmitProcess, IoBegin, IoEnd, DumpExit, DumpOk, DumpFails, exitVars
<1>8. CASE UNCHANGED vars
  BY <1>8 DEF vars, exitVars
<1>9. QED
  BY <1>1, <1>2, <1>3, <1>4, <1>5, <1>6, <1>7, <1>8 DEF Next

LEMMA NextSound ==
  ASSUME Types, Sound, [Next]_vars, ~staleHandover'
  PROVE  Sound'
<1>1. CASE UNCHANGED vars
  <2>1. /\ UNCHANGED <<tcbVars, procVars, ready, ioReady, ioExec, exec, exiting, left>>
        /\ UNCHANGED <<state, sts, call, target, redispatch, killExec, killSent, writer,
                       killSelf>>
    BY <1>1 DEF vars, tcbVars, ioVars, stsVars, killVars, exitVars
  <2>2. Control'
    BY <2>1, ControlStays DEF Sound
  <2>3. QED
    BY <2>1, <2>2, QuietStep DEF Sound
<1>2. CASE Next
  BY <1>2, ExitSound, KillSound, SchedulerSound, EvictionSound, CallSound,
    OthersSound DEF Next
<1>3. QED
  BY <1>1, <1>2

LEMMA InitSound == Init => Sound
<1> SUFFICES ASSUME Init PROVE Sound
  OBVIOUS
<1>1. /\ \A t \in Thread : /\ state[t] = "NULL" /\ assigned[t] = {}
                           /\ joinedBy[t] = <<>> /\ Held(t) = {}
      /\ exec = NoThread /\ ioExec = NoThread /\ exiting = NoThread
      /\ ioReady = <<>> /\ ready = [q \in Priority |-> <<>>]
      /\ joinedBy = [t \in Thread |-> <<>>]
  BY DEF Init, Held
<1>2. \A s : s # "NULL" => In(s) = {}
  BY <1>1 DEF In
<1>3. Homes
  <2>1. ASSUME NEW K PROVE Houses([k \in K |-> <<>>], {})
    BY DEF Houses, Distinct, Within, Covers
  <2>2. HomeReady /\ HomeJoin
    BY <1>1, <1>2, <2>1 DEF HomeReady, HomeJoin
  <2>3. Waits = [x \in Processes \X Mutexes |-> <<>>]
    BY DEF Waits, Init, NoResource
  <2>4. HomeMutex
    BY <1>2, <2>1, <2>3 DEF HomeMutex
  <2>5. HomeIo
    BY <1>1, <1>2 DEF HomeIo, Houses, Distinct, Within, Covers
  <2>6. Queued
    BY <1>1 DEF Queued
  <2>7. Singles
    BY <1>1, ThreadFacts DEF Singles
  <2>8. QED
    BY <2>2, <2>4, <2>5, <2>6, <2>7 DEF Homes
<1>4. Joins
  BY <1>1 DEF Joins
<1>5. Locks
  <2>1. ASSUME NEW p \in Processes, NEW m \in Mutexes PROVE Lock(p, m)
    <3>1. resource[p][m].blocked = <<>> /\ ~resource[p][m].made
      BY DEF Init, NoResource
    <3>2. QED
      BY <1>1, <3>1 DEF Lock
  <2>2. QED
    BY <1>1, <2>1 DEF Locks, Bare
<1>6. Procs
  <2>1. Populated /\ Unmade
    BY <1>1 DEF Init, Populated, Unmade, Exists, NoResource
  <2>2. Numbered
    BY <1>1 DEF Init, Numbered
  <2>3. QED
    BY <2>1, <2>2 DEF Procs
<1>7. Control
  BY <1>1 DEF Init, Control, Running, Writing, Calling, Kills
<1>8. QED
  BY <1>3, <1>4, <1>5, <1>6, <1>7 DEF Sound

\* The inductive invariant holds in every state the kernel reaches.
THEOREM Invariance == Spec => []IInv
<1>1. Init => IInv
  BY InitTypes, InitSound DEF IInv
<1>2. IInv /\ [Next]_vars => IInv'
  BY NextTypes, NextSound, StaleStays DEF IInv
<1>3. QED
  BY <1>1, <1>2, PTL DEF Spec

-----------------------------------------------------------------------------
(* What follows from it                                                    *)

\* The types of all variables, at every point and even after a mutex was
\* handed over by a stale pointer.
THEOREM TypeSafety == Spec => []TypeOK
<1>1. IInv => TypeOK
  BY TypesIs DEF IInv
<1>2. QED
  BY <1>1, Invariance, PTL

\* SEM_IO_DEVICE counts at least the threads that wait for the device, and
\* an idle device has none, whoever was killed in its list.
THEOREM IoIsCounted == Spec => []IoCounted
<1>1. IInv => IoCounted
  BY TypesIs DEF IInv
<1>2. QED
  BY <1>1, Invariance, PTL

\* The places of a thread in a family of lists that houses a set
LEMMA SpotsFacts ==
  ASSUME NEW L, NEW S, Houses(L, S), NEW t
  PROVE  /\ t \in S => InOne(L, t)
         /\ t \notin S => Spots(L, t) = {}
<1>1. ASSUME NEW y
      PROVE  y \in Spots(L, t) <=> \E k \in DOMAIN L : \E i \in DOMAIN L[k] :
                                     y = <<k, i>> /\ L[k][i] = t
  BY DEF Spots
<1>2. ASSUME t \in S PROVE InOne(L, t)
  <2>1. PICK k \in DOMAIN L : \E i \in DOMAIN L[k] : L[k][i] = t
    BY <1>2 DEF Houses, Covers
  <2>2. PICK i \in DOMAIN L[k] : L[k][i] = t
    BY <2>1
  <2>3. ASSUME NEW l \in DOMAIN L, NEW j \in DOMAIN L[l], L[l][j] = t
        PROVE  l = k /\ j = i
    BY <2>2, <2>3, Zenon DEF Houses, Distinct
  <2>4. Spots(L, t) = {<<k, i>>}
    <3>1. ASSUME NEW y PROVE y \in Spots(L, t) <=> y = <<k, i>>
      BY <1>1, <2>2, <2>3, Zenon
    <3>2. QED
      BY <3>1
  <2>5. QED
    BY <2>4, FS_Singleton, Zenon DEF InOne
<1>3. ASSUME t \notin S PROVE Spots(L, t) = {}
  BY <1>1, <1>3 DEF Houses, Within
<1>4. QED
  BY <1>2, <1>3

\* The lists of the mutexes of one process house its own waiters.
LEMMA WaitListsFacts ==
  ASSUME Types, HomeMutex, Locks, NEW p \in Processes
  PROVE  Houses([m \in Mutexes |-> resource[p][m].blocked],
                {u \in Thread : state[u] = "BLOCKED_MUTEX" /\ u[1] = p})
<1> DEFINE L == [m \in Mutexes |-> resource[p][m].blocked]
           S == {u \in Thread : state[u] = "BLOCKED_MUTEX" /\ u[1] = p}
<1>1. /\ DOMAIN Waits = Processes \X Mutexes /\ DOMAIN L = Mutexes
      /\ \A q \in Processes, m \in Mutexes :
           <<q, m>> \in Processes \X Mutexes
             /\ Waits[<<q, m>>] = resource[q][m].blocked
      /\ \A m \in Mutexes : L[m] = resource[p][m].blocked
  BY WaitsFacts
<1>2. Distinct(L)
  <2> SUFFICES ASSUME NEW k \in Mutexes, NEW l \in Mutexes,
                      NEW i \in DOMAIN resource[p][k].blocked,
                      NEW j \in DOMAIN resource[p][l].blocked,
                      resource[p][k].blocked[i] = resource[p][l].blocked[j]
               PROVE  k = l /\ i = j
    BY <1>1 DEF Distinct
  <2>1. <<p, k>> = <<p, l>> /\ i = j
    <3>1. <<p, k>> \in DOMAIN Waits /\ <<p, l>> \in DOMAIN Waits
      BY <1>1
    <3>2. /\ Waits[<<p, k>>] = resource[p][k].blocked
          /\ Waits[<<p, l>>] = resource[p][l].blocked
      BY <1>1
    <3>3. i \in DOMAIN Waits[<<p, k>>] /\ j \in DOMAIN Waits[<<p, l>>]
      BY <3>2
    <3>4. Waits[<<p, k>>][i] = Waits[<<p, l>>][j]
      BY <3>2
    <3>5. \A x, y \in DOMAIN Waits :
            \A a \in DOMAIN Waits[x], b \in DOMAIN Waits[y] :
              Waits[x][a] = Waits[y][b] => x = y /\ a = b
      BY Zenon DEF HomeMutex, Houses, Distinct
    <3> HIDE DEF L, S
    <3>6. QED
      BY <3>1, <3>3, <3>4, <3>5
  <2>2. QED
    BY <2>1
<1>3. Within(L, S)
  <2> SUFFICES ASSUME NEW k \in Mutexes, NEW i \in DOMAIN resource[p][k].blocked
               PROVE  resource[p][k].blocked[i] \in S
    BY <1>1 DEF Within
  <2>1. resource[p][k].blocked[i] \in In("BLOCKED_MUTEX")
    <3>1. <<p, k>> \in DOMAIN Waits /\ Waits[<<p, k>>] = resource[p][k].blocked
      BY <1>1
    <3>2. i \in DOMAIN Waits[<<p, k>>]
      BY <3>1
    <3>3. Waits[<<p, k>>][i] \in In("BLOCKED_MUTEX")
      BY <3>1, <3>2, Zenon DEF HomeMutex, Houses, Within
    <3>4. QED
      BY <3>1, <3>3
  <2>2. resource[p][k].blocked[i][1] = p
    BY DEF Locks, Lock
  <2>3. QED
    BY <2>1, <2>2 DEF In
<1>4. Covers(L, S)
  <2> SUFFICES ASSUME NEW u \in S
               PROVE  \E k \in Mutexes : \E i \in DOMAIN resource[p][k].blocked :
                        resource[p][k].blocked[i] = u
    BY <1>1 DEF Covers
  <2>1. u \in In("BLOCKED_MUTEX") /\ u[1] = p
    BY DEF In
  <2>2. PICK x \in DOMAIN Waits : \E i \in DOMAIN Waits[x] : Waits[x][i] = u
    BY <2>1 DEF HomeMutex, Houses, Covers
  <2>3. PICK q \in Processes, m \in Mutexes : x = <<q, m>>
    BY <1>1, <2>2
  <2>4. PICK i \in DOMAIN resource[q][m].blocked : resource[q][m].blocked[i] = u
    BY <1>1, <2>2, <2>3
  <2>5. q = p
    BY <2>1, <2>4 DEF Locks, Lock
  <2>6. QED
    BY <2>4, <2>5
<1>5. QED
  BY <1>2, <1>3, <1>4 DEF Houses

\* A thread stands once in the list its state names and in no other.
THEOREM OneHomeEach == Spec => []OneHome
<1>1. ASSUME IInv, ~staleHandover, NEW t \in Thread
      PROVE  LET waitLists == [m \in Mutexes |-> resource[t[1]][m].blocked] IN
             /\ IF state[t] = "READY"
                THEN InOne(ready, t) /\ t \in Range(ready[ReadyQueue(priority[t])])
                ELSE Spots(ready, t) = {}
             /\ IF state[t] = "BLOCKED_JOIN" THEN InOne(joinedBy, t)
                ELSE Spots(joinedBy, t) = {}
             /\ IF state[t] = "BLOCKED_MUTEX" THEN InOne(waitLists, t)
                ELSE Spots(waitLists, t) = {}
             /\ IF state[t] = "BLOCKED_IO_READY" THEN InOne(<<ioReady>>, t)
                ELSE Spots(<<ioReady>>, t) = {}
             /\ state[t] = "BLOCKED_IO_EXEC" <=> ioExec = t
             /\ state[t] = "EXIT" <=> exiting = t
             /\ state[t] = "EXEC" => exec = t
  <2>1. Types /\ Homes /\ Locks
    BY <1>1 DEF IInv, Sound
  <2>2. \A s : t \in In(s) <=> state[t] = s
    BY DEF In
  <2>3. IF state[t] = "READY"
        THEN InOne(ready, t) /\ t \in Range(ready[ReadyQueue(priority[t])])
        ELSE Spots(ready, t) = {}
    <3>1. Houses(ready, In("READY"))
      BY <2>1 DEF Homes, HomeReady
    <3>2. ASSUME state[t] = "READY"
          PROVE  t \in Range(ready[ReadyQueue(priority[t])])
      <4>1. PICK q \in DOMAIN ready : \E i \in DOMAIN ready[q] : ready[q][i] = t
        BY <2>2, <3>1, <3>2 DEF Houses, Covers
      <4>2. PICK i \in DOMAIN ready[q] : ready[q][i] = t
        BY <4>1
      <4>3. ReadyQueue(priority[t]) = q
        BY <2>1, <4>2 DEF Types, ReadyTypes, Homes, Queued
      <4>4. QED
        BY <4>2, <4>3 DEF Range
    <3>3. QED
      BY <2>2, <3>1, <3>2, SpotsFacts, Zenon
  <2>4. IF state[t] = "BLOCKED_JOIN" THEN InOne(joinedBy, t)
        ELSE Spots(joinedBy, t) = {}
    BY <2>1, <2>2, SpotsFacts, Zenon DEF Homes, HomeJoin
  <2>5. IF state[t] = "BLOCKED_MUTEX"
        THEN InOne([m \in Mutexes |-> resource[t[1]][m].blocked], t)
        ELSE Spots([m \in Mutexes |-> resource[t[1]][m].blocked], t) = {}
    <3> DEFINE W == {u \in Thread : state[u] = "BLOCKED_MUTEX" /\ u[1] = t[1]}
    <3>1. Houses([m \in Mutexes |-> resource[t[1]][m].blocked], W)
      BY <2>1, ThreadFacts, WaitListsFacts DEF Homes
    <3>2. t \in W <=> state[t] = "BLOCKED_MUTEX"
      OBVIOUS
    <3>3. QED
      BY <3>1, <3>2, SpotsFacts, Zenon
  <2>6. IF state[t] = "BLOCKED_IO_READY" THEN InOne(<<ioReady>>, t)
        ELSE Spots(<<ioReady>>, t) = {}
    BY <2>1, <2>2, SpotsFacts, Zenon DEF Homes, HomeIo
  <2>7. /\ state[t] = "BLOCKED_IO_EXEC" <=> ioExec = t
        /\ state[t] = "EXIT" <=> exiting = t
        /\ state[t] = "EXEC" => exec = t
    BY <2>1 DEF Homes, Singles
  <2>8. QED
    BY <2>3, <2>4, <2>5, <2>6, <2>7, Zenon
<1>2. IInv => OneHome
  BY <1>1, Zenon DEF OneHome
<1>3. QED
  BY <1>2, Invariance, PTL

\* A mutex has one holder at most, its instances count the holder and the
\* waiters, and nobody waits for a mutex without a holder.
THEOREM MutexesAccounted == Spec => []MutexAccounting
<1>1. ASSUME IInv, ~staleHandover, NEW p \in Processes, NEW m \in Mutexes
      PROVE  LET r == resource[p][m]
                 holders == Cardinality(Holders(p, m))
             IN
             /\ r.made => r.instances = 1 - holders - Len(r.blocked)
             /\ holders <= 1
             /\ r.blocked # <<>> => holders = 1
  <2> DEFINE r == resource[p][m]
             holders == Cardinality(Holders(p, m))
  <2>1. Types /\ Lock(p, m)
    BY <1>1 DEF IInv, Sound, Locks
  <2>2. r.blocked \in Seq(Thread) /\ Len(r.blocked) \in Nat /\ Len(<<>>) = 0
    BY <2>1, ResourceFacts, LenProperties
  <2>3. \A u : u \in Holders(p, m) <=> u \in Thread /\ u[1] = p /\ m \in Held(u)
    BY DEF Holders, Held
  <2>4. CASE \A u \in Thread : u[1] = p => m \notin Held(u)
    <3>1. Holders(p, m) = {}
      BY <2>3, <2>4
    <3>2. holders = 0
      BY <3>1, FS_EmptySet, Zenon
    <3>3. r.blocked = <<>> /\ (r.made => r.instances = 1)
      BY <2>1, <2>4, Zenon DEF Lock
    <3> HIDE DEF r, holders
    <3>4. r.made => r.instances = 1 - holders - Len(r.blocked)
      BY <2>2, <3>2, <3>3
    <3>5. QED
      BY <3>2, <3>3, <3>4 DEF r, holders
  <2>5. CASE \E u \in Thread : u[1] = p /\ m \in Held(u)
    <3>1. PICK h \in Thread : h[1] = p /\ m \in Held(h)
      BY <2>5
    <3>2. /\ r.instances = - Len(r.blocked)
          /\ \A u \in Thread : u[1] = p /\ m \in Held(u) => u = h
      BY <2>1, <3>1, Zenon DEF Lock
    <3>3. Holders(p, m) = {h}
      <4>1. \A u : u \in Holders(p, m) <=> u = h
        BY <2>3, <3>1, <3>2, Zenon
      <4>2. QED
        BY <4>1
    <3>4. holders = 1
      BY <3>3, FS_Singleton, Zenon
    <3> HIDE DEF r, holders
    <3>5. r.instances = 1 - holders - Len(r.blocked)
      BY <2>2, <3>2, <3>4
    <3>6. QED
      BY <3>4, <3>5 DEF r, holders
  <2>6. QED
    BY <2>4, <2>5
<1>2. IInv => MutexAccounting
  BY <1>1, Zenon DEF MutexAccounting
<1>3. QED
  BY <1>2, Invariance, PTL

\* Whoever waits in THREAD_JOIN waits for a TCB of its process that exists.
THEOREM JoinedAlive == Spec => []JoinedLives
<1>1. ASSUME IInv, ~staleHandover, NEW t \in Thread, joinedBy[t] # <<>>
      PROVE  Exists(t) /\ \A u \in Range(joinedBy[t]) : u[1] = t[1] /\ u # t
  <2>1. Joins
    BY <1>1 DEF IInv, Sound
  <2>2. QED
    BY <1>1, <2>1 DEF Joins, Exists, Range
<1>2. IInv => JoinedLives
  BY <1>1, Zenon DEF JoinedLives
<1>3. QED
  BY <1>2, Invariance, PTL

\* A process is alive exactly while it has a TCB, and its mutexes with it.
THEOREM ProcessesLive == Spec => []ProcessLives
<1>1. ASSUME IInv, ~staleHandover, NEW p \in Processes
      PROVE  /\ process[p] = "ALIVE" <=> Counter(p) > 0
             /\ process[p] # "ALIVE" => \A m \in Mutexes : ~resource[p][m].made
  <2> DEFINE S == {t \in Thread : t[1] = p /\ Exists(t)}
  <2>1. process[p] = "ALIVE" <=> S # {}
    BY <1>1 DEF IInv, Sound, Procs, Populated
  <2>2. IsFiniteSet(S)
    BY MembersFinite
  <2>3. S # {} <=> Cardinality(S) > 0
    <3> HIDE DEF S
    <3>1. Cardinality(S) \in Nat /\ (Cardinality(S) = 0 <=> S = {})
      BY <2>2, FS_CardinalityType, FS_EmptySet, Zenon
    <3>2. QED
      BY <3>1
  <2>4. Counter(p) = Cardinality(S)
    BY DEF Counter
  <2>5. process[p] # "ALIVE" => \A m \in Mutexes : ~resource[p][m].made
    BY <1>1 DEF IInv, Sound, Procs, Unmade
  <2> HIDE DEF S
  <2>6. QED
    BY <2>1, <2>3, <2>4, <2>5
<1>2. IInv => ProcessLives
  BY <1>1, Zenon DEF ProcessLives
<1>3. QED
  BY <1>2, Invariance, PTL

\* Whenever the scheduler will still use TCB_EXEC, the thread is running.
THEOREM ExecNeverDangles == Spec => []ExecNotDangling
<1>1. ASSUME IInv, ~staleHandover
      PROVE  /\ sts \in {"CPU", "UPGRADE", "LOCKED"} => state[exec] = "EXEC"
             /\ sts \in {"DOWNGRADE", "AFTER"} /\ (redispatch \/ call = "PROCESS_EXIT")
                  => state[exec] = "EXEC"
             /\ sts = "EXITING" => exec = exiting
  BY <1>1 DEF IInv, Sound, Control, Running, Calling
<1>2. IInv => ExecNotDangling
  BY <1>1, Zenon DEF ExecNotDangling
<1>3. QED
  BY <1>2, Invariance, PTL

\* A thread the CPU was sent a KILL for does nothing but exit.
THEOREM KilledExitsOnly == Spec => []KilledOnlyExits
<1>1. ASSUME IInv, ~staleHandover, killSent
      PROVE  state[exec] \in {"EXEC", "EXIT", "NULL"}
  <2>1. Types /\ Homes /\ Control
    BY <1>1 DEF IInv, Sound
  <2>2. exec \in Thread
    BY <1>1, <2>1 DEF Types, StsTypes, ThreadOrNull, Control, Kills
  <2>3. CASE sts \in {"CPU", "UPGRADE", "LOCKED"}
    BY <2>1, <2>3 DEF Control, Running
  <2>4. CASE sts = "DOWNGRADE"
    BY <1>1, <2>1, <2>4 DEF Control, Running, Calling, Kills
  <2>5. CASE sts = "EXITING"
    BY <2>1, <2>2, <2>5 DEF Control, Running, Homes, Singles
  <2>6. CASE sts \in {"IDLE", "AFTER"}
    BY <1>1, <2>1, <2>6 DEF Control, Kills
  <2>7. QED
    BY <2>1, <2>3, <2>4, <2>5, <2>6 DEF Types, StsTypes
<1>2. IInv => KilledOnlyExits
  BY <1>1, Zenon DEF KilledOnlyExits
<1>3. QED
  BY <1>2, Invariance, PTL
==============================================================================
