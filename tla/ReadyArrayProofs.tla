-------------------------- MODULE ReadyArrayProofs --------------------------
(***************************************************************************)
(* Growing ARRAY_READY loses nobody unless its two creators race, for any  *)
(* threads and priorities.  The inductive invariant says, as long as the   *)
(* array has only grown, where every thread is: those in hand of a creator *)
(* are NEW (Hands), the lists hold the READY threads, each once (InPlace,  *)
(* Standing), and whoever will enter a list has one (HasList).             *)
(***************************************************************************)
EXTENDS ReadyArray, FiniteSetTheorems, TLAPS

ReadySet == {t \in Thread : st[t] = "READY"}

Busy == \A c \in Creator : pc[c] # "IDLE" => hand[c] \in Thread

\* A creator holds a NEW thread, and not the other's
Hands ==
  /\ \A c \in Creator : hand[c] # NoThread => st[hand[c]] = "NEW"
  /\ hand["STS"] = hand["LTS"] => hand["STS"] = NoThread

\* The lists hold READY threads only, of their priority, each once
InPlace ==
  /\ \A q \in 0 .. count - 1 : \A i \in 1 .. Len(lists[q]) :
       st[lists[q][i]] = "READY" /\ priority[lists[q][i]] = q
  /\ \A q \in 0 .. count - 1 : \A i, j \in 1 .. Len(lists[q]) :
       lists[q][i] = lists[q][j] => i = j

\* ... and every READY thread stands in one
Standing ==
  \A t \in Thread : st[t] = "READY" =>
    /\ priority[t] < count
    /\ \E i \in 1 .. Len(lists[priority[t]]) : lists[priority[t]][i] = t

\* Who enters a list later has one
HasList ==
  /\ \A t \in Thread : st[t] \in {"EXEC", "BLOCKED"} => priority[t] < count
  /\ \A c \in Creator : pc[c] = "INSERT" => priority[hand[c]] < count
  /\ exec # NoThread => st[exec] = "EXEC"

Counted == IsFiniteSet(ReadySet) /\ semSts = Cardinality(ReadySet)

Kept == ~fault /\ Hands /\ InPlace /\ Standing /\ HasList /\ Counted

IInv == TypeOK /\ Busy /\ (~raced => Kept)

-----------------------------------------------------------------------------
(* The two ways a list changes *)

\* insert_state_ready keeps the lists in place when the thread's list exists
\* (SafeInsert of a thread that is not READY).
LEMMA InsertKeeps ==
  ASSUME TypeOK, ~fault, InPlace, Standing, Counted,
         NEW t \in Thread, st[t] # "READY", priority[t] < count,
         InsertStateReady(t), UNCHANGED <<priority, count>>
  PROVE  ~fault' /\ InPlace' /\ Standing' /\ Counted'
<1> DEFINE q0 == priority[t]
<1>1. q0 \in 0 .. count - 1 /\ lists[q0] \in Seq(Thread)
  BY DEF TypeOK, Priority
<1>2. /\ st' = [st EXCEPT ![t] = "READY"] /\ semSts' = semSts + 1 /\ ~fault'
      /\ lists' = [lists EXCEPT ![q0] = Append(@, t)]
  BY DEF InsertStateReady
<1>3. /\ Len(lists'[q0]) = Len(lists[q0]) + 1
      /\ lists'[q0][Len(lists[q0]) + 1] = t
      /\ \A i \in 1 .. Len(lists[q0]) : lists'[q0][i] = lists[q0][i]
  BY <1>1, <1>2 DEF TypeOK
<1>4. \A q \in 0 .. count - 1 : q # q0 => lists'[q] = lists[q]
  BY <1>1, <1>2 DEF TypeOK
<1>5. \A q \in 0 .. count - 1 : \A i \in 1 .. Len(lists[q]) :
        lists[q][i] \in Thread /\ lists[q][i] # t
  BY DEF TypeOK, InPlace
<1>6. InPlace'
  <2>1. ASSUME NEW q \in 0 .. count - 1, NEW i \in 1 .. Len(lists'[q])
        PROVE  st'[lists'[q][i]] = "READY" /\ priority[lists'[q][i]] = q
    <3>1. CASE i \in 1 .. Len(lists[q])
      <4>1. lists'[q][i] = lists[q][i]
        BY <1>3, <1>4, <3>1
      <4>2. st[lists[q][i]] = "READY" /\ priority[lists[q][i]] = q
        BY <3>1 DEF InPlace
      <4>3. lists[q][i] \in Thread
        BY <1>5, <3>1
      <4>4. QED
        BY <1>2, <4>1, <4>2, <4>3 DEF TypeOK
    <3>2. CASE i \notin 1 .. Len(lists[q])
      <4>1. q = q0 /\ i = Len(lists[q0]) + 1
        BY <1>1, <1>3, <1>4, <2>1, <3>2
      <4>2. QED
        BY <1>2, <1>3, <4>1 DEF TypeOK
    <3>3. QED
      BY <3>1, <3>2
  <2>2. ASSUME NEW q \in 0 .. count - 1, NEW i \in 1 .. Len(lists'[q]),
               NEW j \in 1 .. Len(lists'[q]), lists'[q][i] = lists'[q][j]
        PROVE  i = j
    <3>1. CASE q # q0
      BY <1>4, <2>2, <3>1 DEF InPlace
    <3>2. CASE q = q0
      <4>1. \A k \in 1 .. Len(lists'[q]) :
              \/ k \in 1 .. Len(lists[q]) /\ lists'[q][k] = lists[q][k]
              \/ k = Len(lists[q]) + 1 /\ lists'[q][k] = t
        <5>1. \A k \in 1 .. Len(lists'[q0]) :
                \/ k \in 1 .. Len(lists[q0]) /\ lists'[q0][k] = lists[q0][k]
                \/ k = Len(lists[q0]) + 1 /\ lists'[q0][k] = t
          <6>1. Len(lists[q0]) \in Nat
            BY <1>1
          <6>2. \A k \in 1 .. Len(lists'[q0]) :
                  k \in 1 .. Len(lists[q0]) \/ k = Len(lists[q0]) + 1
            BY <1>3, <6>1
          <6>3. QED
            BY <1>3, <6>2
        <5>2. QED
          BY <3>2, <5>1
      <4>2. QED
        BY <1>5, <2>2, <4>1 DEF InPlace
    <3>3. QED
      BY <3>1, <3>2
  <2>3. QED
    BY <2>1, <2>2 DEF InPlace
<1>7. Standing'
  <2>1. SUFFICES ASSUME NEW u \in Thread, st'[u] = "READY"
                 PROVE  /\ priority[u] < count
                        /\ \E i \in 1 .. Len(lists'[priority[u]]) :
                             lists'[priority[u]][i] = u
    BY DEF Standing
  <2>2. CASE u = t
    BY <1>1, <1>3, <2>2
  <2>3. CASE u # t
    <3>1. st[u] = "READY"
      BY <1>2, <2>1, <2>3 DEF TypeOK
    <3>2. PICK i \in 1 .. Len(lists[priority[u]]) : lists[priority[u]][i] = u
      BY <3>1 DEF Standing
    <3>3. priority[u] \in 0 .. count - 1
      BY <3>1 DEF Standing, TypeOK, Priority
    <3>4. priority[u] < count
      BY <3>1 DEF Standing
    <3>5. CASE priority[u] = q0
      <4>1. lists[q0] \in Seq(Thread) /\ i \in 1 .. Len(lists[q0])
        BY <1>1, <3>2, <3>5
      <4>2. i \in 1 .. Len(lists'[q0]) /\ lists'[q0][i] = u
        BY <1>3, <3>2, <3>5, <4>1
      <4>3. QED
        BY <3>4, <3>5, <4>2
    <3>6. CASE priority[u] # q0
      <4>1. lists'[priority[u]] = lists[priority[u]]
        BY <1>4, <3>3, <3>6
      <4>2. QED
        BY <3>2, <3>4, <4>1
    <3>7. QED
      BY <3>5, <3>6
  <2>4. QED
    BY <2>2, <2>3
<1>8. Counted'
  <2>1. ReadySet' = ReadySet \cup {t} /\ t \notin ReadySet
    BY <1>2 DEF ReadySet, TypeOK
  <2>2. QED
    BY <1>2, <2>1, FS_AddElement DEF Counted
<1>9. QED
  BY <1>2, <1>6, <1>7, <1>8

\* get_state_ready takes the first thread of a list out of it and out of READY.
LEMMA TakeKeeps ==
  ASSUME TypeOK, InPlace, Standing, Counted,
         NEW q0 \in 0 .. count - 1, lists[q0] # <<>>,
         lists' = [lists EXCEPT ![q0] = Tail(@)],
         st' = [st EXCEPT ![Head(lists[q0])] = "EXEC"],
         semSts' = semSts - 1, UNCHANGED <<priority, count>>
  PROVE  InPlace' /\ Standing' /\ Counted'
<1> DEFINE t == Head(lists[q0])
<1>1. /\ lists[q0] \in Seq(Thread) /\ Len(lists[q0]) > 0
      /\ t \in Thread /\ t = lists[q0][1]
  BY DEF TypeOK
<1>2. /\ Len(lists'[q0]) = Len(lists[q0]) - 1
      /\ \A i \in 1 .. Len(lists[q0]) - 1 : lists'[q0][i] = lists[q0][i + 1]
  BY <1>1 DEF TypeOK
<1>3. \A q \in 0 .. count - 1 : q # q0 => lists'[q] = lists[q]
  BY DEF TypeOK
<1>4. st[t] = "READY" /\ priority[t] = q0
  BY <1>1 DEF InPlace
<1>5. InPlace'
  <2>1. ASSUME NEW q \in 0 .. count - 1, NEW i \in 1 .. Len(lists'[q])
        PROVE  st'[lists'[q][i]] = "READY" /\ priority[lists'[q][i]] = q
    <3>1. CASE q = q0
      <4>1. i + 1 \in 1 .. Len(lists[q0]) /\ lists'[q][i] = lists[q0][i + 1]
        BY <1>1, <1>2, <2>1, <3>1
      <4>2. lists[q0][i + 1] # t /\ lists[q0][i + 1] \in Thread
        BY <1>1, <4>1, <2>1 DEF InPlace
      <4>3. QED
        BY <4>1, <4>2, <3>1 DEF InPlace, TypeOK
    <3>2. CASE q # q0
      <4>1. i \in 1 .. Len(lists[q]) /\ lists'[q][i] = lists[q][i]
        BY <1>3, <2>1, <3>2
      <4>2. priority[lists[q][i]] = q /\ lists[q][i] \in Thread
        BY <4>1 DEF InPlace, TypeOK
      <4>3. QED
        BY <1>4, <4>1, <4>2, <3>2 DEF InPlace, TypeOK
    <3>3. QED
      BY <3>1, <3>2
  <2>2. ASSUME NEW q \in 0 .. count - 1, NEW i \in 1 .. Len(lists'[q]),
               NEW j \in 1 .. Len(lists'[q]), lists'[q][i] = lists'[q][j]
        PROVE  i = j
    <3>1. CASE q = q0
      <4>1. /\ i + 1 \in 1 .. Len(lists[q0]) /\ lists'[q][i] = lists[q0][i + 1]
            /\ j + 1 \in 1 .. Len(lists[q0]) /\ lists'[q][j] = lists[q0][j + 1]
        BY <1>1, <1>2, <2>2, <3>1
      <4>2. i + 1 = j + 1
        BY <2>2, <4>1 DEF InPlace
      <4>3. QED
        BY <1>1, <1>2, <2>2, <3>1, <4>2
    <3>2. CASE q # q0
      BY <1>3, <2>2, <3>2 DEF InPlace
    <3>3. QED
      BY <3>1, <3>2
  <2>3. QED
    BY <2>1, <2>2 DEF InPlace
<1>6. Standing'
  <2>1. SUFFICES ASSUME NEW u \in Thread, st'[u] = "READY"
                 PROVE  /\ priority[u] < count
                        /\ \E i \in 1 .. Len(lists'[priority[u]]) :
                             lists'[priority[u]][i] = u
    BY DEF Standing
  <2>2. u # t /\ st[u] = "READY"
    BY <1>1, <2>1 DEF TypeOK
  <2>3. PICK i \in 1 .. Len(lists[priority[u]]) : lists[priority[u]][i] = u
    BY <2>2 DEF Standing
  <2>4. priority[u] \in 0 .. count - 1
    BY <2>2 DEF Standing, TypeOK, Priority
  <2>5. priority[u] < count
    BY <2>2 DEF Standing
  <2>6. CASE priority[u] = q0
    <3>1. i - 1 \in 1 .. Len(lists[q0]) - 1
      BY <1>1, <2>2, <2>3, <2>6
    <3>2. lists'[q0][i - 1] = u
      BY <1>1, <1>2, <2>3, <2>6, <3>1
    <3>3. i - 1 \in 1 .. Len(lists'[q0])
      BY <1>2, <3>1
    <3>4. QED
      BY <2>6, <2>5, <3>2, <3>3
  <2>7. CASE priority[u] # q0
    <3>1. lists'[priority[u]] = lists[priority[u]]
      BY <1>3, <2>4, <2>7
    <3>2. QED
      BY <2>3, <2>5, <3>1
  <2>8. QED
    BY <2>6, <2>7
<1>7. Counted'
  <2>1. ReadySet' = ReadySet \ {t} /\ t \in ReadySet
    BY <1>1, <1>4 DEF ReadySet, TypeOK
  <2>2. QED
    BY <2>1, FS_RemoveElement DEF Counted
<1>8. QED
  BY <1>5, <1>6, <1>7

-----------------------------------------------------------------------------
(* The steps *)

\* Inserting keeps the types, whether or not the list exists.
LEMMA InsertTypes ==
  ASSUME TypeOK, NEW t \in Thread, InsertStateReady(t)
  PROVE  /\ st' \in [Thread -> {"NEW", "READY", "EXEC", "BLOCKED", "EXIT"}]
         /\ lists' \in [0 .. count - 1 -> Seq(Thread)]
         /\ semSts' \in Nat /\ fault' \in BOOLEAN
<1>1. CASE priority[t] < count
  <2>1. priority[t] \in 0 .. count - 1
    BY <1>1 DEF TypeOK, Priority
  <2>2. Append(lists[priority[t]], t) \in Seq(Thread)
    BY <2>1 DEF TypeOK
  <2>3. /\ st' = [st EXCEPT ![t] = "READY"] /\ semSts' = semSts + 1
        /\ lists' = [lists EXCEPT ![priority[t]] = Append(@, t)]
        /\ fault' = fault
    BY <1>1 DEF InsertStateReady
  <2>4. lists' \in [0 .. count - 1 -> Seq(Thread)]
    BY <2>1, <2>2, <2>3 DEF TypeOK
  <2>5. QED
    BY <2>3, <2>4 DEF TypeOK
<1>2. CASE ~(priority[t] < count)
  BY <1>2 DEF TypeOK, InsertStateReady
<1>3. QED
  BY <1>1, <1>2

\* Every step keeps the types, and a creator at work has a thread.
LEMMA TypeStep ==
  ASSUME TypeOK, Busy, [Next]_vars
  PROVE  TypeOK' /\ Busy'
<1> USE ReadyArrayAssumption DEF Busy, Creator, Priority
<1>1. ASSUME NEW c \in Creator, NEW t \in Thread, NEW prio \in Priority,
             Check(c, t, prio)
      PROVE  TypeOK' /\ Busy'
  BY <1>1 DEF TypeOK, Check, May
<1>2. ASSUME NEW c \in Creator, Resize(c) PROVE TypeOK' /\ Busy'
  <2>1. hand[c] \in Thread
    BY <1>2 DEF Resize
  <2>2. priority[hand[c]] \in Nat /\ priority[hand[c]] <= MaxPriority
    BY <2>1 DEF TypeOK
  <2>3. count' = priority[hand[c]] + 1
    BY <1>2 DEF Resize
  <2>4. Resized(priority[hand[c]])
          \in [0 .. priority[hand[c]] -> Seq(Thread)]
    BY <2>2 DEF TypeOK, Resized
  <2>5. lists' \in [0 .. count' - 1 -> Seq(Thread)]
    BY <1>2, <2>2, <2>3, <2>4 DEF Resize
  <2>6. count' \in 1 .. MaxPriority + 1
    BY <2>2, <2>3
  <2>7. QED
    BY <1>2, <2>5, <2>6 DEF TypeOK, Resize
<1>3. ASSUME NEW c \in Creator, Insert(c) PROVE TypeOK' /\ Busy'
  <2>1. hand[c] \in Thread
    BY <1>3 DEF Insert
  <2>2. QED
    BY <1>3, <2>1, InsertTypes DEF TypeOK, Insert
<1>4. CASE Pick
  <2>1. CASE \A q \in 0 .. count - 1 : lists[q] = <<>>
    BY <1>4, <2>1 DEF TypeOK, Pick, creatorVars
  <2>2. ASSUME NEW q \in 0 .. count - 1, lists[q] # <<>>,
               exec' = Head(lists[q]), lists' = [lists EXCEPT ![q] = Tail(@)],
               st' = [st EXCEPT ![Head(lists[q])] = "EXEC"]
        PROVE  TypeOK' /\ Busy'
    <3>1. Head(lists[q]) \in Thread /\ Tail(lists[q]) \in Seq(Thread)
      BY <2>2 DEF TypeOK
    <3>2. QED
      BY <1>4, <2>2, <3>1 DEF TypeOK, Pick, creatorVars
  <2>3. QED
    BY <1>4, <2>1, <2>2 DEF Pick
<1>5. CASE Requeue
  <2>1. exec \in Thread
    BY <1>5 DEF Requeue, TypeOK
  <2>2. QED
    BY <1>5, <2>1, InsertTypes DEF TypeOK, Requeue, creatorVars
<1>6. ASSUME NEW s \in {"BLOCKED", "EXIT"}, Leave(s) PROVE TypeOK' /\ Busy'
  BY <1>6 DEF TypeOK, Leave, creatorVars
<1>7. ASSUME NEW t \in Thread, Unblock(t) PROVE TypeOK' /\ Busy'
  BY <1>7, InsertTypes DEF TypeOK, Unblock, creatorVars
<1>8. CASE UNCHANGED vars
  BY <1>8 DEF TypeOK, vars, creatorVars
<1>9. QED
  BY <1>1, <1>2, <1>3, <1>4, <1>5, <1>6, <1>7, <1>8 DEF Next

\* A creator that has looked at PRIORITY_COUNT holds its thread back, and the
\* array only changes by growing.
LEMMA CreatorStep ==
  ASSUME TypeOK, Busy, Kept, ~raced', NEW c \in Creator,
         \/ \E t \in Thread, prio \in Priority : Check(c, t, prio)
         \/ Resize(c) \/ Insert(c)
  PROVE  Kept'
<1>1. ASSUME NEW t \in Thread, NEW prio \in Priority, Check(c, t, prio)
      PROVE  Kept'
  <2>1. /\ st[t] = "NEW" /\ UNCHANGED <<st, count, lists, semSts, exec, fault>>
        /\ priority' = [priority EXCEPT ![t] = prio]
        /\ hand' = [hand EXCEPT ![c] = t]
        /\ pc' = [pc EXCEPT ![c] = IF prio < count THEN "INSERT" ELSE "RESIZE"]
    BY <1>1 DEF Check
  <2>2. \A u \in Thread : u # t => priority'[u] = priority[u]
    BY <2>1 DEF TypeOK
  <2>3. \A d \in Creator : hand[d] # t
    BY <1>1 DEF Check
  <2>4. Hands'
    BY <2>1, <2>3 DEF Kept, Hands, Creator, TypeOK
  <2>5. InPlace'
    <3>1. \A q \in 0 .. count - 1 : \A i \in 1 .. Len(lists[q]) :
            lists[q][i] \in Thread /\ lists[q][i] # t
      BY <2>1 DEF Kept, InPlace, TypeOK
    <3>2. QED
      BY <2>1, <2>2, <3>1 DEF Kept, InPlace
  <2>6. Standing'
    BY <2>1, <2>2 DEF Kept, Standing
  <2>7. HasList'
    <3>1. \A u \in Thread : st'[u] \in {"EXEC", "BLOCKED"} => priority'[u] < count'
      BY <2>1, <2>2 DEF Kept, HasList
    <3>2. ASSUME NEW d \in Creator, pc'[d] = "INSERT"
          PROVE  priority'[hand'[d]] < count'
      <4>1. CASE d = c
        BY <2>1, <3>2, <4>1 DEF TypeOK
      <4>2. CASE d # c
        <5>1. pc[d] = "INSERT" /\ hand'[d] = hand[d]
          BY <2>1, <3>2, <4>2 DEF TypeOK
        <5>2. hand[d] \in Thread /\ hand[d] # t
          BY <2>3, <5>1 DEF Busy
        <5>3. QED
          BY <2>1, <2>2, <5>1, <5>2 DEF Kept, HasList
      <4>3. QED
        BY <4>1, <4>2
    <3>3. QED
      BY <2>1, <3>1, <3>2 DEF Kept, HasList
  <2>8. Counted'
    BY <2>1 DEF Kept, Counted, ReadySet
  <2>9. QED
    BY <2>1, <2>4, <2>5, <2>6, <2>7, <2>8 DEF Kept
<1>2. CASE Resize(c)
  <2> DEFINE prio == priority[hand[c]]
  <2>1. /\ hand[c] \in Thread /\ prio \in Nat /\ count \in Nat
    BY <1>2, ReadyArrayAssumption DEF Resize, Busy, TypeOK, Priority
  <2>2. /\ lists' = Resized(prio) /\ count' = prio + 1
        /\ pc' = [pc EXCEPT ![c] = "INSERT"]
        /\ UNCHANGED <<st, priority, semSts, exec, hand, fault>>
        /\ ~(prio < count)
    BY <1>2 DEF Resize
  <2>3. /\ count <= count' - 1
        /\ \A q \in 0 .. count - 1 : q \in 0 .. count' - 1 /\ lists'[q] = lists[q]
        /\ \A q \in 0 .. count' - 1 : q \notin 0 .. count - 1 => lists'[q] = <<>>
    BY <2>1, <2>2 DEF Resized
  <2>4. Hands'
    BY <2>2 DEF Kept, Hands
  <2>5. InPlace'
    <3>1. ASSUME NEW q \in 0 .. count' - 1, NEW i \in 1 .. Len(lists'[q])
          PROVE  q \in 0 .. count - 1 /\ lists'[q] = lists[q]
      BY <2>3
    <3>2. QED
      BY <2>2, <3>1 DEF Kept, InPlace
  <2>6. Standing'
    <3>1. SUFFICES ASSUME NEW t \in Thread, st[t] = "READY"
                   PROVE  /\ priority[t] < count'
                          /\ \E i \in 1 .. Len(lists'[priority[t]]) :
                               lists'[priority[t]][i] = t
      BY <2>2 DEF Standing
    <3>2. priority[t] \in Nat /\ priority[t] < count
      BY <3>1 DEF Kept, Standing, TypeOK, Priority
    <3>3. priority[t] < count' /\ lists'[priority[t]] = lists[priority[t]]
      BY <2>1, <2>2, <2>3, <3>2
    <3>4. QED
      BY <3>1, <3>3 DEF Kept, Standing
  <2>7. HasList'
    <3>1. \A n \in Nat : n < count => n < count'
      BY <2>1, <2>2, <2>3
    <3>2. \A t \in Thread : priority[t] \in Nat
      BY DEF TypeOK, Priority
    <3>3. \A t \in Thread : st'[t] \in {"EXEC", "BLOCKED"} => priority'[t] < count'
      BY <2>2, <3>1, <3>2 DEF Kept, HasList
    <3>4. \A d \in Creator : pc'[d] = "INSERT" => priority'[hand'[d]] < count'
      <4>1. priority[hand[c]] < count'
        BY <2>1, <2>2
      <4>2. ASSUME NEW d \in Creator, d # c, pc'[d] = "INSERT"
            PROVE  priority[hand[d]] < count'
        <5>1. pc[d] = "INSERT" /\ hand[d] \in Thread
          BY <2>2, <4>2 DEF TypeOK, Busy
        <5>2. QED
          BY <3>1, <3>2, <5>1 DEF Kept, HasList
      <4>3. QED
        BY <2>2, <4>1, <4>2
    <3>5. QED
      BY <2>2, <3>3, <3>4 DEF Kept, HasList
  <2>8. QED
    BY <2>2, <2>4, <2>5, <2>6, <2>7 DEF Kept, Counted, ReadySet
<1>3. CASE Insert(c)
  <2> DEFINE t == hand[c]
  <2>1. /\ pc[c] = "INSERT" /\ InsertStateReady(t)
        /\ hand' = [hand EXCEPT ![c] = NoThread]
        /\ pc' = [pc EXCEPT ![c] = "IDLE"]
        /\ UNCHANGED <<priority, count, exec>>
    BY <1>3 DEF Insert
  <2>2. t \in Thread /\ st[t] = "NEW" /\ priority[t] < count
    BY <2>1, ReadyArrayAssumption DEF Busy, Kept, Hands, HasList
  <2>3. ~fault' /\ InPlace' /\ Standing' /\ Counted'
    BY <2>1, <2>2, InsertKeeps DEF Kept
  <2>4. st' = [st EXCEPT ![t] = "READY"]
    BY <2>1, <2>2 DEF InsertStateReady
  <2>5. \A d \in Creator : d # c /\ hand[d] # NoThread => hand[d] # t
    BY <2>2, ReadyArrayAssumption DEF Kept, Hands, Creator
  <2>6. Hands'
    BY <2>1, <2>4, <2>5 DEF Kept, Hands, Creator, TypeOK
  <2>7. HasList'
    <3>1. \A u \in Thread : st'[u] \in {"EXEC", "BLOCKED"} => priority'[u] < count'
      BY <2>1, <2>4 DEF Kept, HasList, TypeOK
    <3>2. \A d \in Creator : pc'[d] = "INSERT" => priority'[hand'[d]] < count'
      BY <2>1 DEF Kept, HasList, TypeOK
    <3>3. exec' # NoThread => st'[exec'] = "EXEC"
      BY <2>1, <2>2, <2>4 DEF Kept, HasList, TypeOK
    <3>4. QED
      BY <3>1, <3>2, <3>3 DEF HasList
  <2>8. QED
    BY <2>3, <2>6, <2>7 DEF Kept
<1>4. QED
  BY <1>1, <1>2, <1>3

\* A thread that is in no list enters its own.
LEMMA EnterStep ==
  ASSUME TypeOK, Busy, Kept, NEW t \in Thread,
         st[t] \in {"EXEC", "BLOCKED"}, InsertStateReady(t),
         exec' = NoThread \/ (exec' = exec /\ exec # t),
         UNCHANGED <<priority, count, pc, hand>>
  PROVE  Kept'
<1>1. priority[t] < count
  BY DEF Kept, HasList
<1>2. st' = [st EXCEPT ![t] = "READY"]
  BY <1>1 DEF InsertStateReady
<1>3. ~fault' /\ InPlace' /\ Standing' /\ Counted'
  BY <1>1, InsertKeeps DEF Kept
<1>4. Hands'
  BY <1>2 DEF Kept, Hands, TypeOK
<1>5. HasList'
  BY <1>2 DEF Kept, HasList, TypeOK
<1>6. QED
  BY <1>3, <1>4, <1>5 DEF Kept

\* TCB_EXEC blocks or exits: no list changes.
LEMMA LeaveStep ==
  ASSUME TypeOK, Busy, Kept, NEW s \in {"BLOCKED", "EXIT"}, Leave(s)
  PROVE  Kept'
<1>1. /\ exec \in Thread /\ st[exec] = "EXEC"
      /\ st' = [st EXCEPT ![exec] = s] /\ exec' = NoThread
      /\ UNCHANGED <<priority, count, lists, semSts, pc, hand, fault>>
  BY DEF Leave, creatorVars, TypeOK, Kept, HasList
<1>2. \A u \in Thread : st'[u] = "READY" <=> st[u] = "READY"
  BY <1>1 DEF TypeOK
<1>3. InPlace'
  <2>1. \A q \in 0 .. count - 1 : \A i \in 1 .. Len(lists[q]) :
          lists[q][i] \in Thread
    BY DEF TypeOK
  <2>2. QED
    BY <1>1, <1>2, <2>1 DEF Kept, InPlace
<1>4. Standing'
  BY <1>1, <1>2 DEF Kept, Standing
<1>5. Counted'
  <2>1. ReadySet' = ReadySet
    BY <1>2 DEF ReadySet
  <2>2. QED
    BY <1>1, <2>1 DEF Kept, Counted
<1>6. Hands' /\ HasList'
  BY <1>1 DEF Kept, Hands, HasList, TypeOK
<1>7. QED
  BY <1>1, <1>3, <1>4, <1>5, <1>6 DEF Kept

\* The short-term scheduler finds the thread its semaphore promises.
LEMMA PickStep ==
  ASSUME TypeOK, Busy, Kept, Pick
  PROVE  Kept'
<1>1. /\ exec = NoThread /\ semSts > 0 /\ semSts' = semSts - 1
      /\ UNCHANGED <<priority, count, pc, hand, fault>>
  BY DEF Pick, creatorVars
<1>2. ~\A q \in 0 .. count - 1 : lists[q] = <<>>
  <2>1. SUFFICES ASSUME \A q \in 0 .. count - 1 : lists[q] = <<>> PROVE FALSE
    OBVIOUS
  <2>2. \A t \in Thread : st[t] # "READY"
    <3>1. SUFFICES ASSUME NEW t \in Thread, st[t] = "READY" PROVE FALSE
      OBVIOUS
    <3>2. priority[t] \in 0 .. count - 1
      BY <3>1 DEF Kept, Standing, TypeOK, Priority
    <3>3. QED
      BY <2>1, <3>1, <3>2 DEF Kept, Standing
  <2>3. ReadySet = {}
    BY <2>2 DEF ReadySet
  <2>4. QED
    BY <1>1, <2>3, FS_EmptySet DEF Kept, Counted
<1>3. PICK q \in 0 .. count - 1 :
        /\ lists[q] # <<>> /\ exec' = Head(lists[q])
        /\ lists' = [lists EXCEPT ![q] = Tail(@)]
        /\ st' = [st EXCEPT ![Head(lists[q])] = "EXEC"]
  BY <1>2 DEF Pick
<1>4. InPlace' /\ Standing' /\ Counted'
  BY <1>1, <1>3, TakeKeeps DEF Kept
<1>5. Head(lists[q]) \in Thread /\ Head(lists[q]) = lists[q][1] /\ Len(lists[q]) > 0
  BY <1>3 DEF TypeOK
<1>6. st[exec'] = "READY" /\ priority[exec'] < count /\ exec' \in Thread
  BY <1>3, <1>5 DEF Kept, InPlace, TypeOK
<1>7. Hands'
  BY <1>1, <1>3, <1>6 DEF Kept, Hands, TypeOK
<1>8. HasList'
  BY <1>1, <1>3, <1>6 DEF Kept, HasList, TypeOK
<1>9. QED
  BY <1>1, <1>4, <1>7, <1>8 DEF Kept

\* As long as no resize has raced, every step keeps the lists.
LEMMA KeptStep ==
  ASSUME TypeOK, Busy, Kept, ~raced', [Next]_vars
  PROVE  Kept'
<1>1. ASSUME NEW c \in Creator,
             \/ \E t \in Thread, prio \in Priority : Check(c, t, prio)
             \/ Resize(c) \/ Insert(c)
      PROVE  Kept'
  BY <1>1, CreatorStep
<1>2. CASE Pick
  BY <1>2, PickStep
<1>3. CASE Requeue
  <2>1. PICK t \in Thread : t = exec
    BY <1>3 DEF Requeue, TypeOK
  <2>2. st[t] \in {"EXEC", "BLOCKED"} /\ InsertStateReady(t)
    BY <1>3, <2>1 DEF Requeue, Kept, HasList, InsertStateReady
  <2>3. /\ exec' = NoThread \/ (exec' = exec /\ exec # t)
        /\ UNCHANGED <<priority, count, pc, hand>>
    BY <1>3 DEF Requeue, creatorVars
  <2>4. QED
    BY <2>2, <2>3, EnterStep
<1>4. ASSUME NEW s \in {"BLOCKED", "EXIT"}, Leave(s) PROVE Kept'
  BY <1>4, LeaveStep
<1>5. ASSUME NEW t \in Thread, Unblock(t) PROVE Kept'
  <2>1. st[t] = "BLOCKED" /\ exec' = exec /\ InsertStateReady(t)
    BY <1>5 DEF Unblock
  <2>2. exec # t
    BY <2>1, ReadyArrayAssumption DEF Kept, HasList
  <2>3. QED
    BY <1>5, <2>1, <2>2, EnterStep DEF Unblock, creatorVars
<1>6. CASE UNCHANGED vars
  BY <1>6 DEF vars, creatorVars, Kept, Hands, InPlace, Standing, HasList,
     Counted, ReadySet
<1>7. QED
  BY <1>1, <1>2, <1>3, <1>4, <1>5, <1>6 DEF Next

-----------------------------------------------------------------------------
(* The theorems *)

\* The inductive invariant of the array and its two creators.
THEOREM Invariance == Spec => []IInv
<1>1. Init => IInv
  <2>1. SUFFICES ASSUME Init PROVE IInv
    OBVIOUS
  <2>2. TypeOK
    <3>1. count \in 1 .. MaxPriority + 1 /\ 0 .. count - 1 = {0}
      BY <2>1, ReadyArrayAssumption DEF Init
    <3>2. lists \in [0 .. count - 1 -> Seq(Thread)]
      BY <2>1, <3>1 DEF Init
    <3>3. priority \in [Thread -> Priority]
      BY <2>1, ReadyArrayAssumption DEF Init, Priority
    <3>4. QED
      BY <2>1, <3>1, <3>2, <3>3 DEF Init, TypeOK
  <2>3. Busy /\ Hands
    BY <2>1 DEF Init, Busy, Hands, Creator
  <2>4. ~fault /\ InPlace /\ Standing /\ HasList
    BY <2>1 DEF Init, InPlace, Standing, HasList, Creator
  <2>5. ReadySet = {}
    BY <2>1 DEF Init, ReadySet
  <2>6. Counted
    BY <2>1, <2>5, FS_EmptySet DEF Init, Counted
  <2>7. QED
    BY <2>2, <2>3, <2>4, <2>6 DEF IInv, Kept
<1>2. IInv /\ [Next]_vars => IInv'
  <2>1. SUFFICES ASSUME IInv, [Next]_vars PROVE IInv'
    OBVIOUS
  <2>2. TypeOK' /\ Busy'
    BY <2>1, TypeStep DEF IInv
  <2>3. ~raced' => ~raced
    BY <2>1 DEF Next, Check, Resize, Insert, Pick, Requeue, Leave, Unblock,
       vars, IInv, TypeOK
  <2>4. QED
    BY <2>1, <2>2, <2>3, KeptStep DEF IInv
<1>3. QED
  BY <1>1, <1>2, PTL DEF Spec

\* The array, its semaphore and the creators keep their types, even after a
\* race.
THEOREM TypeCorrect == Spec => []TypeOK
<1>1. IInv => TypeOK
  BY DEF IInv
<1>2. QED
  BY <1>1, Invariance, PTL

\* Whatever the threads and their priorities, a READY thread is only ever lost
\* by two resizes that looked at the same PRIORITY_COUNT (kernel.c 942-985).
THEOREM LostByRaceOnly == Spec => []LostOnlyByRace
<1>1. IInv => LostOnlyByRace
  <2>1. SUFFICES ASSUME IInv, ~raced
                 PROVE  /\ ReadyReachable /\ ~fault
                        /\ semSts = Cardinality({t \in Thread : st[t] = "READY"})
    BY DEF LostOnlyByRace
  <2>2. ReadyReachable
    <3>1. SUFFICES ASSUME NEW t \in Thread, st[t] = "READY"
                   PROVE  priority[t] < count /\ t \in Range(lists[priority[t]])
      BY DEF ReadyReachable
    <3>2. PICK i \in 1 .. Len(lists[priority[t]]) : lists[priority[t]][i] = t
      BY <2>1, <3>1 DEF IInv, Kept, Standing
    <3>3. priority[t] < count /\ priority[t] \in 0 .. count - 1
      BY <2>1, <3>1 DEF IInv, Kept, Standing, TypeOK, Priority
    <3>4. i \in DOMAIN lists[priority[t]]
      BY <2>1, <3>2, <3>3 DEF IInv, TypeOK
    <3>5. QED
      BY <3>2, <3>3, <3>4 DEF Range
  <2>3. QED
    BY <2>1, <2>2 DEF IInv, Kept, Counted, ReadySet
<1>2. QED
  BY <1>1, Invariance, PTL
=============================================================================
