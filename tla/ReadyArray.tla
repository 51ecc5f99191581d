----------------------------- MODULE ReadyArray -----------------------------
(***************************************************************************)
(* ARRAY_READY, one list per priority, which grows when a thread of a new  *)
(* priority is created (array_ready_resize in kernel.c).  The short-term   *)
(* scheduler, in THREAD_CREATE, and the long-term scheduler do so side by  *)
(* side: both hold RWLOCK_SCHEDULING for reading, and look at              *)
(* PRIORITY_COUNT before they take RWLOCK_ARRAY_READY for writing.         *)
(*                                                                         *)
(* This is PRIORIDADES and CMN; with FIFO the array never grows.           *)
(***************************************************************************)
EXTENDS Integers, FiniteSets, SequencesExt

CONSTANTS
  Thread,        \* the threads that are ever created
  MaxPriority,   \* bound: priorities are 0 .. MaxPriority
  NoThread       \* no thread

ASSUME ReadyArrayAssumption == MaxPriority \in Nat /\ NoThread \notin Thread

VARIABLES
  st,            \* current_state: "NEW", "READY", "EXEC", "BLOCKED", "EXIT"
  priority,      \* t_TCB.priority
  count,         \* PRIORITY_COUNT
  lists,         \* ARRAY_READY
  semSts,        \* SEM_SHORT_TERM_SCHEDULER
  exec,          \* TCB_EXEC, while the short-term scheduler has one
  pc,            \* where each creator is in array_ready_update and after it
  hand,          \* the thread it creates
  raced,         \* an array that had grown meanwhile was resized
  fault          \* ARRAY_READY was used out of its bounds

vars == <<st, priority, count, lists, semSts, exec, pc, hand, raced, fault>>
creatorVars == <<pc, hand>>

Creator  == {"STS", "LTS"}
Priority == 0 .. MaxPriority

\* array_ready_init makes the list of priority 0
Init ==
  /\ st = [t \in Thread |-> "NEW"]
  /\ priority = [t \in Thread |-> 0]
  /\ count = 1 /\ lists = [q \in {0} |-> <<>>]
  /\ semSts = 0 /\ exec = NoThread
  /\ pc = [c \in Creator |-> "IDLE"]
  /\ hand = [c \in Creator |-> NoThread]
  /\ raced = FALSE /\ fault = FALSE

\* insert_state_ready of a thread with the given priority
InsertStateReady(t) ==
  IF priority[t] < count
  THEN /\ st' = [st EXCEPT ![t] = "READY"]
       /\ lists' = [lists EXCEPT ![priority[t]] = Append(@, t)]
       /\ semSts' = semSts + 1
       /\ UNCHANGED fault
  ELSE fault' = TRUE /\ UNCHANGED <<st, lists, semSts>>

-----------------------------------------------------------------------------
(* Creating a thread *)

\* The short-term scheduler creates threads for TCB_EXEC only
May(c) == pc[c] = "IDLE" /\ (c = "STS" => exec # NoThread)

\* array_ready_resize up to its early return
Check(c, t, prio) ==
  /\ ~fault /\ May(c)
  /\ st[t] = "NEW" /\ \A d \in Creator : hand[d] # t
  /\ priority' = [priority EXCEPT ![t] = prio]
  /\ hand' = [hand EXCEPT ![c] = t]
  /\ pc' = [pc EXCEPT ![c] = IF prio < count THEN "INSERT" ELSE "RESIZE"]
  /\ UNCHANGED <<st, count, lists, semSts, exec, raced, fault>>

\* The array, resized to end with the list of the given priority
ResizedAnew(prio) == [q \in 0 .. prio |-> <<>>]
ResizedShort(prio) == [q \in 0 .. prio - 1 |-> lists[q]]
Resized(prio) == [q \in 0 .. prio |-> IF q < count THEN lists[q] ELSE <<>>]

Resize(c) ==
  LET prio == priority[hand[c]] IN
  /\ ~fault /\ pc[c] = "RESIZE"
  /\ lists' = Resized(prio) /\ count' = prio + 1
  /\ raced' = (raced \/ prio < count)
  /\ pc' = [pc EXCEPT ![c] = "INSERT"]
  /\ UNCHANGED <<st, priority, semSts, exec, hand, fault>>

Insert(c) ==
  /\ ~fault /\ pc[c] = "INSERT"
  /\ InsertStateReady(hand[c])
  /\ hand' = [hand EXCEPT ![c] = NoThread]
  /\ pc' = [pc EXCEPT ![c] = "IDLE"]
  /\ UNCHANGED <<priority, count, exec, raced>>

-----------------------------------------------------------------------------
(* The other users of the array *)

\* get_state_ready: the first thread of the first list that has one, or none
Pick ==
  /\ ~fault /\ pc["STS"] = "IDLE" /\ exec = NoThread /\ semSts > 0
  /\ semSts' = semSts - 1
  /\ \/ /\ \A q \in 0 .. count - 1 : lists[q] = <<>>
        /\ UNCHANGED <<st, lists, exec>>
     \/ \E q \in 0 .. count - 1 :
          /\ lists[q] # <<>> /\ \A r \in 0 .. q - 1 : lists[r] = <<>>
          /\ exec' = Head(lists[q])
          /\ lists' = [lists EXCEPT ![q] = Tail(@)]
          /\ st' = [st EXCEPT ![Head(lists[q])] = "EXEC"]
  /\ UNCHANGED <<priority, count, creatorVars, raced, fault>>

\* The end of a quantum
Requeue ==
  /\ ~fault /\ pc["STS"] = "IDLE" /\ exec # NoThread
  /\ InsertStateReady(exec)
  /\ exec' = NoThread
  /\ UNCHANGED <<priority, count, creatorVars, raced>>

Leave(state) ==
  /\ ~fault /\ pc["STS"] = "IDLE" /\ exec # NoThread
  /\ st' = [st EXCEPT ![exec] = state]
  /\ exec' = NoThread
  /\ UNCHANGED <<priority, count, lists, semSts, creatorVars, raced, fault>>

\* The end of an IO operation, a dump, ...
Unblock(t) ==
  /\ ~fault /\ st[t] = "BLOCKED"
  /\ InsertStateReady(t)
  /\ UNCHANGED <<priority, count, exec, creatorVars, raced>>

Next ==
  \/ \E c \in Creator, t \in Thread, prio \in Priority : Check(c, t, prio)
  \/ \E c \in Creator : Resize(c) \/ Insert(c)
  \/ Pick \/ Requeue \/ Leave("BLOCKED") \/ Leave("EXIT")
  \/ \E t \in Thread : Unblock(t)

Spec == Init /\ [][Next]_vars
-----------------------------------------------------------------------------
(* Properties *)

\* The type invariant.
TypeOK ==
  /\ st \in [Thread -> {"NEW", "READY", "EXEC", "BLOCKED", "EXIT"}]
  /\ priority \in [Thread -> Priority]
  /\ count \in 1 .. MaxPriority + 1
  /\ lists \in [0 .. count - 1 -> Seq(Thread)]
  /\ semSts \in Nat /\ exec \in Thread \cup {NoThread}
  /\ pc \in [Creator -> {"IDLE", "RESIZE", "INSERT"}]
  /\ hand \in [Creator -> Thread \cup {NoThread}]
  /\ raced \in BOOLEAN /\ fault \in BOOLEAN

\* The scheduler finds every READY thread in the list of its priority: lists
\* that "ya fue creada" (kernel.c) are not touched by a resize.
ReadyReachable ==
  \A t \in Thread : st[t] = "READY" =>
    priority[t] < count /\ t \in Range(lists[priority[t]])

\* Growing the array keeps every thread where it is and never lets it be used
\* out of its bounds, and the scheduler is woken once per READY thread, unless
\* both creators saw the same PRIORITY_COUNT and the smaller resize came last.
LostOnlyByRace ==
  ~raced =>
    /\ ReadyReachable
    /\ ~fault
    /\ semSts = Cardinality({t \in Thread : st[t] = "READY"})
=============================================================================
