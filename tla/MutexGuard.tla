----------------------------- MODULE MutexGuard -----------------------------
(***************************************************************************)
(* src/mutex_guard.c: FreeRTOS mutexes wrapped with a recorded owner and a *)
(* table of wait edges, in which every take looks for a cycle before it    *)
(* blocks.  Any number of tasks call the API in any order, under the one   *)
(* rule the kernel enforces: a mutex is given back by the task holding it. *)
(*                                                                         *)
(* A step of the model is a stretch of code between two points where the   *)
(* scheduler may switch tasks with an effect another task can see: a       *)
(* kernel semaphore call, or a whole critical section under s_guard        *)
(* (everything those sections read and write is touched under s_guard      *)
(* only).  The kernel's semaphores are modelled by what the code relies on.*)
(***************************************************************************)
EXTENDS WaitForGraph, Integers, FiniteSets

CONSTANTS Tasks,         \* the tasks that call the API
          MaxMutexes,    \* MAX_MUTEXES
          MaxWaiters,    \* MAX_MANAGED_TASKS, the length of s_wait
          LockCountMod,  \* 2^32 in the code: lock_count is a uint32_t
          Patience       \* the timeouts callers pass: {"forever", "finite"}

ASSUME NoTaskAssumption     == NoTask \notin Tasks \cup Int
ASSUME MaxMutexesAssumption == MaxMutexes \in Nat
ASSUME MaxWaitersAssumption == MaxWaiters \in Nat
ASSUME LockCountAssumption  == LockCountMod \in Nat \ {0}
ASSUME PatienceAssumption   == Patience \subseteq {"forever", "finite"}

VARIABLES
  started,      \* vTaskStartScheduler has been called
  mutexCount,   \* s_mutex_count
  owner,        \* s_mutexes[i].owner
  lockCount,    \* s_mutexes[i].lock_count
  waitTab,      \* s_wait[0 .. s_wait_count - 1]
  guard,        \* the task holding s_guard
  holder,       \* the task holding s_mutexes[i].sem, in the kernel
  pc,           \* where each task is inside the API; "idle" outside it
  target,       \* the argument idx of the call a task is in
  patience,     \* the argument timeout of the take a task is in
  result        \* what the last take or inspection of a task returned

tables == << started, mutexCount >>
locals == << pc, target, patience, result >>
vars   == << started, mutexCount, owner, lockCount, waitTab, guard, holder,
             pc, target, patience, result >>

Indices == 0 .. MaxMutexes - 1
Created == 0 .. mutexCount - 1
NoIndex == -1                       \* what MutexGuard_Create returns at the limit

(* Where a task queues for s_guard, and the section it enters with it. *)
Section ==
  [take_guard    |-> "record_edge",
   unlink_guard  |-> "unlink_edge",
   give_guard    |-> "clear_owner",
   inspect_guard |-> "inspect"]

Queued  == DOMAIN Section
Guarded == {"record_edge", "unlink_edge", "clear_owner", "inspect"}
Labels  == {"idle", "sem_wait", "sem_give"} \cup Queued \cup Guarded

-----------------------------------------------------------------------------
(* MutexGuard_Init: the tables are cleared and s_guard is a new mutex. *)
Init ==
  /\ started    = FALSE
  /\ mutexCount = 0
  /\ owner      = [i \in Indices |-> NoTask]
  /\ lockCount  = [i \in Indices |-> 0]
  /\ waitTab    = << >>
  /\ guard      = NoTask
  /\ holder     = [i \in Indices |-> NoTask]
  /\ pc         = [t \in Tasks |-> "idle"]
  /\ target     = [t \in Tasks |-> NoIndex]
  /\ patience   = [t \in Tasks |-> "forever"]
  /\ result     = [t \in Tasks |-> FALSE]

(* A slip in the next action: one mutex too many. *)
CreateOneTooMany ==
  /\ ~started
  /\ mutexCount <= MaxMutexes
  /\ mutexCount' = mutexCount + 1
  /\ UNCHANGED << started, owner, holder, lockCount, waitTab, guard, locals >>

(* MutexGuard_Create, called by main before the scheduler runs (it takes   *)
(* no lock).  At MAX_MUTEXES it returns -1 and changes nothing.            *)
Create ==
  /\ ~started
  /\ mutexCount < MaxMutexes
  /\ mutexCount' = mutexCount + 1
  /\ owner'     = [owner EXCEPT ![mutexCount] = NoTask]
  /\ holder'    = [holder EXCEPT ![mutexCount] = NoTask]
  /\ lockCount' = [lockCount EXCEPT ![mutexCount] = 0]
  /\ UNCHANGED << started, waitTab, guard, locals >>

StartScheduler ==
  /\ ~started
  /\ started' = TRUE
  /\ UNCHANGED << mutexCount, owner, lockCount, waitTab, guard, holder, locals >>

-----------------------------------------------------------------------------
(* Steps shared by the API functions. *)

Goto(t, label) == pc' = [pc EXCEPT ![t] = label]

(* A call returns: its arguments are gone. *)
Return(t) ==
  /\ Goto(t, "idle")
  /\ target'   = [target EXCEPT ![t] = NoIndex]
  /\ patience' = [patience EXCEPT ![t] = "forever"]

(* xSemaphoreTake(s_guard, portMAX_DELAY) *)
EnterGuard(t) ==
  /\ pc[t] \in Queued
  /\ guard = NoTask
  /\ guard' = t
  /\ Goto(t, Section[pc[t]])
  /\ UNCHANGED << tables, owner, lockCount, waitTab, holder,
                  target, patience, result >>

(* xSemaphoreGive(s_guard), the end of every guarded section *)
LeaveGuard == guard' = NoTask

-----------------------------------------------------------------------------
(* MutexGuard_Take(idx, timeout) *)

CallTake(t, idx, timeout) ==
  /\ started
  /\ pc[t] = "idle"
  /\ idx \in Created
  /\ Goto(t, "take_guard")
  /\ target'   = [target EXCEPT ![t] = idx]
  /\ patience' = [patience EXCEPT ![t] = timeout]
  /\ result'   = [result EXCEPT ![t] = FALSE]
  /\ UNCHANGED << tables, owner, lockCount, waitTab, guard, holder >>

(* An index outside the table is refused before anything is touched. *)
CallTakeInvalid(t, idx) ==
  /\ started
  /\ pc[t] = "idle"
  /\ idx \notin Created
  /\ result' = [result EXCEPT ![t] = FALSE]
  /\ UNCHANGED << tables, owner, lockCount, waitTab, guard, holder,
                  pc, target, patience >>

(* A slip in the next operator: the edge is never recorded. *)
WithoutEdge(t) == waitTab

(* The table with the caller's edge, or without it when s_wait is full. *)
WithEdge(t) ==
  IF Len(waitTab) < MaxWaiters
  THEN Append(waitTab, WaitEdge(t, target[t]))
  ELSE waitTab

(* A slip in the next action: the search comes before the edge. *)
RecordEdgeAfterSearch(t) ==
  /\ pc[t] = "record_edge"
  /\ ~HasCycle(Created, owner, waitTab)
  /\ waitTab' = WithEdge(t)
  /\ LeaveGuard
  /\ Goto(t, "sem_wait")
  /\ UNCHANGED << tables, owner, lockCount, holder, target, patience, result >>

(* No cycle: the edge stays and the task goes on to block. *)
RecordEdge(t) ==
  /\ pc[t] = "record_edge"
  /\ ~HasCycle(Created, owner, WithEdge(t))
  /\ waitTab' = WithEdge(t)
  /\ LeaveGuard
  /\ Goto(t, "sem_wait")
  /\ UNCHANGED << tables, owner, lockCount, holder, target, patience, result >>

(* A slip in the next action: the early return keeps s_guard. *)
RefuseKeepingGuard(t) ==
  /\ pc[t] = "record_edge"
  /\ HasCycle(Created, owner, WithEdge(t))
  /\ waitTab' = DropLast(WithEdge(t))
  /\ Return(t)
  /\ result' = [result EXCEPT ![t] = FALSE]
  /\ UNCHANGED << tables, owner, lockCount, holder, guard >>

(* A cycle: the last edge is dropped and the take is refused. *)
Refuse(t) ==
  /\ pc[t] = "record_edge"
  /\ HasCycle(Created, owner, WithEdge(t))
  /\ waitTab' = IF Len(WithEdge(t)) > 0 THEN DropLast(WithEdge(t)) ELSE WithEdge(t)
  /\ LeaveGuard
  /\ Return(t)
  /\ result' = [result EXCEPT ![t] = FALSE]
  /\ UNCHANGED << tables, owner, lockCount, holder >>

(* xSemaphoreTake(m->sem, timeout): the kernel hands over a free mutex ... *)
SemTake(t) ==
  /\ pc[t] = "sem_wait"
  /\ holder[target[t]] = NoTask
  /\ holder' = [holder EXCEPT ![target[t]] = t]
  /\ result' = [result EXCEPT ![t] = TRUE]
  /\ Goto(t, "unlink_guard")
  /\ UNCHANGED << tables, owner, lockCount, waitTab, guard, target, patience >>

(* ... or the time runs out while somebody holds it. *)
SemTimeout(t) ==
  /\ pc[t] = "sem_wait"
  /\ patience[t] = "finite"
  /\ holder[target[t]] # NoTask
  /\ result' = [result EXCEPT ![t] = FALSE]
  /\ Goto(t, "unlink_guard")
  /\ UNCHANGED << tables, owner, lockCount, waitTab, guard, holder,
                  target, patience >>

(* Slips in the next action: the owner is not recorded, or the edge stays. *)
UnlinkForgettingOwner(t) ==
  /\ pc[t] = "unlink_edge"
  /\ waitTab' = RemoveEdge(waitTab, WaitEdge(t, target[t]))
  /\ LeaveGuard
  /\ Return(t)
  /\ UNCHANGED << tables, owner, lockCount, holder, result >>

UnlinkKeepingEdge(t) ==
  /\ pc[t] = "unlink_edge"
  /\ owner' = IF result[t] THEN [owner EXCEPT ![target[t]] = t] ELSE owner
  /\ LeaveGuard
  /\ Return(t)
  /\ UNCHANGED << tables, lockCount, waitTab, holder, result >>

(* The edge goes, and a task that got the mutex becomes its owner. *)
Unlink(t) ==
  /\ pc[t] = "unlink_edge"
  /\ waitTab' = RemoveEdge(waitTab, WaitEdge(t, target[t]))
  /\ IF result[t]
     THEN /\ owner' = [owner EXCEPT ![target[t]] = t]
          /\ lockCount' = [lockCount EXCEPT ![target[t]] = (@ + 1) % LockCountMod]
     ELSE UNCHANGED << owner, lockCount >>
  /\ LeaveGuard
  /\ Return(t)
  /\ UNCHANGED << tables, holder, result >>

-----------------------------------------------------------------------------
(* MutexGuard_Give(idx), by the task that took idx *)

CallGive(t, idx) ==
  /\ started
  /\ pc[t] = "idle"
  /\ idx \in Created
  /\ holder[idx] = t
  /\ Goto(t, "give_guard")
  /\ target' = [target EXCEPT ![t] = idx]
  /\ UNCHANGED << tables, owner, lockCount, waitTab, guard, holder,
                  patience, result >>

(* A slip in the next action: the owner stays recorded. *)
KeepOwner(t) ==
  /\ pc[t] = "clear_owner"
  /\ LeaveGuard
  /\ Goto(t, "sem_give")
  /\ UNCHANGED << tables, owner, lockCount, waitTab, holder, target, patience, result >>

ClearOwner(t) ==
  /\ pc[t] = "clear_owner"
  /\ owner' = [owner EXCEPT ![target[t]] = NoTask]
  /\ LeaveGuard
  /\ Goto(t, "sem_give")
  /\ UNCHANGED << tables, lockCount, waitTab, holder, target, patience, result >>

(* xSemaphoreGive(m->sem), after s_guard has been released *)
SemGive(t) ==
  /\ pc[t] = "sem_give"
  /\ holder' = [holder EXCEPT ![target[t]] = NoTask]
  /\ Return(t)
  /\ UNCHANGED << tables, owner, lockCount, waitTab, guard, result >>

-----------------------------------------------------------------------------
(* MutexGuard_DetectDeadlock, and the same search in MutexGuard_PrintStatus *)

CallInspect(t) ==
  /\ started
  /\ pc[t] = "idle"
  /\ Goto(t, "inspect_guard")
  /\ UNCHANGED << tables, owner, lockCount, waitTab, guard, holder,
                  target, patience, result >>

(* A slip in the next action: s_guard is not given back. *)
InspectKeepingGuard(t) ==
  /\ pc[t] = "inspect"
  /\ Return(t)
  /\ UNCHANGED << tables, owner, lockCount, waitTab, guard, holder, result >>

Inspect(t) ==
  /\ pc[t] = "inspect"
  /\ result' = [result EXCEPT ![t] = HasCycle(Created, owner, waitTab)]
  /\ LeaveGuard
  /\ Return(t)
  /\ UNCHANGED << tables, owner, lockCount, waitTab, holder >>

-----------------------------------------------------------------------------
(* The steps a task takes inside the API, once it has called it. *)
Inside(t) ==
  \/ EnterGuard(t)
  \/ RecordEdge(t)
  \/ Refuse(t)
  \/ SemTake(t)
  \/ SemTimeout(t)
  \/ Unlink(t)
  \/ ClearOwner(t)
  \/ SemGive(t)
  \/ Inspect(t)

(* The calls a task may make. *)
Call(t) ==
  \/ \E idx \in Indices, timeout \in Patience : CallTake(t, idx, timeout)
  \/ \E idx \in Indices \cup {NoIndex} : CallTakeInvalid(t, idx)
  \/ \E idx \in Indices : CallGive(t, idx)
  \/ CallInspect(t)

Next ==
  \/ Create
  \/ StartScheduler
  \/ \E t \in Tasks : Inside(t) \/ Call(t)

Spec == Init /\ [][Next]_vars
-----------------------------------------------------------------------------
(* Properties *)

TypeOK ==
  /\ started    \in BOOLEAN
  /\ mutexCount \in 0 .. MaxMutexes
  /\ owner      \in [Indices -> Tasks \cup {NoTask}]
  /\ lockCount  \in [Indices -> 0 .. LockCountMod - 1]
  /\ waitTab    \in Seq([waiter : Tasks, mutex_idx : Indices])
  /\ Len(waitTab) <= MaxWaiters
  /\ guard      \in Tasks \cup {NoTask}
  /\ holder     \in [Indices -> Tasks \cup {NoTask}]
  /\ pc         \in [Tasks -> Labels]
  /\ target     \in [Tasks -> Indices \cup {NoIndex}]
  /\ patience   \in [Tasks -> {"forever", "finite"}]
  /\ result     \in [Tasks -> BOOLEAN]

(* The sections that touch s_wait, owner and lock_count exclude each other *)
(* and none is left with s_guard still taken: the early return of the      *)
(* refusal gives it back too, and nobody blocks on a mutex while having it.*)
GuardMarksSection ==
  \A t \in Tasks : guard = t <=> pc[t] \in Guarded

(* owner lags behind the kernel on both sides of a hold (it is set after   *)
(* the semaphore is taken and cleared before it is given), so the table    *)
(* the CLI prints and the search reads never names a task that does not    *)
(* have the mutex.                                                         *)
OwnerIsHolder ==
  \A i \in Created : owner[i] # NoTask => holder[i] = owner[i]

(* A task about to block, blocked, or not yet out of the table again.      *)
Waiting(t) == pc[t] \in {"sem_wait", "unlink_guard", "unlink_edge"}

(* The table, when it has room for all, holds one edge for each such task, *)
(* to the mutex it asked for, and no other: swapping the last entry into a *)
(* hole and popping the last entry of a refused take never lose or leave   *)
(* behind the edge of another task.                                        *)
EdgesMatchWaiters ==
  \A t \in Tasks, i \in Indices :
    Cardinality(Matching(waitTab, WaitEdge(t, i))) =
      IF Waiting(t) /\ target[t] = i THEN 1 ELSE 0

(* No take leaves a cycle in the recorded graph, whatever other tasks do   *)
(* between the search and the block, and setting an owner later never      *)
(* closes one: `locks' answers "Deadlock detected: No" at every moment.    *)
WaitForAcyclic == ~HasCycle(Created, owner, waitTab)

(* A set of tasks that can only wait for each other: each is blocked on a  *)
(* mutex the kernel has given to another of the set.                       *)
CircularWait(D) ==
  /\ D # {}
  /\ \A t \in D : pc[t] = "sem_wait" /\ holder[target[t]] \in D

(* What the module is for: the tasks never deadlock on tracked mutexes.    *)
(* The search reads owner, which the kernel's holder runs ahead of.        *)
NoCircularWait == \A D \in SUBSET Tasks : ~CircularWait(D)

(* The tasks of D would wait for each other for ever if t, one of them,    *)
(* blocked on the mutex it asks for.                                       *)
WouldClose(t, D) ==
  /\ t \in D
  /\ \A d \in D : /\ d = t \/ pc[d] = "sem_wait"
                  /\ holder[target[d]] \in D

(* MutexGuard_Take "@return pdTRUE on success, pdFALSE on timeout or       *)
(* deadlock" and "would deadlock on": a take is refused at once only when  *)
(* blocking would really have closed a circle of blocked tasks.            *)
RefusalIsRealCycle ==
  [][\A t \in Tasks : pc[t] = "record_edge" /\ pc'[t] = "idle"
                        => \E D \in SUBSET Tasks : WouldClose(t, D)]_vars

(* Ownership passes through "free": a new owner never overwrites another,  *)
(* and lock_count ticks exactly when a task becomes the owner.             *)
OwnershipPassesThroughFree ==
  [][\A i \in Created :
       /\ owner[i] # NoTask => owner'[i] \in {owner[i], NoTask}
       /\ lockCount'[i] = IF owner[i] = NoTask /\ owner'[i] # NoTask
                          THEN (lockCount[i] + 1) % LockCountMod
                          ELSE lockCount[i]]_vars

-----------------------------------------------------------------------------
(* The module implements LockManager: a lock is the kernel's semaphore, and *)
(* a task wants one while it is blocked on it.  The table, its search and   *)
(* s_guard are the mechanism and vanish; a refused take is a stutter.       *)
Wanted == [t \in Tasks |-> IF pc[t] = "sem_wait" THEN target[t] ELSE NoTask]

Locks == INSTANCE LockManager WITH
           Locks <- Indices, None <- NoTask, held <- holder, wants <- Wanted

ImplementsLockManager == Locks!Spec
=============================================================================
