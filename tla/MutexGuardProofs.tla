-------------------------- MODULE MutexGuardProofs --------------------------
(***************************************************************************)
(* What mutex_guard.c guarantees for any number of tasks and mutexes.  The *)
(* argument: the table's edges are exactly the tasks between recording and *)
(* unlinking theirs, the recorded owner is the kernel's holder except in   *)
(* the windows around a hold, a task that blocks is in no such window, and *)
(* so a circle of blocked tasks would be a cycle of the recorded graph,    *)
(* which no step ever leaves behind.                                       *)
(***************************************************************************)
EXTENDS MutexGuard, TLAPS, FiniteSetTheorems, SequenceTheorems

Edges == [waiter : Tasks, mutex_idx : Indices]

(* No two entries name the same task. *)
OneEdgeEach(edges) ==
  \A i, j \in 1 .. Len(edges) : edges[i].waiter = edges[j].waiter => i = j

-----------------------------------------------------------------------------
(* Lemmas about the table. *)

(* Removing an edge from a table that has one entry per task: the entry is *)
(* gone, and exactly the others are left.                                  *)
LEMMA RemoveEdgeLemma ==
  ASSUME NEW S, NEW edges \in Seq(S), NEW e, OneEdgeEach(edges)
  PROVE  LET r == RemoveEdge(edges, e) IN
         /\ r \in Seq(S)
         /\ Len(r) <= Len(edges)
         /\ OneEdgeEach(r)
         /\ \A i \in 1 .. Len(r) :
              r[i] # e /\ \E j \in 1 .. Len(edges) : r[i] = edges[j]
         /\ \A j \in 1 .. Len(edges) :
              edges[j] # e => \E i \in 1 .. Len(r) : r[i] = edges[j]
<1>1. CASE Matching(edges, e) = {}
  <2>1. RemoveEdge(edges, e) = edges
    BY <1>1 DEF RemoveEdge
  <2>2. \A i \in 1 .. Len(edges) : edges[i] # e
    BY <1>1 DEF Matching
  <2> QED BY <2>1, <2>2
<1>2. CASE Matching(edges, e) # {}
  <2> DEFINE n    == Len(edges)
             hole == CHOOSE i \in Matching(edges, e) :
                       \A j \in Matching(edges, e) : i <= j
             r    == [i \in 1 .. n - 1 |->
                        IF i = hole THEN edges[n] ELSE edges[i]]
  <2>1. n \in Nat /\ Matching(edges, e) \subseteq 1 .. n
    BY DEF Matching
  <2>2. PICK h \in Matching(edges, e) : TRUE
    BY <1>2
  <2>3. \A i \in Matching(edges, e) : i = h
    BY <2>2 DEF Matching, OneEdgeEach
  <2>4. \E i \in Matching(edges, e) : \A j \in Matching(edges, e) : i <= j
    BY <2>1, <2>2, <2>3
  <2>5. hole = h
    BY <2>3, <2>4
  <2>6. /\ h \in 1 .. n
        /\ edges[h] = e
        /\ \A i \in 1 .. n : edges[i] = e => i = h
    BY <2>2, <2>3 DEF Matching
  <2> HIDE DEF hole
  <2>7. RemoveEdge(edges, e) = r
    BY <1>2 DEF RemoveEdge, hole
  <2>8. r \in [1 .. n - 1 -> S] /\ n - 1 \in Nat
    BY <2>1, <2>6, ElementOfSeq
  <2>9. r \in Seq(S)
    BY <2>8, SeqDef
  <2>10. Len(r) = n - 1
    BY <2>8, <2>9, LenProperties
  <2>11. \A i \in 1 .. n - 1 : r[i] = IF i = h THEN edges[n] ELSE edges[i]
    BY <2>5
  <2> HIDE DEF r
  <2>12. OneEdgeEach(r)
    BY <2>6, <2>8, <2>10, <2>11, <2>1 DEF OneEdgeEach
  <2>13. \A i \in 1 .. Len(r) :
           r[i] # e /\ \E j \in 1 .. n : r[i] = edges[j]
    BY <2>6, <2>8, <2>10, <2>11, <2>1
  <2>14. ASSUME NEW j \in 1 .. n, edges[j] # e
         PROVE  \E i \in 1 .. Len(r) : r[i] = edges[j]
    <3>1. CASE j = n
      <4>1. h \in 1 .. n - 1 /\ r[h] = edges[j]
        BY <3>1, <2>14, <2>6, <2>11, <2>1
      <4> QED BY <4>1, <2>10
    <3>2. CASE j # n
      <4>1. j \in 1 .. n - 1 /\ r[j] = edges[j]
        BY <3>2, <2>14, <2>6, <2>11, <2>1
      <4> QED BY <4>1, <2>10
    <3> QED BY <3>1, <3>2
  <2> QED BY <2>7, <2>9, <2>10, <2>12, <2>13, <2>14, <2>1
<1> QED BY <1>1, <1>2

-----------------------------------------------------------------------------
(* The inductive invariant. *)

(* Before the scheduler runs nobody is inside the API or owns a mutex. *)
NobodyCalls ==
  ~started => /\ \A t \in Tasks : pc[t] = "idle"
              /\ \A i \in Indices : owner[i] = NoTask

(* A call on a mutex is about one that exists. *)
TargetExists ==
  \A t \in Tasks :
    pc[t] \notin {"idle", "inspect_guard", "inspect"} => target[t] \in Created

(* Every entry is the edge of a task that is waiting, to what it waits for.*)
EdgesAreWaits ==
  \A i \in 1 .. Len(waitTab) :
    /\ Waiting(waitTab[i].waiter)
    /\ waitTab[i].mutex_idx = target[waitTab[i].waiter]

(* The semaphore is t's but the table does not say so: t has taken it and  *)
(* not set owner yet, or has cleared owner and not given it yet.           *)
Acquired(t) == pc[t] \in {"unlink_guard", "unlink_edge"} /\ result[t]
InWindow(t) == Acquired(t) \/ pc[t] = "sem_give"

(* A task on its way through a take or a give has what the code assumes.   *)
HoldsTarget ==
  \A t \in Tasks :
    /\ InWindow(t) => holder[target[t]] = t /\ owner[target[t]] = NoTask
    /\ pc[t] \in {"give_guard", "clear_owner"} => holder[target[t]] = t

OwnerHolds == \A i \in Indices : owner[i] # NoTask => holder[i] = owner[i]

HolderOwns ==
  \A i \in Indices, t \in Tasks :
    holder[i] = t => owner[i] = t \/ (InWindow(t) /\ target[t] = i)

IndInv ==
  /\ TypeOK
  /\ NobodyCalls
  /\ TargetExists
  /\ EdgesAreWaits
  /\ OneEdgeEach(waitTab)
  /\ HoldsTarget
  /\ OwnerHolds
  /\ HolderOwns
  /\ WaitForAcyclic



-----------------------------------------------------------------------------
(* A table of edges, and what the code writes in it. *)

LEMMA EdgeTypes ==
  ASSUME TypeOK
  PROVE  /\ waitTab \in Seq(Edges)
         /\ Len(waitTab) \in Nat
         /\ \A i \in 1 .. Len(waitTab) :
              waitTab[i].waiter \in Tasks /\ waitTab[i].mutex_idx \in Indices
<1>1. waitTab \in Seq(Edges)
  BY DEF TypeOK, Edges
<1>2. \A i \in 1 .. Len(waitTab) : waitTab[i] \in Edges
  BY <1>1, ElementOfSeq
<1> QED BY <1>1, <1>2, LenProperties DEF Edges

(* The caller's edge comes after the others, or not at all. *)
LEMMA RecordedTable ==
  ASSUME TypeOK, NEW t \in Tasks, target[t] \in Indices
  PROVE  /\ WithEdge(t) \in Seq(Edges)
         /\ Len(WithEdge(t)) <= MaxWaiters
         /\ IF Len(waitTab) < MaxWaiters
            THEN /\ Len(WithEdge(t)) = Len(waitTab) + 1
                 /\ WithEdge(t)[Len(waitTab) + 1] = WaitEdge(t, target[t])
            ELSE Len(WithEdge(t)) = Len(waitTab)
         /\ \A i \in 1 .. Len(waitTab) : WithEdge(t)[i] = waitTab[i]
<1>1. WaitEdge(t, target[t]) \in Edges
  BY DEF WaitEdge, Edges
<1>2. CASE Len(waitTab) < MaxWaiters
  BY <1>1, <1>2, EdgeTypes, AppendProperties, MaxWaitersAssumption DEF WithEdge
<1>3. CASE ~(Len(waitTab) < MaxWaiters)
  BY <1>3, EdgeTypes DEF WithEdge, TypeOK
<1> QED BY <1>2, <1>3

(* A refused take leaves the table as it was: with the table full the      *)
(* search would have seen the graph the last step left, which has no cycle.*)
LEMMA RefusalRestores ==
  ASSUME TypeOK, WaitForAcyclic, NEW t \in Tasks, target[t] \in Indices,
         Refuse(t)
  PROVE  waitTab' = waitTab
<1>1. Len(waitTab) < MaxWaiters
  BY DEF Refuse, WithEdge, WaitForAcyclic
<1>2. /\ Len(WithEdge(t)) = Len(waitTab) + 1
      /\ \A i \in 1 .. Len(waitTab) : WithEdge(t)[i] = waitTab[i]
  BY <1>1, RecordedTable
<1>3. waitTab' = DropLast(WithEdge(t))
  BY <1>2, EdgeTypes DEF Refuse
<1>4. waitTab' = [i \in 1 .. Len(waitTab) |-> waitTab[i]]
  BY <1>2, <1>3, EdgeTypes DEF DropLast
<1>5. waitTab = [i \in 1 .. Len(waitTab) |-> waitTab[i]]
  BY EdgeTypes, LenProperties
<1> QED BY <1>4, <1>5

(* Fewer owners and fewer edges make no new cycle. *)
LEMMA AcyclicMonotone ==
  ASSUME NEW nodes, NEW own, NEW edges, NEW own2, NEW edges2,
         \A m \in nodes, S \in SUBSET nodes :
           LeadsInto(m, S, own2, edges2) => LeadsInto(m, S, own, edges),
         ~HasCycle(nodes, own, edges)
  PROVE  ~HasCycle(nodes, own2, edges2)
BY DEF HasCycle

-----------------------------------------------------------------------------
(* The invariant is inductive. *)

THEOREM Initially == Init => IndInv
<1> SUFFICES ASSUME Init PROVE IndInv
  OBVIOUS
<1>1. TypeOK
  <2>1. waitTab \in Seq([waiter : Tasks, mutex_idx : Indices])
    BY EmptySeq DEF Init
  <2>2. result \in [Tasks -> BOOLEAN]
    BY Zenon DEF Init
  <2>3. 0 \in 0 .. LockCountMod - 1
    BY LockCountAssumption
  <2>4. Len(waitTab) <= MaxWaiters /\ mutexCount \in 0 .. MaxMutexes
    BY MaxWaitersAssumption, MaxMutexesAssumption, EmptySeq DEF Init
  <2> QED BY <2>1, <2>2, <2>3, <2>4 DEF Init, TypeOK, Labels
<1>2. WaitForAcyclic
  BY DEF Init, WaitForAcyclic, HasCycle, LeadsInto
<1>3. NobodyCalls /\ TargetExists /\ HoldsTarget /\ OwnerHolds /\ HolderOwns
  BY NoTaskAssumption DEF Init, NobodyCalls, TargetExists, HoldsTarget,
     OwnerHolds, HolderOwns, Acquired, InWindow
<1>4. EdgesAreWaits /\ OneEdgeEach(waitTab)
  BY DEF Init, EdgesAreWaits, OneEdgeEach
<1> QED BY <1>1, <1>2, <1>3, <1>4 DEF IndInv

THEOREM Step == IndInv /\ [Next]_vars => IndInv'
<1> SUFFICES ASSUME IndInv, [Next]_vars PROVE IndInv'
  OBVIOUS
<1> USE NoTaskAssumption, MaxMutexesAssumption DEF IndInv, tables, locals
<1>0. /\ Created \subseteq Indices
      /\ \A i \in 1 .. Len(waitTab) :
           waitTab[i].waiter \in Tasks /\ waitTab[i].mutex_idx \in Indices
  BY EdgeTypes DEF TypeOK, Created, Indices
<1>1. ASSUME Create
     PROVE  IndInv'
  <2>1. TypeOK'
    BY <1>1, LockCountAssumption DEF Create, TypeOK, Indices
  <2>2. NobodyCalls' /\ TargetExists'
    BY <1>1, <1>0 DEF Create, TypeOK, NobodyCalls, TargetExists, Created
  <2>3. EdgesAreWaits' /\ OneEdgeEach(waitTab)'
    BY <1>1, <1>0 DEF Create, TypeOK, EdgesAreWaits, OneEdgeEach, Waiting
  <2>4. HoldsTarget' /\ OwnerHolds' /\ HolderOwns'
    BY <1>1, <1>0 DEF Create, TypeOK, NobodyCalls, HoldsTarget, OwnerHolds,
       HolderOwns, Acquired, InWindow
  <2>5. WaitForAcyclic'
    <3>1. Len(waitTab) = 0
      BY <1>1, <1>0, EdgeTypes DEF Create, NobodyCalls, EdgesAreWaits, Waiting
    <3>2. waitTab' = waitTab
      BY <1>1 DEF Create
    <3> QED BY <3>1, <3>2 DEF WaitForAcyclic, HasCycle, LeadsInto
  <2> QED BY <2>1, <2>2, <2>3, <2>4, <2>5
<1>2. ASSUME StartScheduler
     PROVE  IndInv'
  <2>1. TypeOK'
    BY <1>2 DEF StartScheduler, TypeOK, Labels, LeaveGuard
  <2>2. NobodyCalls' /\ TargetExists'
    BY <1>2, <1>0 DEF StartScheduler, TypeOK, NobodyCalls, TargetExists,
       Created
  <2>3. EdgesAreWaits' /\ OneEdgeEach(waitTab)'
    BY <1>2, <1>0 DEF StartScheduler, TypeOK, EdgesAreWaits, OneEdgeEach,
       Waiting
  <2>4. HoldsTarget' /\ OwnerHolds' /\ HolderOwns'
    BY <1>2, <1>0 DEF StartScheduler, TypeOK, HoldsTarget, OwnerHolds,
       HolderOwns, Acquired, InWindow, TargetExists
  <2>5. WaitForAcyclic'
    BY <1>2 DEF StartScheduler, WaitForAcyclic, Created
  <2> QED BY <2>1, <2>2, <2>3, <2>4, <2>5
<1>3. ASSUME NEW t \in Tasks, EnterGuard(t)
     PROVE  IndInv'
  <2>1. TypeOK'
    BY <1>3 DEF EnterGuard, Goto, TypeOK, Labels, Queued, Guarded, Section
  <2>2. NobodyCalls' /\ TargetExists'
    BY <1>3 DEF EnterGuard, Goto, TypeOK, Queued, Section, NobodyCalls,
       TargetExists, Created
  <2>3. EdgesAreWaits' /\ OneEdgeEach(waitTab)'
    BY <1>3, <1>0 DEF EnterGuard, Goto, TypeOK, Queued, Section, EdgesAreWaits,
       OneEdgeEach, Waiting
  <2>4. HoldsTarget' /\ OwnerHolds' /\ HolderOwns'
    BY <1>3 DEF EnterGuard, Goto, TypeOK, Queued, Section, HoldsTarget,
       OwnerHolds, HolderOwns, Acquired, InWindow
  <2>5. WaitForAcyclic'
    BY <1>3 DEF EnterGuard, WaitForAcyclic, Created
  <2> QED BY <2>1, <2>2, <2>3, <2>4, <2>5
<1>4. ASSUME NEW t \in Tasks, NEW idx \in Indices,
           NEW timeout \in Patience, CallTake(t, idx, timeout)
     PROVE  IndInv'
  <2>1. TypeOK'
    BY <1>4, <1>0, PatienceAssumption DEF CallTake, Goto, TypeOK, Labels, Queued,
       Section
  <2>2. NobodyCalls' /\ TargetExists'
    BY <1>4, <1>0 DEF CallTake, Goto, TypeOK, NobodyCalls, TargetExists,
       Created
  <2>3. EdgesAreWaits' /\ OneEdgeEach(waitTab)'
    BY <1>4, <1>0 DEF CallTake, Goto, TypeOK, EdgesAreWaits, OneEdgeEach,
       Waiting
  <2>4. HoldsTarget' /\ OwnerHolds' /\ HolderOwns'
    BY <1>4, <1>0 DEF CallTake, Goto, TypeOK, HoldsTarget, OwnerHolds,
       HolderOwns, Acquired, InWindow, TargetExists
  <2>5. WaitForAcyclic'
    BY <1>4 DEF CallTake, WaitForAcyclic, Created
  <2> QED BY <2>1, <2>2, <2>3, <2>4, <2>5
<1>5. ASSUME NEW t \in Tasks, NEW idx \in Indices \cup {NoIndex},
           CallTakeInvalid(t, idx)
     PROVE  IndInv'
  <2>1. TypeOK'
    BY <1>5 DEF CallTakeInvalid, TypeOK, Labels, LeaveGuard
  <2>2. NobodyCalls' /\ TargetExists'
    BY <1>5, <1>0 DEF CallTakeInvalid, TypeOK, NobodyCalls, TargetExists,
       Created
  <2>3. EdgesAreWaits' /\ OneEdgeEach(waitTab)'
    BY <1>5, <1>0 DEF CallTakeInvalid, TypeOK, EdgesAreWaits, OneEdgeEach,
       Waiting
  <2>4. HoldsTarget' /\ OwnerHolds' /\ HolderOwns'
    BY <1>5, <1>0 DEF CallTakeInvalid, TypeOK, HoldsTarget, OwnerHolds,
       HolderOwns, Acquired, InWindow, TargetExists
  <2>5. WaitForAcyclic'
    BY <1>5 DEF CallTakeInvalid, WaitForAcyclic, Created
  <2> QED BY <2>1, <2>2, <2>3, <2>4, <2>5
<1>6. ASSUME NEW t \in Tasks, RecordEdge(t)
     PROVE  IndInv'
  <2>1. TypeOK'
    <3>1. /\ waitTab' \in Seq([waiter : Tasks, mutex_idx : Indices])
          /\ Len(waitTab') <= MaxWaiters
      BY <1>6, <1>0, RecordedTable DEF RecordEdge, TargetExists, Edges
    <3> QED BY <1>6, <3>1 DEF RecordEdge, Goto, LeaveGuard, TypeOK, Labels
  <2>2. NobodyCalls' /\ TargetExists'
    BY <1>6, <1>0 DEF RecordEdge, Goto, TypeOK, NobodyCalls, TargetExists,
       Created
  <2>3. EdgesAreWaits' /\ OneEdgeEach(waitTab)'
    <3>1. target[t] \in Indices
      BY <1>6, <1>0 DEF RecordEdge, TargetExists
    <3>2. \A i \in 1 .. Len(waitTab) : waitTab[i].waiter # t
      BY <1>6 DEF RecordEdge, EdgesAreWaits, Waiting
    <3>3. \A i \in 1 .. Len(waitTab') :
            \/ i \in 1 .. Len(waitTab) /\ waitTab'[i] = waitTab[i]
            \/ i = Len(waitTab) + 1 /\ waitTab'[i] = WaitEdge(t, target[t])
      BY <1>6, <3>1, RecordedTable, EdgeTypes DEF RecordEdge
    <3>4. EdgesAreWaits'
      BY <1>6, <1>0, <3>2, <3>3
         DEF RecordEdge, Goto, TypeOK, EdgesAreWaits, Waiting, WaitEdge
    <3>5. OneEdgeEach(waitTab)'
      BY <3>2, <3>3 DEF OneEdgeEach, WaitEdge
    <3> QED BY <3>4, <3>5
  <2>4. HoldsTarget' /\ OwnerHolds' /\ HolderOwns'
    BY <1>6, <1>0 DEF RecordEdge, Goto, TypeOK, HoldsTarget, OwnerHolds,
       HolderOwns, Acquired, InWindow, TargetExists
  <2>5. WaitForAcyclic'
    BY <1>6 DEF RecordEdge, WaitForAcyclic, Created
  <2> QED BY <2>1, <2>2, <2>3, <2>4, <2>5
<1>7. ASSUME NEW t \in Tasks, Refuse(t)
     PROVE  IndInv'
  <2>1. TypeOK'
    <3>1. waitTab' = waitTab
      BY <1>7, <1>0, RefusalRestores DEF Refuse, TargetExists
    <3> QED BY <1>7, <3>1 DEF Refuse, Return, Goto, LeaveGuard, TypeOK, Labels
  <2>2. NobodyCalls' /\ TargetExists'
    BY <1>7, <1>0 DEF Refuse, Return, Goto, TypeOK, NobodyCalls, TargetExists,
       Created
  <2>3. EdgesAreWaits' /\ OneEdgeEach(waitTab)'
    <3>1. waitTab' = waitTab
      BY <1>7, <1>0, RefusalRestores DEF Refuse, TargetExists
    <3> QED BY <1>7, <1>0, <3>1
            DEF Refuse, Return, Goto, TypeOK, EdgesAreWaits, OneEdgeEach, Waiting
  <2>4. HoldsTarget' /\ OwnerHolds' /\ HolderOwns'
    BY <1>7, <1>0 DEF Refuse, Return, Goto, TypeOK, HoldsTarget, OwnerHolds,
       HolderOwns, Acquired, InWindow, TargetExists
  <2>5. WaitForAcyclic'
    <3>1. waitTab' = waitTab
      BY <1>7, <1>0, RefusalRestores DEF Refuse, TargetExists
    <3> QED BY <1>7, <3>1 DEF Refuse, WaitForAcyclic, Created
  <2> QED BY <2>1, <2>2, <2>3, <2>4, <2>5
<1>8. ASSUME NEW t \in Tasks, SemTake(t)
     PROVE  IndInv'
  <2>1. TypeOK'
    BY <1>8, <1>0 DEF SemTake, Goto, TypeOK, Labels, Queued, Section
  <2>2. NobodyCalls' /\ TargetExists'
    BY <1>8, <1>0 DEF SemTake, Goto, TypeOK, NobodyCalls, TargetExists,
       Created
  <2>3. EdgesAreWaits' /\ OneEdgeEach(waitTab)'
    BY <1>8, <1>0 DEF SemTake, Goto, TypeOK, EdgesAreWaits, OneEdgeEach,
       Waiting
  <2>4. HoldsTarget' /\ OwnerHolds' /\ HolderOwns'
    <3>1. target[t] \in Indices
      BY <1>8, <1>0 DEF SemTake, TargetExists
    <3>2. /\ owner' = owner /\ target' = target
          /\ holder[target[t]] = NoTask
          /\ \A i \in Indices : holder'[i] = IF i = target[t] THEN t ELSE holder[i]
      BY <1>8, <3>1 DEF SemTake, TypeOK
    <3>3. /\ pc[t] = "sem_wait" /\ pc'[t] = "unlink_guard" /\ result'[t]
          /\ \A s \in Tasks : s # t => pc'[s] = pc[s] /\ result'[s] = result[s]
      BY <1>8 DEF SemTake, Goto, TypeOK
    <3>4. HoldsTarget'
      <4>1. ASSUME NEW s \in Tasks
            PROVE  /\ InWindow(s)' => holder'[target'[s]] = s /\ owner'[target'[s]] = NoTask
                   /\ pc'[s] \in {"give_guard", "clear_owner"} => holder'[target'[s]] = s
        <5>1. CASE s = t
          BY <3>1, <3>2, <3>3, <5>1 DEF OwnerHolds, TypeOK
        <5>2. CASE s # t
          <6>1. InWindow(s)' = InWindow(s) /\ pc'[s] = pc[s]
            BY <3>3, <5>2 DEF InWindow, Acquired
          <6>2. pc[s] \notin {"idle", "inspect_guard", "inspect"}
                  => target[s] \in Indices
            BY <1>0 DEF TargetExists
          <6> QED BY <3>1, <3>2, <6>1, <6>2 DEF HoldsTarget, InWindow, Acquired
        <5> QED BY <5>1, <5>2
      <4> QED BY <4>1 DEF HoldsTarget
    <3>5. OwnerHolds'
      BY <3>1, <3>2 DEF OwnerHolds, TypeOK
    <3>6. HolderOwns'
      BY <3>1, <3>2, <3>3 DEF HolderOwns, Acquired, InWindow
    <3> QED BY <3>4, <3>5, <3>6
  <2>5. WaitForAcyclic'
    BY <1>8 DEF SemTake, WaitForAcyclic, Created
  <2> QED BY <2>1, <2>2, <2>3, <2>4, <2>5
<1>9. ASSUME NEW t \in Tasks, SemTimeout(t)
     PROVE  IndInv'
  <2>1. TypeOK'
    BY <1>9, <1>0 DEF SemTimeout, Goto, TypeOK, Labels, Queued, Section
  <2>2. NobodyCalls' /\ TargetExists'
    BY <1>9, <1>0 DEF SemTimeout, Goto, TypeOK, NobodyCalls, TargetExists,
       Created
  <2>3. EdgesAreWaits' /\ OneEdgeEach(waitTab)'
    BY <1>9, <1>0 DEF SemTimeout, Goto, TypeOK, EdgesAreWaits, OneEdgeEach,
       Waiting
  <2>4. HoldsTarget' /\ OwnerHolds' /\ HolderOwns'
    BY <1>9, <1>0 DEF SemTimeout, Goto, TypeOK, HoldsTarget, OwnerHolds,
       HolderOwns, Acquired, InWindow, TargetExists
  <2>5. WaitForAcyclic'
    BY <1>9 DEF SemTimeout, WaitForAcyclic, Created
  <2> QED BY <2>1, <2>2, <2>3, <2>4, <2>5
<1>10. ASSUME NEW t \in Tasks, Unlink(t)
      PROVE  IndInv'
  <2> DEFINE e == WaitEdge(t, target[t])
  <2>0. /\ target[t] \in Created
        /\ waitTab' = RemoveEdge(waitTab, e)
        /\ waitTab' \in Seq(Edges)
        /\ Len(waitTab') <= Len(waitTab)
        /\ OneEdgeEach(waitTab')
        /\ \A i \in 1 .. Len(waitTab') :
             waitTab'[i] # e /\ \E j \in 1 .. Len(waitTab) : waitTab'[i] = waitTab[j]
    <3>1. waitTab \in Seq(Edges) /\ OneEdgeEach(waitTab)
      BY EdgeTypes
    <3> QED BY <1>10, <3>1, RemoveEdgeLemma DEF Unlink, TargetExists
  <2>1. \A i \in 1 .. Len(waitTab') : waitTab'[i].waiter # t
    <3>1. \A j \in 1 .. Len(waitTab) : waitTab[j].waiter = t => waitTab[j] = e
      <4>1. \A j \in 1 .. Len(waitTab) : waitTab[j] \in Edges
        BY EdgeTypes, ElementOfSeq
      <4> QED BY <4>1 DEF EdgesAreWaits, WaitEdge, Edges
    <3> QED BY <2>0, <3>1
  <2>2. IF result[t]
        THEN /\ owner' = [owner EXCEPT ![target[t]] = t]
             /\ lockCount' = [lockCount EXCEPT ![target[t]] = (@ + 1) % LockCountMod]
        ELSE UNCHANGED << owner, lockCount >>
    BY <1>10 DEF Unlink
  <2>3. TypeOK'
    <3>1. \A n \in 0 .. LockCountMod - 1 : (n + 1) % LockCountMod \in 0 .. LockCountMod - 1
      BY LockCountAssumption
    <3>2. lockCount' \in [Indices -> 0 .. LockCountMod - 1]
      <4>1. lockCount[target[t]] \in 0 .. LockCountMod - 1
        BY <1>0, <2>0 DEF TypeOK
      <4>2. (lockCount[target[t]] + 1) % LockCountMod \in 0 .. LockCountMod - 1
        BY <3>1, <4>1
      <4>3. \/ lockCount' = lockCount
            \/ lockCount' = [lockCount EXCEPT ![target[t]] =
                               (lockCount[target[t]] + 1) % LockCountMod]
        BY <2>2
      <4> QED BY <4>2, <4>3 DEF TypeOK
    <3>3. owner' \in [Indices -> Tasks \cup {NoTask}]
      BY <2>2 DEF TypeOK
    <3>4. Len(waitTab') <= MaxWaiters
      BY <2>0, EdgeTypes, LenProperties, MaxWaitersAssumption DEF TypeOK
    <3> QED BY <1>10, <2>0, <3>2, <3>3, <3>4
            DEF Unlink, Return, Goto, LeaveGuard, TypeOK, Labels, Edges
  <2>4. NobodyCalls' /\ TargetExists'
    BY <1>10 DEF Unlink, Return, Goto, TypeOK, NobodyCalls, TargetExists, Created
  <2>5. EdgesAreWaits' /\ OneEdgeEach(waitTab)'
    <3>1. \A s \in Tasks : s # t => pc'[s] = pc[s] /\ target'[s] = target[s]
      BY <1>10 DEF Unlink, Return, Goto, TypeOK
    <3>2. EdgesAreWaits'
      <4>1. ASSUME NEW i \in 1 .. Len(waitTab')
            PROVE  /\ pc'[waitTab'[i].waiter] \in
                        {"sem_wait", "unlink_guard", "unlink_edge"}
                   /\ waitTab'[i].mutex_idx = target'[waitTab'[i].waiter]
        <5>1. PICK j \in 1 .. Len(waitTab) : waitTab'[i] = waitTab[j]
          BY <2>0
        <5>2. waitTab[j].waiter \in Tasks /\ waitTab[j].waiter # t
          BY <1>0, <2>1, <5>1
        <5> QED BY <3>1, <5>1, <5>2 DEF EdgesAreWaits, Waiting
      <4> QED BY <4>1 DEF EdgesAreWaits, Waiting
    <3> QED BY <2>0, <3>2
  <2>6. HoldsTarget' /\ OwnerHolds' /\ HolderOwns'
    <3>1. /\ holder' = holder /\ result' = result
          /\ pc' = [pc EXCEPT ![t] = "idle"]
          /\ target' = [target EXCEPT ![t] = NoIndex]
          /\ pc[t] = "unlink_edge"
      BY <1>10 DEF Unlink, Return, Goto
    <3>2. \A i \in Indices : owner'[i] = IF result[t] /\ i = target[t] THEN t ELSE owner[i]
      BY <2>2, <1>0, <2>0 DEF TypeOK
    <3>3. HoldsTarget'
      <4>1. /\ pc'[t] = "idle"
            /\ \A s \in Tasks : s # t => pc'[s] = pc[s] /\ target'[s] = target[s]
        BY <3>1 DEF TypeOK
      <4>2. result[t] => holder[target[t]] = t
        BY <3>1 DEF HoldsTarget, InWindow, Acquired
      <4> QED BY <1>0, <3>1, <3>2, <4>1, <4>2
              DEF HoldsTarget, InWindow, Acquired, TargetExists
    <3>4. OwnerHolds'
      BY <3>1, <3>2 DEF TypeOK, HoldsTarget, InWindow, Acquired, OwnerHolds
    <3>5. HolderOwns'
      <4>1. \A s \in Tasks : s # t => pc'[s] = pc[s] /\ target'[s] = target[s]
        BY <3>1 DEF TypeOK
      <4>2. ASSUME NEW i \in Indices, NEW s \in Tasks, holder'[i] = s
            PROVE  owner'[i] = s \/ (InWindow(s)' /\ target'[s] = i)
        <5>1. owner[i] = s \/ (InWindow(s) /\ target[s] = i)
          BY <3>1, <4>2 DEF HolderOwns
        <5>2. CASE s = t
          BY <3>1, <3>2, <4>2, <5>1, <5>2
             DEF HoldsTarget, InWindow, Acquired, TypeOK, OwnerHolds
        <5>3. CASE s # t
          BY <3>1, <3>2, <4>1, <4>2, <5>1, <5>3
             DEF InWindow, Acquired, HoldsTarget
        <5> QED BY <5>2, <5>3
      <4> QED BY <4>2 DEF HolderOwns
    <3> QED BY <3>3, <3>4, <3>5
  <2>7. WaitForAcyclic'
    <3>1. ASSUME NEW m \in Created, NEW S \in SUBSET Created,
                 LeadsInto(m, S, owner', waitTab')
          PROVE  LeadsInto(m, S, owner, waitTab)
      <4>1. owner'[m] # t
        BY <3>1, <2>1 DEF LeadsInto
      <4>2. owner'[m] = owner[m]
        BY <4>1, <2>2, <1>0, <2>0 DEF TypeOK
      <4> QED BY <3>1, <4>2, <2>0 DEF LeadsInto
    <3>2. ~HasCycle(Created, owner', waitTab')
      BY <3>1, AcyclicMonotone DEF WaitForAcyclic
    <3> QED BY <1>10, <3>2 DEF Unlink, WaitForAcyclic, Created
  <2> QED BY <2>3, <2>4, <2>5, <2>6, <2>7
<1>11. ASSUME NEW t \in Tasks, NEW idx \in Indices, CallGive(t, idx)
      PROVE  IndInv'
  <2>1. TypeOK'
    BY <1>11, <1>0 DEF CallGive, Goto, TypeOK, Labels, Queued, Section
  <2>2. NobodyCalls' /\ TargetExists'
    BY <1>11, <1>0 DEF CallGive, Goto, TypeOK, NobodyCalls, TargetExists,
       Created
  <2>3. EdgesAreWaits' /\ OneEdgeEach(waitTab)'
    BY <1>11, <1>0 DEF CallGive, Goto, TypeOK, EdgesAreWaits, OneEdgeEach,
       Waiting
  <2>4. HoldsTarget' /\ OwnerHolds' /\ HolderOwns'
    BY <1>11, <1>0 DEF CallGive, Goto, TypeOK, HoldsTarget, OwnerHolds,
       HolderOwns, Acquired, InWindow, TargetExists
  <2>5. WaitForAcyclic'
    BY <1>11 DEF CallGive, WaitForAcyclic, Created
  <2> QED BY <2>1, <2>2, <2>3, <2>4, <2>5
<1>12. ASSUME NEW t \in Tasks, ClearOwner(t)
      PROVE  IndInv'
  <2>1. TypeOK'
    BY <1>12 DEF ClearOwner, Goto, TypeOK, Labels, LeaveGuard
  <2>2. NobodyCalls' /\ TargetExists'
    BY <1>12, <1>0 DEF ClearOwner, Goto, TypeOK, NobodyCalls, TargetExists,
       Created
  <2>3. EdgesAreWaits' /\ OneEdgeEach(waitTab)'
    BY <1>12, <1>0 DEF ClearOwner, Goto, TypeOK, EdgesAreWaits, OneEdgeEach,
       Waiting
  <2>4. HoldsTarget' /\ OwnerHolds' /\ HolderOwns'
    <3>1. target[t] \in Indices
      BY <1>12, <1>0 DEF ClearOwner, TargetExists
    <3>2. /\ holder' = holder /\ target' = target /\ result' = result
          /\ \A i \in Indices : owner'[i] = IF i = target[t] THEN NoTask ELSE owner[i]
      BY <1>12, <3>1 DEF ClearOwner, TypeOK
    <3>3. /\ pc[t] = "clear_owner" /\ pc'[t] = "sem_give"
          /\ \A s \in Tasks : s # t => pc'[s] = pc[s]
          /\ holder[target[t]] = t
      BY <1>12 DEF ClearOwner, Goto, TypeOK, HoldsTarget
    <3>4. HoldsTarget'
      BY <1>0, <3>1, <3>2, <3>3 DEF HoldsTarget, InWindow, Acquired, TargetExists
    <3>5. OwnerHolds'
      BY <3>2 DEF OwnerHolds
    <3>6. HolderOwns'
      BY <3>1, <3>2, <3>3 DEF HolderOwns, Acquired, InWindow
    <3> QED BY <3>4, <3>5, <3>6
  <2>5. WaitForAcyclic'
    <3>1. \A m \in Created, S \in SUBSET Created :
            LeadsInto(m, S, owner', waitTab) => LeadsInto(m, S, owner, waitTab)
      BY <1>12, <1>0 DEF ClearOwner, TypeOK, TargetExists, LeadsInto
    <3>2. ~HasCycle(Created, owner', waitTab)
      BY <3>1, AcyclicMonotone DEF WaitForAcyclic
    <3> QED BY <1>12, <3>2 DEF ClearOwner, WaitForAcyclic, Created
  <2> QED BY <2>1, <2>2, <2>3, <2>4, <2>5
<1>13. ASSUME NEW t \in Tasks, SemGive(t)
      PROVE  IndInv'
  <2>1. TypeOK'
    BY <1>13 DEF SemGive, Return, Goto, TypeOK, Labels, LeaveGuard
  <2>2. NobodyCalls' /\ TargetExists'
    BY <1>13, <1>0 DEF SemGive, Return, Goto, TypeOK, NobodyCalls,
       TargetExists, Created
  <2>3. EdgesAreWaits' /\ OneEdgeEach(waitTab)'
    BY <1>13, <1>0 DEF SemGive, Return, Goto, TypeOK, EdgesAreWaits,
       OneEdgeEach, Waiting
  <2>4. HoldsTarget' /\ OwnerHolds' /\ HolderOwns'
    BY <1>13, <1>0 DEF SemGive, Return, Goto, TypeOK, HoldsTarget, OwnerHolds,
       HolderOwns, Acquired, InWindow, TargetExists
  <2>5. WaitForAcyclic'
    BY <1>13 DEF SemGive, WaitForAcyclic, Created
  <2> QED BY <2>1, <2>2, <2>3, <2>4, <2>5
<1>14. ASSUME NEW t \in Tasks, CallInspect(t)
      PROVE  IndInv'
  <2>1. TypeOK'
    BY <1>14 DEF CallInspect, Goto, TypeOK, Labels, Queued, Section
  <2>2. NobodyCalls' /\ TargetExists'
    BY <1>14, <1>0 DEF CallInspect, Goto, TypeOK, NobodyCalls, TargetExists,
       Created
  <2>3. EdgesAreWaits' /\ OneEdgeEach(waitTab)'
    BY <1>14, <1>0 DEF CallInspect, Goto, TypeOK, EdgesAreWaits, OneEdgeEach,
       Waiting
  <2>4. HoldsTarget' /\ OwnerHolds' /\ HolderOwns'
    BY <1>14, <1>0 DEF CallInspect, Goto, TypeOK, HoldsTarget, OwnerHolds,
       HolderOwns, Acquired, InWindow, TargetExists
  <2>5. WaitForAcyclic'
    BY <1>14 DEF CallInspect, WaitForAcyclic, Created
  <2> QED BY <2>1, <2>2, <2>3, <2>4, <2>5
<1>15. ASSUME NEW t \in Tasks, Inspect(t)
      PROVE  IndInv'
  <2>1. TypeOK'
    <3>1. HasCycle(Created, owner, waitTab) \in BOOLEAN
      BY DEF HasCycle
    <3>2. result' \in [Tasks -> BOOLEAN]
      BY <1>15, <3>1 DEF Inspect, TypeOK
    <3> QED BY <1>15, <3>2 DEF Inspect, Return, Goto, LeaveGuard, TypeOK, Labels
  <2>2. NobodyCalls' /\ TargetExists'
    BY <1>15, <1>0 DEF Inspect, Return, Goto, TypeOK, NobodyCalls,
       TargetExists, Created
  <2>3. EdgesAreWaits' /\ OneEdgeEach(waitTab)'
    BY <1>15, <1>0 DEF Inspect, Return, Goto, TypeOK, EdgesAreWaits,
       OneEdgeEach, Waiting
  <2>4. HoldsTarget' /\ OwnerHolds' /\ HolderOwns'
    BY <1>15, <1>0 DEF Inspect, Return, Goto, TypeOK, HoldsTarget, OwnerHolds,
       HolderOwns, Acquired, InWindow, TargetExists
  <2>5. WaitForAcyclic'
    BY <1>15 DEF Inspect, WaitForAcyclic, Created
  <2> QED BY <2>1, <2>2, <2>3, <2>4, <2>5
<1>16. ASSUME UNCHANGED vars
       PROVE  IndInv'
  BY <1>16 DEF vars, TypeOK, NobodyCalls, TargetExists, EdgesAreWaits, Waiting,
     OneEdgeEach, HoldsTarget, InWindow, Acquired, OwnerHolds, HolderOwns, InWindow,
     WaitForAcyclic, Created
<1> QED
  BY <1>1, <1>2, <1>3, <1>4, <1>5, <1>6, <1>7, <1>8, <1>9, <1>10, <1>11,
     <1>12, <1>13, <1>14, <1>15, <1>16 DEF Next, Inside, Call

-----------------------------------------------------------------------------
(* What follows at every state, for any constants. *)

(* Every reachable state satisfies the invariant. *)
THEOREM Invariance == Spec => []IndInv
BY Initially, Step, PTL DEF Spec

(* The variables have their types, and s_wait never outgrows its array. *)
THEOREM TypeCorrect == Spec => []TypeOK
<1>1. IndInv => TypeOK
  BY DEF IndInv
<1> QED BY <1>1, Invariance, PTL

(* The owner the table shows is the task the kernel gave the mutex to. *)
THEOREM OwnerTold == Spec => []OwnerIsHolder
<1>1. IndInv => OwnerIsHolder
  BY MaxMutexesAssumption DEF IndInv, TypeOK, OwnerHolds, OwnerIsHolder, Created, Indices
<1> QED BY <1>1, Invariance, PTL

(* The recorded graph never has a cycle, even when s_wait is full. *)
THEOREM NoCycleLeft == Spec => []WaitForAcyclic
<1>1. IndInv => WaitForAcyclic
  BY DEF IndInv
<1> QED BY <1>1, Invariance, PTL

(* A task becomes owner of a mutex that the table shows free, and only     *)
(* then does lock_count tick.                                              *)
THEOREM OwnershipChanges == Spec => OwnershipPassesThroughFree
<1> DEFINE A == \A i \in Created :
                  /\ owner[i] # NoTask => owner'[i] \in {owner[i], NoTask}
                  /\ lockCount'[i] = IF owner[i] = NoTask /\ owner'[i] # NoTask
                                     THEN (lockCount[i] + 1) % LockCountMod
                                     ELSE lockCount[i]
<1>1. IndInv /\ [Next]_vars => [A]_vars
  <2> SUFFICES ASSUME IndInv, Next PROVE A
    OBVIOUS
  <2>0. Created \subseteq Indices
    BY MaxMutexesAssumption DEF IndInv, TypeOK, Created, Indices
  <2>1. ASSUME Create PROVE A
    BY <2>0, <2>1, MaxMutexesAssumption DEF Create, IndInv, TypeOK, Created, Indices
  <2>2. ASSUME NEW t \in Tasks, Unlink(t) PROVE A
    <3>1. target[t] \in Indices
      BY <2>0, <2>2 DEF Unlink, IndInv, TargetExists
    <3>2. CASE result[t]
      <4>1. owner[target[t]] = NoTask
        BY <2>2, <3>2 DEF Unlink, IndInv, HoldsTarget, InWindow, Acquired
      <4>2. \A i \in Indices :
              /\ owner'[i] = IF i = target[t] THEN t ELSE owner[i]
              /\ lockCount'[i] = IF i = target[t] THEN (lockCount[i] + 1) % LockCountMod
                                                  ELSE lockCount[i]
        BY <2>2, <3>1, <3>2 DEF Unlink, IndInv, TypeOK
      <4> QED BY <2>0, <4>1, <4>2, NoTaskAssumption
    <3>3. CASE ~result[t]
      BY <2>2, <3>3 DEF Unlink
    <3> QED BY <3>2, <3>3
  <2>3. ASSUME NEW t \in Tasks, ClearOwner(t) PROVE A
    <3>1. target[t] \in Indices
      BY <2>0, <2>3 DEF ClearOwner, IndInv, TargetExists
    <3> QED BY <2>0, <2>3, <3>1 DEF ClearOwner, IndInv, TypeOK
  <2>4. ASSUME UNCHANGED << owner, lockCount >> PROVE A
    BY <2>4
  <2> QED BY <2>1, <2>2, <2>3, <2>4
          DEF Next, Inside, Call, StartScheduler, EnterGuard, CallTake,
              CallTakeInvalid, RecordEdge, Refuse, SemTake, SemTimeout,
              CallGive, SemGive, CallInspect, Inspect
<1> QED BY <1>1, Invariance, PTL DEF Spec, OwnershipPassesThroughFree

-----------------------------------------------------------------------------
(* s_guard does its work: a task is in a guarded section exactly while it  *)
(* has s_guard, so no two tasks are in one at the same time.               *)
THEOREM GuardExcludes == Spec => []GuardMarksSection
<1>1. Init => GuardMarksSection
  BY NoTaskAssumption DEF Init, GuardMarksSection, Guarded
<1>2. TypeOK /\ GuardMarksSection /\ [Next]_vars => GuardMarksSection'
  <2> SUFFICES ASSUME TypeOK, GuardMarksSection, [Next]_vars
               PROVE  GuardMarksSection'
    OBVIOUS
  <2>1. ASSUME NEW t \in Tasks, EnterGuard(t) PROVE GuardMarksSection'
    <3>1. Section[pc[t]] \in Guarded
      BY <2>1 DEF EnterGuard, Queued, Section, Guarded
    <3> QED BY <2>1, <3>1, NoTaskAssumption
            DEF EnterGuard, Goto, TypeOK, GuardMarksSection
  <2>2. ASSUME NEW t \in Tasks, pc[t] \in Guarded, guard' = NoTask,
               pc' = [pc EXCEPT ![t] = pc'[t]], pc'[t] \notin Guarded
        PROVE  GuardMarksSection'
    BY <2>2, NoTaskAssumption DEF TypeOK, GuardMarksSection
  <2>3. ASSUME NEW t \in Tasks, pc[t] \notin Guarded, guard' = guard,
               pc' = [pc EXCEPT ![t] = pc'[t]], pc'[t] \notin Guarded
        PROVE  GuardMarksSection'
    BY <2>3 DEF TypeOK, GuardMarksSection
  <2>4. ASSUME pc' = pc, guard' = guard PROVE GuardMarksSection'
    BY <2>4 DEF GuardMarksSection
  <2>5. ASSUME NEW t \in Tasks, Inside(t) PROVE GuardMarksSection'
    <3>1. RecordEdge(t) \/ Refuse(t) \/ Unlink(t) \/ ClearOwner(t) \/ Inspect(t)
            => GuardMarksSection'
      BY <2>2 DEF RecordEdge, Refuse, Unlink, ClearOwner, Inspect, Goto,
         Return, LeaveGuard, Guarded, TypeOK
    <3>2. SemTake(t) \/ SemTimeout(t) \/ SemGive(t) => GuardMarksSection'
      BY <2>3 DEF SemTake, SemTimeout, SemGive, Goto, Return, Guarded, TypeOK
    <3> QED BY <2>1, <2>5, <3>1, <3>2 DEF Inside
  <2>6. ASSUME NEW t \in Tasks, Call(t) PROVE GuardMarksSection'
    BY <2>3, <2>4, <2>6 DEF Call, CallTake, CallTakeInvalid, CallGive,
       CallInspect, Goto, Guarded, TypeOK
  <2> QED BY <2>4, <2>5, <2>6 DEF Next, Create, StartScheduler, locals, vars
<1> QED BY <1>1, <1>2, TypeCorrect, PTL DEF Spec

-----------------------------------------------------------------------------
(* With room for every task in s_wait, nobody waits in a circle. *)

EnoughRoom == IsFiniteSet(Tasks) /\ Cardinality(Tasks) <= MaxWaiters

(* Every task between recording and unlinking has its edge in the table.   *)
EdgesComplete ==
  \A t \in Tasks :
    Waiting(t) => \E i \in 1 .. Len(waitTab) : waitTab[i] = WaitEdge(t, target[t])

(* A task that is not in the table finds room for its edge: the entries    *)
(* name different tasks, and not this one.                                 *)
LEMMA RoomForOneMore ==
  ASSUME EnoughRoom, IndInv, NEW t \in Tasks, ~Waiting(t)
  PROVE  Len(waitTab) < MaxWaiters
<1> DEFINE others == Tasks \ {t}
           f      == [i \in 1 .. Len(waitTab) |-> waitTab[i].waiter]
<1>1. /\ IsFiniteSet(others)
      /\ Cardinality(others) = Cardinality(Tasks) - 1
      /\ Cardinality(Tasks) \in Nat
  BY FS_RemoveElement, FS_CardinalityType DEF EnoughRoom
<1>2. TypeOK
  BY DEF IndInv
<1>3. f \in Injection(1 .. Len(waitTab), others)
  BY <1>2, EdgeTypes
     DEF IndInv, EdgesAreWaits, OneEdgeEach, Injection, IsInjective
<1>4. Len(waitTab) \in Nat /\ Cardinality(1 .. Len(waitTab)) = Len(waitTab)
  <2>1. Len(waitTab) \in Nat
    BY <1>2, EdgeTypes
  <2>2. Cardinality(1 .. Len(waitTab)) =
          IF 1 > Len(waitTab) THEN 0 ELSE Len(waitTab) - 1 + 1
    BY <2>1, FS_Interval
  <2> QED BY <2>1, <2>2
<1>5. Cardinality(1 .. Len(waitTab)) <= Cardinality(others)
  BY <1>1, <1>3, FS_Injection
<1> QED BY <1>1, <1>4, <1>5, MaxWaitersAssumption DEF EnoughRoom

LEMMA EdgesCompleteStep ==
  ASSUME EnoughRoom, IndInv, EdgesComplete, [Next]_vars
  PROVE  EdgesComplete'
<1>0. /\ TypeOK
      /\ Created \subseteq Indices
      /\ waitTab \in Seq(Edges)
      /\ Len(waitTab) \in Nat
  BY EdgeTypes, MaxMutexesAssumption DEF IndInv, TypeOK, Created, Indices
<1>1. ASSUME waitTab' = waitTab,
             \A s \in Tasks : Waiting(s)' => Waiting(s) /\ target'[s] = target[s]
      PROVE  EdgesComplete'
  BY <1>1 DEF EdgesComplete
<1>2. ASSUME NEW t \in Tasks, RecordEdge(t) PROVE EdgesComplete'
  <2>1. ~Waiting(t) /\ target[t] \in Indices
    BY <1>0, <1>2 DEF RecordEdge, Waiting, IndInv, TargetExists
  <2>2. /\ Len(waitTab') = Len(waitTab) + 1
        /\ waitTab'[Len(waitTab) + 1] = WaitEdge(t, target[t])
        /\ \A i \in 1 .. Len(waitTab) : waitTab'[i] = waitTab[i]
    BY <1>0, <1>2, <2>1, RoomForOneMore, RecordedTable DEF RecordEdge
  <2>3. target' = target /\ \A s \in Tasks : s # t => pc'[s] = pc[s]
    BY <1>0, <1>2 DEF RecordEdge, Goto, TypeOK
  <2>4. ASSUME NEW s \in Tasks, Waiting(s)'
        PROVE  \E i \in 1 .. Len(waitTab') : waitTab'[i] = WaitEdge(s, target'[s])
    <3>1. CASE s = t
      BY <1>0, <2>2, <2>3, <3>1
    <3>2. CASE s # t
      BY <1>0, <2>2, <2>3, <2>4, <3>2 DEF EdgesComplete, Waiting
    <3> QED BY <3>1, <3>2
  <2> QED BY <2>4 DEF EdgesComplete
<1>3. ASSUME NEW t \in Tasks, Unlink(t) PROVE EdgesComplete'
  <2>1. /\ pc'[t] = "idle"
        /\ \A s \in Tasks : s # t => pc'[s] = pc[s] /\ target'[s] = target[s]
    BY <1>0, <1>3 DEF Unlink, Return, Goto, TypeOK
  <2>2. \A j \in 1 .. Len(waitTab) : waitTab[j] # WaitEdge(t, target[t]) =>
          \E i \in 1 .. Len(waitTab') : waitTab'[i] = waitTab[j]
    <3>1. OneEdgeEach(waitTab)
      BY DEF IndInv
    <3> QED BY <1>0, <1>3, <3>1, RemoveEdgeLemma DEF Unlink
  <2> QED BY <2>1, <2>2 DEF EdgesComplete, Waiting, WaitEdge
<1>4. ASSUME NEW t \in Tasks, Refuse(t) PROVE EdgesComplete'
  <2>1. waitTab' = waitTab
    BY <1>0, <1>4, RefusalRestores DEF Refuse, IndInv, TargetExists
  <2> QED BY <1>0, <1>1, <1>4, <2>1 DEF Refuse, Return, Goto, Waiting, TypeOK
<1>5. ASSUME NEW t \in Tasks, EnterGuard(t) PROVE EdgesComplete'
  BY <1>0, <1>1, <1>5 DEF EnterGuard, Goto, Waiting, Section, Queued, TypeOK
<1>6. ASSUME NEW t \in Tasks, SemTake(t) \/ SemTimeout(t) \/ ClearOwner(t)
      PROVE  EdgesComplete'
  BY <1>0, <1>1, <1>6 DEF SemTake, SemTimeout, ClearOwner, Goto, Waiting, TypeOK
<1>7. ASSUME NEW t \in Tasks, SemGive(t) \/ Inspect(t)
      PROVE  EdgesComplete'
  BY <1>0, <1>1, <1>7 DEF SemGive, Inspect, Return, Goto, Waiting, TypeOK
<1>8. ASSUME NEW t \in Tasks, Call(t) PROVE EdgesComplete'
  BY <1>0, <1>1, <1>8 DEF Call, CallTake, CallTakeInvalid, CallGive,
     CallInspect, Goto, Waiting, TypeOK
<1>9. ASSUME Create \/ StartScheduler \/ UNCHANGED vars PROVE EdgesComplete'
  BY <1>1, <1>9 DEF Create, StartScheduler, locals, vars, Waiting
<1> QED BY <1>2, <1>3, <1>4, <1>5, <1>6, <1>7, <1>8, <1>9 DEF Next, Inside

(* A circle of blocked tasks is a cycle of the recorded graph: each of     *)
(* them is out of every window, so owner says what the kernel knows, and   *)
(* each has its edge.                                                      *)
LEMMA CircleIsCycle ==
  ASSUME IndInv, EdgesComplete, NEW D \in SUBSET Tasks, CircularWait(D)
  PROVE  FALSE
<1> DEFINE S == {target[t] : t \in D}
<1>1. S \subseteq Created /\ S # {}
  BY DEF CircularWait, IndInv, TargetExists
<1>2. ASSUME NEW t \in D PROVE LeadsInto(target[t], S, owner, waitTab)
  <2>1. PICK d \in D : d = holder[target[t]]
    BY DEF CircularWait
  <2>2. target[t] \in Indices
    BY <1>1, MaxMutexesAssumption DEF IndInv, TypeOK, Created, Indices
  <2>3. owner[target[t]] = d
    BY <2>1, <2>2 DEF IndInv, HolderOwns, InWindow, Acquired, CircularWait
  <2>4. PICK i \in 1 .. Len(waitTab) : waitTab[i] = WaitEdge(d, target[d])
    BY DEF EdgesComplete, CircularWait, Waiting
  <2> QED BY <2>3, <2>4, NoTaskAssumption DEF LeadsInto, WaitEdge
<1>3. HasCycle(Created, owner, waitTab)
  BY <1>1, <1>2 DEF HasCycle
<1> QED BY <1>3 DEF IndInv, WaitForAcyclic

(* The table is complete in every reachable state.                         *)
THEOREM TableComplete ==
  ASSUME EnoughRoom
  PROVE  Spec => [](IndInv /\ EdgesComplete)
<1>1. Init => EdgesComplete
  BY DEF Init, EdgesComplete, Waiting
<1>2. IndInv /\ EdgesComplete /\ [Next]_vars => EdgesComplete'
  BY EdgesCompleteStep
<1> QED BY <1>1, <1>2, Invariance, PTL DEF Spec

(* The table holds one edge for each waiting task and nothing else.        *)
THEOREM TableMatches ==
  ASSUME EnoughRoom
  PROVE  Spec => []EdgesMatchWaiters
<1>1. IndInv /\ EdgesComplete => EdgesMatchWaiters
  <2> SUFFICES ASSUME IndInv, EdgesComplete, NEW t \in Tasks, NEW i \in Indices
               PROVE  Cardinality(Matching(waitTab, WaitEdge(t, i))) =
                        IF Waiting(t) /\ target[t] = i THEN 1 ELSE 0
    BY DEF EdgesMatchWaiters
  <2>1. CASE Waiting(t) /\ target[t] = i
    <3>1. PICK k \in 1 .. Len(waitTab) : waitTab[k] = WaitEdge(t, i)
      BY <2>1 DEF EdgesComplete
    <3>2. Matching(waitTab, WaitEdge(t, i)) = {k}
      BY <3>1 DEF Matching, IndInv, OneEdgeEach
    <3> QED BY <2>1, <3>2, FS_Singleton
  <2>2. CASE ~(Waiting(t) /\ target[t] = i)
    <3>1. Matching(waitTab, WaitEdge(t, i)) = {}
      BY <2>2 DEF Matching, IndInv, EdgesAreWaits, WaitEdge
    <3> QED BY <2>2, <3>1, FS_EmptySet
  <2> QED BY <2>1, <2>2
<1> QED BY <1>1, TableComplete, PTL

(* However many tasks and mutexes there are, and whatever calls the tasks  *)
(* make, they are never blocked on one another in a circle, provided that  *)
(* s_wait has an entry for each of them.                                   *)
THEOREM DeadlockFree ==
  ASSUME EnoughRoom
  PROVE  Spec => []NoCircularWait
<1>1. IndInv /\ EdgesComplete => NoCircularWait
  BY CircleIsCycle DEF NoCircularWait
<1> QED BY <1>1, TableComplete, PTL

-----------------------------------------------------------------------------
(* The module implements LockManager. *)

LEMMA WantedStays ==
  ASSUME TypeOK, \A t \in Tasks : pc'[t] = "sem_wait" <=> pc[t] = "sem_wait",
         \A t \in Tasks : pc[t] = "sem_wait" => target'[t] = target[t]
  PROVE  Wanted' = Wanted
BY DEF Wanted

LEMMA WantedChanges ==
  ASSUME TypeOK, NEW t \in Tasks,
         \A s \in Tasks : s # t => pc'[s] = pc[s] /\ target'[s] = target[s]
  PROVE  Wanted' = [Wanted EXCEPT ![t] = IF pc'[t] = "sem_wait"
                                         THEN target'[t] ELSE NoTask]
BY DEF Wanted

LEMMA ImplementationStep ==
  ASSUME IndInv, NoCircularWait', [Next]_vars
  PROVE  [Locks!Next]_(Locks!lockVars)
<1> SUFFICES ASSUME ~ UNCHANGED << holder, Wanted >> PROVE Locks!Next
  BY DEF Locks!lockVars
<1>0. /\ TypeOK
      /\ Created \subseteq Indices
      /\ NoTask \notin Indices
  BY MaxMutexesAssumption, NoTaskAssumption DEF IndInv, TypeOK, Created, Indices
<1>1. ASSUME NEW t \in Tasks, RecordEdge(t) PROVE Locks!Next
  <2>1. /\ pc[t] = "record_edge" /\ pc'[t] = "sem_wait"
        /\ target' = target /\ holder' = holder
        /\ target[t] \in Indices
        /\ \A s \in Tasks : s # t => pc'[s] = pc[s]
    BY <1>0, <1>1 DEF RecordEdge, Goto, TypeOK, IndInv, TargetExists
  <2>2. Wanted[t] = NoTask /\ Wanted' = [Wanted EXCEPT ![t] = target[t]]
    BY <1>0, <2>1, WantedChanges DEF Wanted
  <2>3. ASSUME NEW D \in SUBSET Tasks, Locks!Stuck(D, holder, Wanted')
        PROVE  FALSE
    <3>1. \A d \in D : pc'[d] = "sem_wait" /\ holder'[target'[d]] \in D
      BY <1>0, <2>1, <2>3 DEF Locks!Stuck, Wanted
    <3> QED BY <2>3, <3>1 DEF NoCircularWait, CircularWait, Locks!Stuck
  <2>4. Locks!Request(t, target[t])
    BY <2>1, <2>2, <2>3 DEF Locks!Request, Locks!Deadlocked
  <2> QED BY <2>1, <2>4 DEF Locks!Next
<1>2. ASSUME NEW t \in Tasks, SemTake(t) PROVE Locks!Next
  <2>1. /\ pc[t] = "sem_wait" /\ pc'[t] = "unlink_guard"
        /\ target[t] \in Indices
        /\ \A s \in Tasks : s # t => pc'[s] = pc[s] /\ target'[s] = target[s]
    BY <1>0, <1>2 DEF SemTake, Goto, TypeOK, IndInv, TargetExists
  <2>2. Wanted[t] = target[t] /\ Wanted' = [Wanted EXCEPT ![t] = NoTask]
    BY <1>0, <2>1, WantedChanges DEF Wanted
  <2>3. Locks!Acquire(t)
    BY <1>2, <2>1, <2>2 DEF SemTake, Locks!Acquire
  <2> QED BY <2>3 DEF Locks!Next
<1>3. ASSUME NEW t \in Tasks, SemTimeout(t) PROVE Locks!Next
  <2>1. /\ pc[t] = "sem_wait" /\ pc'[t] = "unlink_guard"
        /\ target[t] \in Indices
        /\ \A s \in Tasks : s # t => pc'[s] = pc[s] /\ target'[s] = target[s]
    BY <1>0, <1>3 DEF SemTimeout, Goto, TypeOK, IndInv, TargetExists
  <2>2. Wanted[t] = target[t] /\ Wanted' = [Wanted EXCEPT ![t] = NoTask]
    BY <1>0, <2>1, WantedChanges DEF Wanted
  <2>3. Locks!Abandon(t)
    BY <1>3, <2>1, <2>2 DEF SemTimeout, Locks!Abandon
  <2> QED BY <2>3 DEF Locks!Next
<1>4. ASSUME NEW t \in Tasks, SemGive(t) PROVE Locks!Next
  <2>1. /\ pc[t] = "sem_give" /\ pc'[t] = "idle"
        /\ target[t] \in Indices /\ holder[target[t]] = t
        /\ \A s \in Tasks : s # t => pc'[s] = pc[s] /\ target'[s] = target[s]
    BY <1>0, <1>4 DEF SemGive, Return, Goto, TypeOK, IndInv, TargetExists,
       HoldsTarget, InWindow
  <2>2. Wanted' = Wanted /\ Wanted[t] = NoTask
    BY <1>0, <2>1, WantedStays DEF Wanted
  <2>3. Locks!Release(t, target[t])
    BY <1>4, <2>1, <2>2 DEF SemGive, Locks!Release
  <2> QED BY <2>1, <2>3 DEF Locks!Next
<1>5. ASSUME Create PROVE FALSE
  <2>1. Wanted' = Wanted
    BY <1>0, <1>5, WantedStays DEF Create, locals
  <2>2. \A i \in Indices : holder[i] = NoTask
    BY <1>0, <1>5 DEF Create, IndInv, TypeOK, NobodyCalls, HolderOwns,
       InWindow, Acquired
  <2>3. holder' = holder
    BY <1>0, <1>5, <2>2 DEF Create, TypeOK
  <2> QED BY <2>1, <2>3
<1>6. ASSUME NEW t \in Tasks,
             \/ EnterGuard(t) \/ Refuse(t) \/ Unlink(t) \/ ClearOwner(t)
             \/ Inspect(t)
      PROVE  FALSE
  <2>1. holder' = holder
    BY <1>6 DEF EnterGuard, Refuse, Unlink, ClearOwner, Inspect
  <2>2. pc'[t] # "sem_wait" /\ pc[t] # "sem_wait"
    BY <1>0, <1>6 DEF EnterGuard, Refuse, Unlink, ClearOwner, Inspect, Return,
       Goto, TypeOK, Section, Queued
  <2>3. \A s \in Tasks : s # t => pc'[s] = pc[s] /\ target'[s] = target[s]
    BY <1>0, <1>6 DEF EnterGuard, Refuse, Unlink, ClearOwner, Inspect, Return,
       Goto, TypeOK
  <2>4. Wanted' = Wanted
    BY <1>0, <2>2, <2>3, WantedStays
  <2> QED BY <2>1, <2>4
<1>7. ASSUME NEW t \in Tasks, Call(t) PROVE FALSE
  <2>1. holder' = holder
    BY <1>7 DEF Call, CallTake, CallTakeInvalid, CallGive, CallInspect
  <2>2. pc'[t] # "sem_wait" /\ pc[t] # "sem_wait"
    BY <1>0, <1>7 DEF Call, CallTake, CallTakeInvalid, CallGive, CallInspect,
       Goto, TypeOK
  <2>3. \A s \in Tasks : s # t => pc'[s] = pc[s] /\ target'[s] = target[s]
    BY <1>0, <1>7 DEF Call, CallTake, CallTakeInvalid, CallGive, CallInspect,
       Goto, TypeOK
  <2>4. Wanted' = Wanted
    BY <1>0, <2>2, <2>3, WantedStays
  <2> QED BY <2>1, <2>4
<1>8. ASSUME StartScheduler \/ UNCHANGED vars PROVE FALSE
  BY <1>0, <1>8, WantedStays DEF StartScheduler, locals, vars
<1> QED BY <1>1, <1>2, <1>3, <1>4, <1>5, <1>6, <1>7, <1>8 DEF Next, Inside

(* Every behaviour of mutex_guard.c is one of LockManager: a task starts to *)
(* wait only if that closes no circle, gets a free lock, may give up on a   *)
(* held one, and releases only what it holds while it waits for nothing.    *)
THEOREM Implements ==
  ASSUME EnoughRoom
  PROVE  Spec => ImplementsLockManager
<1>1. Init => Locks!Init
  BY DEF Init, Locks!Init, Wanted
<1>2. IndInv /\ NoCircularWait' /\ [Next]_vars => [Locks!Next]_(Locks!lockVars)
  BY ImplementationStep
<1> QED BY <1>1, <1>2, Invariance, DeadlockFree, PTL
        DEF Spec, ImplementsLockManager, Locks!Spec

(* The abstract specification keeps its own promise: whoever implements    *)
(* LockManager never has a set of tasks that waits only for itself.  To    *)
(* refuse a request that would close a circle is enough, since no other    *)
(* step adds a wait or takes a lock from its holder to another task.       *)
THEOREM LockManagerKeepsItsPromise == Locks!Spec => []Locks!NeverDeadlocked
<1> DEFINE Inv == Locks!TypeInvariant /\ Locks!NeverDeadlocked
<1>0. NoTask \notin Indices /\ NoTask \notin Tasks
  BY NoTaskAssumption, MaxMutexesAssumption DEF Indices
<1>1. Locks!Init => Inv
  BY <1>0 DEF Locks!Init, Locks!TypeInvariant, Locks!NeverDeadlocked, Locks!Deadlocked,
              Locks!Stuck
<1>2. Inv /\ [Locks!Next]_(Locks!lockVars) => Inv'
  <2> SUFFICES ASSUME Inv, [Locks!Next]_(Locks!lockVars) PROVE Inv'
    OBVIOUS
  <2>1. ASSUME NEW t \in Tasks, NEW l \in Indices, Locks!Request(t, l) PROVE Inv'
    BY <2>1 DEF Locks!Request, Locks!TypeInvariant, Locks!NeverDeadlocked
  <2>2. ASSUME NEW t \in Tasks, Locks!Acquire(t) PROVE Inv'
    <3>1. Locks!TypeInvariant'
      BY <2>2 DEF Locks!Acquire, Locks!TypeInvariant
    <3>2. ASSUME NEW D \in SUBSET Tasks, Locks!Stuck(D, holder', Wanted') PROVE FALSE
      <4>1. t \notin D
        BY <1>0, <2>2, <3>2 DEF Locks!Acquire, Locks!TypeInvariant, Locks!Stuck
      <4>2. Locks!Stuck(D, holder, Wanted)
        BY <2>2, <3>2, <4>1 DEF Locks!Acquire, Locks!TypeInvariant, Locks!Stuck
      <4> QED BY <4>2 DEF Locks!NeverDeadlocked, Locks!Deadlocked
    <3> QED BY <3>1, <3>2 DEF Locks!NeverDeadlocked, Locks!Deadlocked
  <2>3. ASSUME NEW t \in Tasks, Locks!Abandon(t) PROVE Inv'
    <3>1. Locks!TypeInvariant'
      BY <2>3 DEF Locks!Abandon, Locks!TypeInvariant
    <3>2. ASSUME NEW D \in SUBSET Tasks, Locks!Stuck(D, holder', Wanted') PROVE FALSE
      <4>1. t \notin D
        BY <1>0, <2>3, <3>2 DEF Locks!Abandon, Locks!TypeInvariant, Locks!Stuck
      <4>2. Locks!Stuck(D, holder, Wanted)
        BY <2>3, <3>2, <4>1 DEF Locks!Abandon, Locks!TypeInvariant, Locks!Stuck
      <4> QED BY <4>2 DEF Locks!NeverDeadlocked, Locks!Deadlocked
    <3> QED BY <3>1, <3>2 DEF Locks!NeverDeadlocked, Locks!Deadlocked
  <2>4. ASSUME NEW t \in Tasks, NEW l \in Indices, Locks!Release(t, l) PROVE Inv'
    <3>1. Locks!TypeInvariant'
      BY <2>4 DEF Locks!Release, Locks!TypeInvariant
    <3>2. ASSUME NEW D \in SUBSET Tasks, Locks!Stuck(D, holder', Wanted') PROVE FALSE
      <4>1. Locks!Stuck(D, holder, Wanted)
        BY <1>0, <2>4, <3>2 DEF Locks!Release, Locks!TypeInvariant, Locks!Stuck
      <4> QED BY <4>1 DEF Locks!NeverDeadlocked, Locks!Deadlocked
    <3> QED BY <3>1, <3>2 DEF Locks!NeverDeadlocked, Locks!Deadlocked
  <2>5. CASE UNCHANGED Locks!lockVars
    BY <2>5 DEF Locks!lockVars, Locks!TypeInvariant, Locks!NeverDeadlocked,
                Locks!Deadlocked, Locks!Stuck
  <2> QED BY <2>1, <2>2, <2>3, <2>4, <2>5 DEF Locks!Next
<1>3. Inv => Locks!NeverDeadlocked
  OBVIOUS
<1> QED BY <1>1, <1>2, <1>3, PTL DEF Locks!Spec

-----------------------------------------------------------------------------
(* What a refused take says, when no caller gives up.  A task that is on   *)
(* its way out of the table then has what it asked for: it is in the       *)
(* window before owner is set, and no cycle can lead through it.           *)

NobodyGivesUp ==
  \A t \in Tasks : /\ patience[t] = "forever"
                   /\ pc[t] \in {"unlink_guard", "unlink_edge"} => result[t]

LEMMA NobodyGivesUpStep ==
  ASSUME "finite" \notin Patience, TypeOK, NobodyGivesUp, [Next]_vars
  PROVE  NobodyGivesUp'
<1>1. ASSUME NEW t \in Tasks, RecordEdge(t) \/ ClearOwner(t) \/ SemTake(t) \/ EnterGuard(t)
      PROVE  NobodyGivesUp'
  BY <1>1 DEF RecordEdge, ClearOwner, SemTake, EnterGuard, Goto, Section, Queued,
              TypeOK, NobodyGivesUp
<1>2. ASSUME NEW t \in Tasks, SemTimeout(t) PROVE FALSE
  BY <1>2 DEF SemTimeout, NobodyGivesUp
<1>3. ASSUME NEW t \in Tasks, Unlink(t) \/ SemGive(t) PROVE NobodyGivesUp'
  BY <1>3 DEF Unlink, SemGive, Return, Goto, TypeOK, NobodyGivesUp
<1>4. ASSUME NEW t \in Tasks, Refuse(t) \/ Inspect(t) PROVE NobodyGivesUp'
  <2>1. /\ pc' = [pc EXCEPT ![t] = "idle"] /\ patience' = [patience EXCEPT ![t] = "forever"]
        /\ \A s \in Tasks : s # t => result'[s] = result[s]
    BY <1>4 DEF Refuse, Inspect, Return, Goto, TypeOK
  <2> QED BY <2>1 DEF TypeOK, NobodyGivesUp
<1>5. ASSUME NEW t \in Tasks, Call(t) PROVE NobodyGivesUp'
  BY <1>5, PatienceAssumption
     DEF Call, CallTake, CallTakeInvalid, CallGive, CallInspect, Goto, TypeOK, NobodyGivesUp
<1>6. ASSUME Create \/ StartScheduler \/ UNCHANGED vars PROVE NobodyGivesUp'
  BY <1>6 DEF Create, StartScheduler, locals, vars, NobodyGivesUp
<1> QED BY <1>1, <1>2, <1>3, <1>4, <1>5, <1>6 DEF Next, Inside

(* A cycle that the search finds is one of blocked tasks, but for the      *)
(* caller's own edge, and it goes through the caller.                      *)
LEMMA CycleIsCircle ==
  ASSUME IndInv, NobodyGivesUp, NEW t \in Tasks, target[t] \in Indices,
         HasCycle(Created, owner, WithEdge(t))
  PROVE  \E D \in SUBSET Tasks : WouldClose(t, D)
<1>0. TypeOK /\ Created \subseteq Indices
  BY MaxMutexesAssumption DEF IndInv, TypeOK, Created, Indices
<1>1. PICK S \in SUBSET Created :
        S # {} /\ \A m \in S : LeadsInto(m, S, owner, WithEdge(t))
  BY DEF HasCycle
<1> DEFINE D == {owner[m] : m \in S}
<1>2. D \subseteq Tasks
  BY <1>0, <1>1 DEF LeadsInto, TypeOK
<1>3. ASSUME NEW m \in S
      PROVE  holder[m] \in D /\ owner[m] # NoTask
  BY <1>0, <1>1 DEF LeadsInto, IndInv, OwnerHolds
<1>4. \A i \in 1 .. Len(WithEdge(t)) :
        \/ i \in 1 .. Len(waitTab) /\ WithEdge(t)[i] = waitTab[i]
        \/ WithEdge(t)[i] = WaitEdge(t, target[t])
  BY <1>0, RecordedTable, EdgeTypes
<1>5. ASSUME NEW d \in D
      PROVE  target[d] \in S /\ (d = t \/ pc[d] = "sem_wait")
  <2>1. PICK m \in S : d = owner[m]
    OBVIOUS
  <2>2. PICK i \in 1 .. Len(WithEdge(t)) :
          WithEdge(t)[i].waiter = d /\ WithEdge(t)[i].mutex_idx \in S
    BY <1>1, <2>1 DEF LeadsInto
  <2>3. CASE i \in 1 .. Len(waitTab) /\ WithEdge(t)[i] = waitTab[i]
    <3>1. Waiting(d) /\ target[d] \in S
      BY <2>2, <2>3 DEF IndInv, EdgesAreWaits
    <3>2. ~Acquired(d)
      <4>1. owner[target[d]] # NoTask
        BY <1>3, <3>1
      <4> QED BY <1>2, <4>1 DEF IndInv, HoldsTarget, InWindow
    <3>3. pc[d] = "sem_wait"
      BY <1>2, <3>1, <3>2 DEF Waiting, Acquired, NobodyGivesUp
    <3> QED BY <3>1, <3>3
  <2>4. CASE WithEdge(t)[i] = WaitEdge(t, target[t])
    BY <2>2, <2>4 DEF WaitEdge
  <2> QED BY <1>4, <2>3, <2>4
<1>6. t \in D
  <2> SUFFICES ASSUME t \notin D PROVE FALSE
    OBVIOUS
  <2>1. ASSUME NEW m \in S PROVE LeadsInto(m, S, owner, waitTab)
    <3>1. PICK i \in 1 .. Len(WithEdge(t)) :
            WithEdge(t)[i].waiter = owner[m] /\ WithEdge(t)[i].mutex_idx \in S
      BY <1>1 DEF LeadsInto
    <3>2. owner[m] # t
      OBVIOUS
    <3>3. i \in 1 .. Len(waitTab) /\ WithEdge(t)[i] = waitTab[i]
      BY <1>4, <3>1, <3>2 DEF WaitEdge
    <3> QED BY <1>3, <3>1, <3>3 DEF LeadsInto
  <2>2. HasCycle(Created, owner, waitTab)
    BY <1>1, <2>1 DEF HasCycle
  <2> QED BY <2>2 DEF IndInv, WaitForAcyclic
<1>7. WouldClose(t, D)
  <2> HIDE DEF D
  <2> QED BY <1>3, <1>5, <1>6 DEF WouldClose
<1> QED BY <1>2, <1>7

(* As long as every caller waits for ever, a take is refused only when     *)
(* blocking would have closed a circle of blocked tasks; whether or not    *)
(* s_wait has room.  (With time-outs the code refuses more: a task whose   *)
(* time is up stays in the table until it gets s_guard.)                   *)
THEOREM RefusalIsJust ==
  ASSUME "finite" \notin Patience
  PROVE  Spec => RefusalIsRealCycle
<1> DEFINE A == \A t \in Tasks : pc[t] = "record_edge" /\ pc'[t] = "idle"
                                   => \E D \in SUBSET Tasks : WouldClose(t, D)
<1>1. Init => NobodyGivesUp
  BY DEF Init, NobodyGivesUp
<1>2. IndInv /\ NobodyGivesUp /\ [Next]_vars => NobodyGivesUp'
  BY NobodyGivesUpStep DEF IndInv
<1>3. IndInv /\ NobodyGivesUp /\ [Next]_vars => [A]_vars
  <2> SUFFICES ASSUME IndInv, NobodyGivesUp, Next,
                      NEW t \in Tasks, pc[t] = "record_edge", pc'[t] = "idle"
               PROVE  \E D \in SUBSET Tasks : WouldClose(t, D)
    OBVIOUS
  <2>1. Refuse(t)
    <3>1. pc \in [Tasks -> Labels]
      BY DEF IndInv, TypeOK
    <3>2. ASSUME NEW s \in Tasks, Call(s) PROVE FALSE
      BY <3>1, <3>2 DEF Call, CallTake, CallTakeInvalid, CallGive, CallInspect, Goto
    <3>3. ASSUME NEW s \in Tasks, Inside(s) PROVE Refuse(t)
      BY <3>1, <3>3 DEF Inside, EnterGuard, RecordEdge, Refuse, SemTake, SemTimeout, Unlink,
                        ClearOwner, SemGive, Inspect, Return, Goto, Queued, Section
    <3> QED BY <3>2, <3>3 DEF Next, Create, StartScheduler, locals
  <2>2. target[t] \in Indices
    <3>1. target[t] \in Created /\ mutexCount \in 0 .. MaxMutexes
      BY <2>1 DEF IndInv, TypeOK, TargetExists, Refuse
    <3> QED BY <3>1, MaxMutexesAssumption DEF Created, Indices
  <2> QED BY <2>1, <2>2, CycleIsCircle DEF Refuse
<1> QED BY <1>1, <1>2, <1>3, Invariance, PTL DEF Spec, RefusalIsRealCycle
=============================================================================
