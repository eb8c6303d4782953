------------------------- MODULE DeadlockDemoProofs -------------------------
(***************************************************************************)
(* What deadlock_demo.c keeps of its mutexes.  The argument: the two tasks *)
(* keep the rules of MutexGuard, so MutexGuardProofs applies; and what the *)
(* kernel has given to a task follows from how far it is in its round and  *)
(* what its last take has returned.                                        *)
(***************************************************************************)
EXTENDS DeadlockDemo, MutexGuardProofs

Taking == {"take_guard", "record_edge", "sem_wait", "unlink_guard", "unlink_edge"}
Giving == {"give_guard", "clear_owner", "sem_give"}

(* The two mutexes exist, and differ, before anybody can ask for one.      *)
Started ==
  /\ initialized => mutex1 \in Created /\ mutex2 \in Created /\ mutex1 # mutex2
  /\ ~initialized => mutex1 \in Created \cup {NoIndex} /\ mutex2 = NoIndex
  /\ started => initialized
  /\ ~started => \A t \in Demos : stage[t] = "rest" /\ \A i \in Indices : holder[i] # t

(* What a task has at each point of its round.                             *)
Has(t) ==
  CASE stage[t] = "rest"        -> {}
    [] stage[t] = "take_first"  -> IF result[t] THEN {First(t)} ELSE {}
    [] stage[t] = "take_second" -> IF result[t] THEN {First(t), Second(t)} ELSE {First(t)}
    [] stage[t] = "give_second" -> IF pc[t] = "idle" THEN {First(t)} ELSE {First(t), Second(t)}
    [] stage[t] = "give_first"  -> IF pc[t] = "idle" THEN {} ELSE {First(t)}

(* The mutex its call is about. *)
Aim(t) == IF stage[t] \in {"take_first", "give_first"} THEN First(t) ELSE Second(t)

Place(t) ==
  /\ pc[t] \in {"idle"} \cup Taking \cup Giving
  /\ pc[t] \in Taking => stage[t] \in {"take_first", "take_second"}
  /\ pc[t] \in Giving => stage[t] \in {"give_second", "give_first"}
  /\ pc[t] \in {"take_guard", "record_edge", "sem_wait"} => ~result[t]
  /\ pc[t] # "idle" => target[t] = Aim(t)

Holds(t) == \A i \in Indices : holder[i] = t <=> i \in Has(t)

DemoInv ==
  /\ IndInv /\ DemoTypeOK /\ Started
  /\ pc[CLI] \in {"idle", "inspect_guard", "inspect"}
  /\ \A t \in Demos : Place(t) /\ Holds(t)

-----------------------------------------------------------------------------
LEMMA DemoTasks ==
  /\ Demos \subseteq Tasks /\ CLI \in Tasks /\ CLI \notin Demos
  /\ \A t \in Tasks : t \in Demos \/ t = CLI
  /\ NoTask \notin Tasks
BY DemoTasksAssumption, NoTaskAssumption DEF Demos

(* A task that is about to make a call knows its two mutexes. *)
LEMMA Knows ==
  ASSUME DemoInv, NEW t \in Demos, started
  PROVE  /\ First(t) \in Created /\ Second(t) \in Created /\ First(t) # Second(t)
         /\ Created \subseteq Indices
BY MaxMutexesAssumption DEF DemoInv, Started, First, Second, Demos, IndInv, TypeOK, Created, Indices

LEMMA DemoKeepsTheRules ==
  ASSUME DemoInv, [DemoNext]_demoVars
  PROVE  [Next]_vars
<1> USE DemoTasks DEF Next, Call
<1>1. CASE StartCreatesFirst \/ StartCreatesSecond \/ StartAgain \/ Boot
  BY <1>1 DEF StartCreatesFirst, StartCreatesSecond, StartAgain, Boot, demoVars
<1>2. CASE Status
  BY <1>2 DEF Status
<1>3. ASSUME NEW t \in Demos, Round(t) PROVE [Next]_vars
  <2>1. ASSUME BeginRound(t) \/ WorkThenTakeSecond(t) PROVE [Next]_vars
    <3>1. started /\ \E idx \in {First(t), Second(t)} : CallTake(t, idx, "finite")
      BY <2>1 DEF BeginRound, WorkThenTakeSecond, CallTake
    <3>2. First(t) \in Indices /\ Second(t) \in Indices
      BY <3>1, Knows
    <3> QED BY <3>1, <3>2, DemoTasksAssumption
  <2>2. ASSUME WorkThenGiveSecond(t) \/ BackOff(t) \/ GiveFirst(t) PROVE [Next]_vars
    <3>1. started /\ \E idx \in {First(t), Second(t)} : CallGive(t, idx)
      BY <2>2 DEF WorkThenGiveSecond, BackOff, GiveFirst, CallGive
    <3>2. First(t) \in Indices /\ Second(t) \in Indices
      BY <3>1, Knows
    <3> QED BY <3>1, <3>2
  <2>3. ASSUME FirstFailed(t) \/ EndRound(t) PROVE [Next]_vars
    BY <2>3 DEF FirstFailed, EndRound
  <2> QED BY <1>3, <2>1, <2>2, <2>3 DEF Round
<1>4. ASSUME NEW t \in Tasks, Library(t) PROVE [Next]_vars
  BY <1>4 DEF Library
<1>5. CASE UNCHANGED demoVars
  BY <1>5 DEF demoVars
<1> QED BY <1>1, <1>2, <1>3, <1>4, <1>5 DEF DemoNext

-----------------------------------------------------------------------------
(* A task is where it was when only others have done something. *)
LEMMA OthersLeaveIt ==
  ASSUME NEW t \in Demos, Place(t), Holds(t),
         UNCHANGED << pc[t], target[t], result[t], stage[t], mutex1, mutex2 >>,
         \A i \in Indices : holder'[i] = t <=> holder[i] = t
  PROVE  Place(t)' /\ Holds(t)'
<1>1. First(t)' = First(t) /\ Second(t)' = Second(t)
  BY DEF First, Second
<1>2. Has(t)' = Has(t) /\ Aim(t)' = Aim(t)
  BY <1>1 DEF Has, Aim
<1> QED BY <1>2 DEF Place, Holds

(* One task's step inside the API. *)
LEMMA LibraryStep ==
  ASSUME DemoInv, NEW t \in Tasks, Inside(t), UNCHANGED demo
  PROVE  /\ \A u \in Demos : Place(u)' /\ Holds(u)'
         /\ pc'[CLI] \in {"idle", "inspect_guard", "inspect"}
         /\ UNCHANGED << started, mutexCount >>
<1> USE DemoTasks
<1>1. /\ pc \in [Tasks -> Labels] /\ target \in [Tasks -> Indices \cup {NoIndex}]
      /\ result \in [Tasks -> BOOLEAN] /\ holder \in [Indices -> Tasks \cup {NoTask}]
      /\ TargetExists /\ HoldsTarget /\ Created \subseteq Indices
      /\ UNCHANGED << mutex1, mutex2, stage >>
  BY MaxMutexesAssumption DEF DemoInv, IndInv, TypeOK, Created, Indices, demo
<1>2. /\ UNCHANGED << started, mutexCount >>
      /\ \A u \in Tasks : u # t =>
           UNCHANGED << pc[u], target[u], result[u] >>
  BY <1>1 DEF Inside, EnterGuard, RecordEdge, Refuse, SemTake, SemTimeout, Unlink, ClearOwner,
              SemGive, Inspect, Goto, Return, tables
<1>3. \A u \in Tasks : u # t => \A i \in Indices : holder'[i] = u <=> holder[i] = u
  <2>1. CASE SemTake(t)
    BY <1>1, <2>1 DEF SemTake, TargetExists
  <2>2. CASE SemGive(t)
    <3>1. holder[target[t]] = t
      BY <1>1, <2>2 DEF SemGive, HoldsTarget, InWindow
    <3> QED BY <1>1, <2>2, <3>1 DEF SemGive
  <2>3. CASE ~SemTake(t) /\ ~SemGive(t)
    BY <2>3 DEF Inside, EnterGuard, RecordEdge, Refuse, SemTimeout, Unlink, ClearOwner, Inspect
  <2> QED BY <2>1, <2>2, <2>3
<1>4. \A u \in Demos : u # t => Place(u)' /\ Holds(u)'
  BY <1>1, <1>2, <1>3, OthersLeaveIt DEF DemoInv
<1>5. CASE t = CLI
  <2>1. pc'[CLI] \in {"idle", "inspect_guard", "inspect"}
    <3>1. pc[CLI] \in {"idle", "inspect_guard", "inspect"}
      BY DEF DemoInv
    <3>2. EnterGuard(CLI) \/ Inspect(CLI)
      BY <1>5, <3>1 DEF Inside, RecordEdge, Refuse, SemTake, SemTimeout, Unlink, ClearOwner,
                        SemGive
    <3>3. CASE EnterGuard(CLI)
      <4>1. pc[CLI] = "inspect_guard" /\ Section["inspect_guard"] = "inspect"
        BY <3>1, <3>3 DEF EnterGuard, Queued, Section
      <4> QED BY <1>1, <3>3, <4>1 DEF EnterGuard, Goto
    <3>4. CASE Inspect(CLI)
      BY <1>1, <3>4 DEF Inspect, Return, Goto
    <3> QED BY <3>2, <3>3, <3>4
  <2> QED BY <1>2, <1>4, <1>5, <2>1
<1>6. CASE t \in Demos
  <2>1. /\ Place(t) /\ Holds(t)
        /\ First(t)' = First(t) /\ Second(t)' = Second(t) /\ Aim(t)' = Aim(t)
    BY <1>1, <1>6 DEF DemoInv, First, Second, Aim
  <2>2. started /\ First(t) # Second(t) /\ First(t) \in Indices /\ Second(t) \in Indices
    <3>1. pc[t] # "idle"
      BY DEF Inside, EnterGuard, RecordEdge, Refuse, SemTake, SemTimeout, Unlink, ClearOwner,
             SemGive, Inspect, Queued, Section
    <3> QED BY <1>6, <3>1, Knows DEF DemoInv, IndInv, NobodyCalls
  <2> USE <1>1, <1>6, <2>1, <2>2 DEF Place, Taking, Giving, Goto, Return
  <2>3. ASSUME EnterGuard(t) PROVE Place(t)' /\ Holds(t)'
    <3>1. /\ pc[t] \in {"take_guard", "unlink_guard", "give_guard"}
          /\ pc' = [pc EXCEPT ![t] = Section[pc[t]]]
          /\ UNCHANGED << target, result, holder >>
      BY <2>3 DEF EnterGuard, Queued, Section
    <3>2. /\ pc[t] = "take_guard"   => pc'[t] = "record_edge"
          /\ pc[t] = "unlink_guard" => pc'[t] = "unlink_edge"
          /\ pc[t] = "give_guard"   => pc'[t] = "clear_owner"
      BY <3>1 DEF Section
    <3>3. Place(t)'
      BY <3>1, <3>2
    <3>4. Has(t)' = Has(t)
      BY <3>1, <3>2 DEF Has
    <3> QED BY <3>1, <3>3, <3>4 DEF Holds
  <2>4. ASSUME RecordEdge(t) \/ SemTimeout(t) \/ ClearOwner(t) PROVE Place(t)' /\ Holds(t)'
    <3>1. Place(t)'
      BY <2>4 DEF RecordEdge, SemTimeout, ClearOwner
    <3>2. Has(t)' = Has(t) /\ holder' = holder
      BY <2>4 DEF RecordEdge, SemTimeout, ClearOwner, Has
    <3> QED BY <3>1, <3>2 DEF Holds
  <2>5. ASSUME Refuse(t) \/ Unlink(t) PROVE Place(t)' /\ Holds(t)'
    <3>1. Place(t)'
      BY <2>5 DEF Refuse, Unlink
    <3>2. Has(t)' = Has(t) /\ holder' = holder
      BY <2>5 DEF Refuse, Unlink, Has
    <3> QED BY <3>1, <3>2 DEF Holds
  <2>6. ASSUME SemTake(t) PROVE Place(t)' /\ Holds(t)'
    <3>1. Place(t)'
      BY <2>6 DEF SemTake
    <3>2. /\ holder' = [holder EXCEPT ![target[t]] = t] /\ ~result[t] /\ result'[t]
          /\ target[t] = Aim(t) /\ target[t] \in Indices
          /\ stage[t] \in {"take_first", "take_second"}
      BY <2>6 DEF SemTake, TargetExists
    <3>3. Has(t)' = Has(t) \cup {Aim(t)}
      BY <3>2 DEF Has, Aim
    <3> QED BY <3>1, <3>2, <3>3 DEF Holds
  <2>7. ASSUME SemGive(t) PROVE Place(t)' /\ Holds(t)'
    <3>1. Place(t)'
      BY <2>7 DEF SemGive
    <3>2. /\ holder' = [holder EXCEPT ![target[t]] = NoTask] /\ pc'[t] = "idle"
          /\ pc[t] # "idle" /\ target[t] = Aim(t) /\ target[t] \in Indices
          /\ stage[t] \in {"give_first", "give_second"}
      BY <2>7 DEF SemGive, TargetExists
    <3>3. Has(t)' = Has(t) \ {Aim(t)}
      BY <3>2 DEF Has, Aim
    <3> QED BY <3>1, <3>2, <3>3 DEF Holds
  <2>8. ~Inspect(t)
    BY DEF Inspect
  <2>9. Place(t)' /\ Holds(t)'
    BY <2>3, <2>4, <2>5, <2>6, <2>7, <2>8 DEF Inside
  <2>10. pc'[CLI] = pc[CLI]
    BY <1>2
  <2> HIDE <2>1, <2>2
  <2> QED BY <1>2, <1>4, <2>9, <2>10 DEF DemoInv
<1> QED BY <1>5, <1>6

(* One task's step between its calls. *)
LEMMA RoundStep ==
  ASSUME DemoInv, NEW t \in Demos, Round(t)
  PROVE  /\ \A u \in Demos : Place(u)' /\ Holds(u)'
         /\ stage' \in [Demos -> Stages]
         /\ ~started => \A u \in Demos : stage'[u] = stage[u]
         /\ UNCHANGED << started, mutexCount, mutex1, mutex2, initialized, holder, pc[CLI] >>
<1> USE DemoTasks
<1>1. /\ pc \in [Tasks -> Labels] /\ target \in [Tasks -> Indices \cup {NoIndex}]
      /\ result \in [Tasks -> BOOLEAN] /\ stage \in [Demos -> Stages]
      /\ t \in Tasks /\ t # CLI /\ Place(t) /\ Holds(t)
  BY DEF DemoInv, DemoTypeOK, IndInv, TypeOK
<1>2. /\ UNCHANGED << started, mutexCount, mutex1, mutex2, initialized, holder >>
      /\ \A u \in Tasks : u # t => UNCHANGED << pc[u], target[u], result[u] >>
      /\ \A u \in Demos : u # t => stage'[u] = stage[u]
      /\ stage' \in [Demos -> Stages]
  BY <1>1 DEF Round, BeginRound, FirstFailed, WorkThenTakeSecond, WorkThenGiveSecond, BackOff,
              GiveFirst, EndRound, Advance, CallTake, CallGive, tables, vars, Goto, Stages
<1>3. \A u \in Demos : u # t => Place(u)' /\ Holds(u)'
  BY <1>2, OthersLeaveIt DEF DemoInv
<1>4. First(t)' = First(t) /\ Second(t)' = Second(t)
  BY <1>2 DEF First, Second
<1>5. started => First(t) # Second(t) /\ First(t) \in Indices /\ Second(t) \in Indices
  BY Knows
<1>6. Place(t)' /\ Holds(t)'
  <2> USE <1>1, <1>2, <1>4 DEF Advance, At, Goto
  <2>1. CASE BeginRound(t)
    BY <2>1 DEF BeginRound, CallTake, Place, Holds, Has, Aim, Taking, Giving
  <2>2. CASE FirstFailed(t)
    BY <2>2 DEF FirstFailed, vars, Place, Holds, Has, Aim, Taking, Giving
  <2>3. CASE WorkThenTakeSecond(t)
    BY <2>3 DEF WorkThenTakeSecond, CallTake, Place, Holds, Has, Aim, Taking, Giving
  <2>4. CASE WorkThenGiveSecond(t)
    BY <2>4 DEF WorkThenGiveSecond, CallGive, Place, Holds, Has, Aim, Taking, Giving
  <2>5. CASE BackOff(t)
    BY <2>5 DEF BackOff, CallGive, Place, Holds, Has, Aim, Taking, Giving
  <2>6. CASE GiveFirst(t)
    BY <2>6 DEF GiveFirst, CallGive, Place, Holds, Has, Aim, Taking, Giving
  <2>7. CASE EndRound(t)
    BY <2>7 DEF EndRound, vars, Place, Holds, Has, Aim, Taking, Giving
  <2> QED BY <2>1, <2>2, <2>3, <2>4, <2>5, <2>6, <2>7 DEF Round
<1>7. started
  BY DEF Round, BeginRound, FirstFailed, WorkThenTakeSecond, WorkThenGiveSecond, BackOff,
         GiveFirst, EndRound, CallTake, CallGive, At, DemoInv, Started
<1> QED BY <1>1, <1>2, <1>3, <1>6, <1>7

LEMMA DemoStep == DemoInv /\ [DemoNext]_demoVars => DemoInv'
<1> SUFFICES ASSUME DemoInv, [DemoNext]_demoVars PROVE DemoInv'
  OBVIOUS
<1> USE DemoTasks
<1>1. IndInv'
  BY DemoKeepsTheRules, Step DEF DemoInv
<1>2. TypeOK' /\ TypeOK
  BY <1>1 DEF DemoInv, IndInv
<1>3. /\ mutexCount \in Nat /\ mutexCount <= MaxMutexes /\ MaxMutexes \in Nat
      /\ \A u \in Demos : Place(u) /\ Holds(u)
      /\ mutex1 \in Indices \cup {NoIndex} /\ mutex2 \in Indices \cup {NoIndex}
      /\ initialized \in BOOLEAN /\ stage \in [Demos -> Stages]
  BY <1>2, MaxMutexesAssumption DEF TypeOK, DemoInv, DemoTypeOK
<1>4. CASE StartCreatesFirst \/ StartCreatesSecond
  <2>1. /\ ~started /\ ~initialized /\ mutexCount < MaxMutexes /\ mutexCount' = mutexCount + 1
        /\ holder' = [holder EXCEPT ![mutexCount] = NoTask]
        /\ UNCHANGED << started, pc, target, result, stage >>
    BY <1>4 DEF StartCreatesFirst, StartCreatesSecond, Create, locals
  <2>2. \A u \in Demos : stage[u] = "rest" /\ \A i \in Indices : holder[i] # u
    BY <2>1 DEF DemoInv, Started
  <2>3. \A u \in Demos : \A i \in Indices : holder'[i] # u
    BY <1>2, <2>1, <2>2 DEF TypeOK
  <2>4. \A u \in Demos : Place(u)' /\ Holds(u)'
    <3> SUFFICES ASSUME NEW u \in Demos PROVE Place(u)' /\ Holds(u)'
      OBVIOUS
    <3>1. Has(u)' = {} /\ stage'[u] = "rest" /\ stage[u] = "rest" /\ pc'[u] = pc[u] /\ Place(u)
      BY <1>3, <2>1, <2>2 DEF Has
    <3>2. pc[u] = "idle"
      BY <3>1 DEF Place
    <3> QED BY <2>3, <3>1, <3>2 DEF Place, Holds, Taking, Giving
  <2>5. DemoTypeOK' /\ Started'
    <3>1. mutexCount \in Indices /\ mutexCount \in Created' /\ Created \subseteq Created'
      BY <1>3, <2>1 DEF Indices, Created
    <3>2. CASE StartCreatesFirst
      <4>1. /\ mutex1' = mutexCount /\ UNCHANGED << mutex2, initialized >>
        BY <3>2 DEF StartCreatesFirst
      <4> QED BY <1>2, <1>3, <2>1, <2>2, <2>3, <3>1, <4>1 DEF DemoTypeOK, Started, DemoInv
    <3>3. CASE StartCreatesSecond
      <4>1. /\ mutex2' = mutexCount /\ mutex1' = mutex1 /\ initialized' = TRUE
            /\ mutex1 # NoIndex
        BY <3>3 DEF StartCreatesSecond
      <4>2. mutex1 \in Created /\ mutex1 # mutexCount
        BY <1>3, <2>1, <4>1 DEF DemoInv, Started, Created
      <4> QED BY <1>2, <1>3, <2>1, <2>2, <2>3, <3>1, <4>1, <4>2 DEF DemoTypeOK, Started
    <3> QED BY <1>4, <3>2, <3>3
  <2> QED BY <1>1, <2>1, <2>4, <2>5 DEF DemoInv
<1>5. CASE Boot \/ Status \/ StartAgain \/ UNCHANGED demoVars
  <2>1. /\ UNCHANGED << mutexCount, holder, target, mutex1, mutex2, initialized, stage >>
        /\ \A u \in Demos : UNCHANGED << pc[u], result[u] >>
        /\ started' => initialized
        /\ ~started' => ~started
        /\ pc'[CLI] \in {"idle", "inspect_guard", "inspect"}
    <3>1. CASE Boot
      BY <3>1 DEF Boot, StartScheduler, locals, demo, DemoInv
    <3>2. CASE Status
      BY <1>2, <3>2 DEF Status, CallInspect, Goto, demo, tables, DemoInv, Started, TypeOK
    <3>3. CASE StartAgain \/ UNCHANGED demoVars
      BY <3>3 DEF StartAgain, demoVars, vars, demo, DemoInv, Started
    <3> QED BY <1>5, <3>1, <3>2, <3>3
  <2>2. \A u \in Demos : Place(u)' /\ Holds(u)'
    BY <1>3, <2>1, OthersLeaveIt
  <2>3. Started'
    BY <2>1 DEF DemoInv, Started, Created
  <2>4. DemoTypeOK'
    BY <1>2, <1>3, <2>1 DEF DemoTypeOK
  <2> QED BY <1>1, <2>1, <2>2, <2>3, <2>4 DEF DemoInv
<1>6. ASSUME NEW t \in Demos, Round(t) PROVE DemoInv'
  <2>1. Started'
    BY <1>6, RoundStep DEF DemoInv, Started, Created
  <2>2. DemoTypeOK'
    BY <1>2, <1>3, <1>6, RoundStep DEF DemoTypeOK
  <2> QED BY <1>1, <1>6, <2>1, <2>2, RoundStep DEF DemoInv
<1>7. ASSUME NEW t \in Tasks, Library(t) PROVE DemoInv'
  <2>1. /\ Inside(t) /\ UNCHANGED demo
        /\ \A u \in Demos : Place(u)' /\ Holds(u)'
        /\ pc'[CLI] \in {"idle", "inspect_guard", "inspect"}
        /\ UNCHANGED << started, mutexCount >>
    BY <1>7, LibraryStep DEF Library
  <2>2. started
    <3>1. pc[t] # "idle"
      BY <2>1 DEF Inside, EnterGuard, RecordEdge, Refuse, SemTake, SemTimeout, Unlink, ClearOwner,
             SemGive, Inspect, Queued, Section
    <3> QED BY <3>1 DEF DemoInv, IndInv, NobodyCalls
  <2>3. Started'
    BY <2>1, <2>2 DEF DemoInv, Started, demo, Created
  <2>4. DemoTypeOK'
    BY <1>2, <1>3, <2>1 DEF DemoTypeOK, demo
  <2> QED BY <1>1, <2>1, <2>3, <2>4 DEF DemoInv
<1> QED BY <1>4, <1>5, <1>6, <1>7 DEF DemoNext

LEMMA DemoInitially == DemoInit => DemoInv
<1> SUFFICES ASSUME DemoInit PROVE DemoInv
  OBVIOUS
<1> USE DemoTasks DEF DemoInit
<1>1. IndInv
  BY Initially
<1>2. DemoTypeOK
  BY <1>1 DEF IndInv, DemoTypeOK, Stages
<1>3. Started
  BY DEF Init, Started
<1>4. \A t \in Demos : Place(t) /\ Holds(t)
  BY DEF Init, Place, Holds, Has, Taking, Giving
<1> QED BY <1>1, <1>2, <1>3, <1>4 DEF Init, DemoInv

THEOREM DemoInvariance == DemoSpec => []DemoInv
BY DemoInitially, DemoStep, PTL DEF DemoSpec

-----------------------------------------------------------------------------
(* The demo's variables keep their types. *)
THEOREM DemoTypeCorrect == DemoSpec => []DemoTypeOK
<1>1. DemoInv => DemoTypeOK
  BY DEF DemoInv
<1> QED BY <1>1, DemoInvariance, PTL

(* No path through a round, the refused and the timed out one included,    *)
(* leaves a mutex with a task that rests.                                  *)
THEOREM RoundsCleanUp == DemoSpec => []RestHoldsNothing
<1>1. DemoInv => RestHoldsNothing
  BY DEF DemoInv, Holds, Has, RestHoldsNothing, At
<1> QED BY <1>1, DemoInvariance, PTL

-----------------------------------------------------------------------------
(* The demo is a client of mutex_guard.c: whatever it does is a behaviour  *)
(* of that module, so all that MutexGuardProofs says holds of the demo.    *)
THEOREM DemoIsClient == DemoSpec => Spec
<1>1. DemoInit => Init
  BY DEF DemoInit
<1>2. DemoInv /\ [DemoNext]_demoVars => [Next]_vars
  BY DemoKeepsTheRules
<1> QED BY <1>1, <1>2, DemoInvariance, PTL DEF DemoSpec, Spec

LEMMA DemoHasRoom ==
  ASSUME MaxWaiters >= 3
  PROVE  EnoughRoom
<1>1. IsFiniteSet({}) /\ Cardinality({}) = 0
  BY FS_EmptySet
<1>2. IsFiniteSet({CLI}) /\ Cardinality({CLI}) = 1
  <2>1. {} \cup {CLI} = {CLI}
    OBVIOUS
  <2> QED BY <1>1, <2>1, FS_AddElement
<1>3. IsFiniteSet({TaskB, CLI}) /\ Cardinality({TaskB, CLI}) = 2
  <2>1. {CLI} \cup {TaskB} = {TaskB, CLI} /\ TaskB \notin {CLI}
    BY DemoTasksAssumption
  <2>2. IsFiniteSet({CLI} \cup {TaskB}) /\ Cardinality({CLI} \cup {TaskB}) = 1 + 1
    BY <1>2, <2>1, FS_AddElement
  <2> QED BY <2>1, <2>2
<1>4. IsFiniteSet(Tasks) /\ Cardinality(Tasks) = 3
  <2>1. {TaskB, CLI} \cup {TaskA} = Tasks /\ TaskA \notin {TaskB, CLI}
    BY DemoTasksAssumption
  <2>2. /\ IsFiniteSet({TaskB, CLI} \cup {TaskA})
        /\ Cardinality({TaskB, CLI} \cup {TaskA}) = 2 + 1
    BY <1>3, <2>1, FS_AddElement
  <2> QED BY <2>1, <2>2
<1> QED BY <1>4, MaxWaitersAssumption DEF EnoughRoom

(* The two tasks, which take the mutexes in opposite orders, are never     *)
(* both blocked on what the other has: s_wait has room for the three       *)
(* tasks of the program.                                                   *)
THEOREM DemoNeverDeadlocks ==
  ASSUME MaxWaiters >= 3
  PROVE  DemoSpec => []NoCircularWait
<1>1. Spec => []NoCircularWait
  BY DemoHasRoom, DeadlockFree
<1> QED BY <1>1, DemoIsClient, PTL

(* And the demo's mutexes are those of the abstract lock manager.          *)
THEOREM DemoSeesLockManager ==
  ASSUME MaxWaiters >= 3
  PROVE  DemoSpec => ImplementsLockManager
<1>1. Spec => ImplementsLockManager
  BY DemoHasRoom, Implements
<1> QED BY <1>1, DemoIsClient, PTL
=============================================================================
