---------------------------- MODULE DeadlockDemo ----------------------------
(***************************************************************************)
(* src/deadlock_demo.c over mutex_guard.c: task A takes Mutex_1 and then   *)
(* Mutex_2, task B takes them in the reverse order, for ever, while the    *)
(* CLI task asks for the status of the mutexes.                            *)
(*                                                                         *)
(* The demo tasks are clients of MutexGuard: each of their steps is a step *)
(* of that module together with a step of the task's own program.  Delays  *)
(* (vTaskDelay) are not timed: a task may stay where it is for any while,  *)
(* so every interleaving of the two is allowed, not only the one the       *)
(* delays of 100, 200 and 1000 ms make likely.                             *)
(***************************************************************************)
EXTENDS MutexGuard

CONSTANTS TaskA, TaskB, CLI   \* DemoA, DemoB and the task running CLI_Task

ASSUME DemoTasksAssumption ==
  /\ Tasks = {TaskA, TaskB, CLI}
  /\ TaskA # TaskB /\ CLI \notin {TaskA, TaskB}
  /\ "finite" \in Patience

VARIABLES
  mutex1, mutex2,   \* s_mutex1 and s_mutex2
  initialized,      \* s_initialized
  stage             \* how far each demo task is in its round

demo     == << mutex1, mutex2, initialized, stage >>
demoVars == << vars, demo >>

Demos == {TaskA, TaskB}

First(t)  == IF t = TaskA THEN mutex1 ELSE mutex2
Second(t) == IF t = TaskA THEN mutex2 ELSE mutex1

(* What a task did last: nothing yet in this round, asked for its first or *)
(* its second mutex, gave back the second or the first.                    *)
Stages == {"rest", "take_first", "take_second", "give_second", "give_first"}

DemoInit ==
  /\ Init
  /\ mutex1 = NoIndex
  /\ mutex2 = NoIndex
  /\ initialized = FALSE
  /\ stage = [t \in Demos |-> "rest"]

-----------------------------------------------------------------------------
(* DeadlockDemo_Start, called by main: two mutexes, then the two tasks.    *)

StartCreatesFirst ==
  /\ ~initialized /\ mutex1 = NoIndex
  /\ Create
  /\ mutex1' = mutexCount
  /\ UNCHANGED << mutex2, initialized, stage >>

(* A slip in the next action: the count is stored, not the index. *)
StartStoresCount ==
  /\ ~initialized /\ mutex1 # NoIndex
  /\ Create
  /\ mutex2' = mutexCount + 1
  /\ initialized' = TRUE
  /\ UNCHANGED << mutex1, stage >>

StartCreatesSecond ==
  /\ ~initialized /\ mutex1 # NoIndex
  /\ Create
  /\ mutex2' = mutexCount
  /\ initialized' = TRUE
  /\ UNCHANGED << mutex1, stage >>

(* The CLI command "deadlock" calls it again: "Already running." *)
StartAgain ==
  /\ started /\ pc[CLI] = "idle"
  /\ initialized
  /\ UNCHANGED demoVars

(* main starts the scheduler after it has called DeadlockDemo_Start. *)
Boot == initialized /\ StartScheduler /\ UNCHANGED demo

-----------------------------------------------------------------------------
(* The loops of demo_task_a and demo_task_b, which differ in the order of  *)
(* the mutexes only.  A step starts where the last call has returned.      *)

At(t, s)     == pc[t] = "idle" /\ stage[t] = s
Advance(t, s) ==
  /\ stage' = [stage EXCEPT ![t] = s]
  /\ UNCHANGED << mutex1, mutex2, initialized >>

BeginRound(t) ==
  /\ At(t, "rest")
  /\ CallTake(t, First(t), "finite")
  /\ Advance(t, "take_first")

FirstFailed(t) ==
  /\ At(t, "take_first") /\ ~result[t]
  /\ Advance(t, "rest")
  /\ UNCHANGED vars

WorkThenTakeSecond(t) ==
  /\ At(t, "take_first") /\ result[t]
  /\ CallTake(t, Second(t), "finite")
  /\ Advance(t, "take_second")

WorkThenGiveSecond(t) ==
  /\ At(t, "take_second") /\ result[t]
  /\ CallGive(t, Second(t))
  /\ Advance(t, "give_second")

(* A slip in the next action: the first mutex is kept. *)
BackOffHolding(t) ==
  /\ At(t, "take_second") /\ ~result[t]
  /\ Advance(t, "rest")
  /\ UNCHANGED vars

(* "*** DEADLOCK PREVENTED by MutexGuard ***": refused, or timed out *)
BackOff(t) ==
  /\ At(t, "take_second") /\ ~result[t]
  /\ CallGive(t, First(t))
  /\ Advance(t, "give_first")

GiveFirst(t) ==
  /\ At(t, "give_second")
  /\ CallGive(t, First(t))
  /\ Advance(t, "give_first")

EndRound(t) ==
  /\ At(t, "give_first")
  /\ Advance(t, "rest")
  /\ UNCHANGED vars

Round(t) ==
  \/ BeginRound(t)
  \/ FirstFailed(t)
  \/ WorkThenTakeSecond(t)
  \/ WorkThenGiveSecond(t)
  \/ BackOff(t)
  \/ GiveFirst(t)
  \/ EndRound(t)

(* The CLI command "mutexes" *)
Status == CallInspect(CLI) /\ UNCHANGED demo

Library(t) == Inside(t) /\ UNCHANGED demo

DemoNext ==
  \/ StartCreatesFirst
  \/ StartCreatesSecond
  \/ StartAgain
  \/ Boot
  \/ Status
  \/ \E t \in Demos : Round(t)
  \/ \E t \in Tasks : Library(t)

(* What the scheduler owes the tasks.  A task that can run does (the three *)
(* have the same priority and share the processor in time slices).  Who    *)
(* queues for s_guard or for a mutex gets it in the end, even when others  *)
(* take it in between: the kernel's queue of equals is a FIFO, and nobody  *)
(* can overtake for ever, as the loops sleep between their calls.  No      *)
(* timeout is owed: the clock may always be too slow to help.              *)
Fairness ==
  /\ WF_demoVars(StartCreatesFirst \/ StartCreatesSecond \/ Boot)
  /\ \A t \in Demos : WF_demoVars(Round(t))
  /\ \A t \in Tasks :
       /\ SF_demoVars(EnterGuard(t) /\ UNCHANGED demo)
       /\ SF_demoVars(SemTake(t) /\ UNCHANGED demo)
       /\ WF_demoVars(pc[t] \in Guarded \cup {"sem_give"} /\ Library(t))

DemoSpec == DemoInit /\ [][DemoNext]_demoVars /\ Fairness

-----------------------------------------------------------------------------
(* Properties *)

DemoTypeOK ==
  /\ TypeOK
  /\ mutex1 \in Indices \cup {NoIndex}
  /\ mutex2 \in Indices \cup {NoIndex}
  /\ initialized \in BOOLEAN
  /\ stage \in [Demos -> Stages]

(* No path through a round leaves a mutex behind: a resting task holds     *)
(* none, whether it was refused, timed out or did its critical work.       *)
RestHoldsNothing ==
  \A t \in Demos : At(t, "rest") => \A i \in Indices : holder[i] # t

(* What the guard is there for: every round comes to its end, although the *)
(* tasks take the mutexes in opposite orders and no timeout ever helps     *)
(* them ("Task B releases Mutex_2, Task A unblocks, system continues").    *)
EveryRoundEnds ==
  \A t \in Demos : stage[t] # "rest" ~> At(t, "rest")

(* The CLI always gets its status line. *)
StatusReturns == pc[CLI] # "idle" ~> pc[CLI] = "idle"
=============================================================================
