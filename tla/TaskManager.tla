---------------------------- MODULE TaskManager ----------------------------
(***************************************************************************)
(* src/task_manager.c under its callers: main, which registers the tasks   *)
(* before the scheduler runs; the tasks, which count their activations;    *)
(* the kernel, which calls the two hooks in every context switch; and the  *)
(* CLI's "tasks" command.  The CLI task stands for every task that is not  *)
(* registered.  The scheduler is free here: whoever is ready may run and   *)
(* be switched out anywhere, so what holds does not rest on priorities.    *)
(* Time passes only in Tick.                                               *)
(*                                                                         *)
(* The QEMU build has no cycle counter and no lock; the other one has      *)
(* both.  Init chooses the build.                                          *)
(***************************************************************************)
EXTENDS Integers, Sequences

CONSTANTS
  Tasks,        \* the tasks main creates and registers
  Monitor,      \* CLI_Task, which is not registered
  Nobody,       \* no task
  MaxTasks,     \* MAX_MANAGED_TASKS
  CyclesPerUs,  \* configCPU_CLOCK_HZ / 1000000
  CounterMod,   \* 2^32, the width of the cycle counter
  RuntimeMod,   \* 2^32, the width of runtime_us
  ExecMod,      \* 2^32, the width of exec_count
  MaxTime       \* a bound of the model: cycles that pass

ASSUME TaskAssumption ==
  /\ Monitor \notin Tasks
  /\ Nobody  \notin Tasks \cup {Monitor}

ASSUME NumberAssumption ==
  /\ MaxTasks    \in Nat \ {0}
  /\ CyclesPerUs \in Nat \ {0}
  /\ CounterMod  \in Nat \ {0}
  /\ RuntimeMod  \in Nat \ {0}
  /\ ExecMod     \in Nat \ {0}
  /\ MaxTime     \in Nat

Runners == Tasks \cup {Monitor}

VARIABLES
  qemu,     \* TRUE iff built with QEMU_TARGET
  table,    \* s_table[0 .. s_count - 1]
  lock,     \* s_lock: the task holding it, or Nobody
  waiting,  \* main: the tasks still to be created
  running,  \* the task the processor is in, Nobody before the scheduler
  status,   \* what the kernel knows of each task
  pc,       \* where each task is
  reg,      \* exec_count as loaded by the task's exec_count++
  row,      \* the loop counter of Refresh
  now,      \* cycles since the scheduler was started
  slice,    \* history: cycles since the last switch
  whole,    \* history: the whole microseconds of each slice a task has
            \* finished, added up as far as runtime_us can count
  rounds,   \* history: activations begun, as far as exec_count can count
  seen      \* history: tasks that, since "tasks" was typed, have been in the
            \* state their row shows

table_vars == << table, lock >>
kernel     == << running, status >>
local      == << pc, reg, row >>
time       == << now, slice, whole >>
vars == << qemu, table_vars, waiting, kernel, local, time, rounds, seen >>

-----------------------------------------------------------------------------
(* The table. *)

Entry(t) == [handle |-> t, lastIn |-> 0, runtime |-> 0, execs |-> 0, state |-> "ready"]

Slots(t) == {i \in 1 .. Len(table) : table[i].handle = t}

(* The slot in which the loops over the table stop. *)
SlotOf(t) == CHOOSE i \in Slots(t) : \A j \in Slots(t) : i <= j

Cycles == now % CounterMod

(* TaskManager_SwOutHook and TaskManager_SwInHook, for the task that is    *)
(* current when the kernel calls them.                                     *)

(* A slip in the next operator: the difference does not wrap. *)
SwOutSigned(tab, t) ==
  [i \in 1 .. Len(tab) |->
     IF tab[i].handle = t
     THEN [tab[i] EXCEPT !.runtime =
             (@ + ((Cycles - tab[i].lastIn) \div CyclesPerUs)) % RuntimeMod]
     ELSE tab[i]]

SwOut(tab, t) ==
  [i \in 1 .. Len(tab) |->
     IF Slots(t) # {} /\ i = SlotOf(t)
     THEN [tab[i] EXCEPT !.runtime =
             (@ + (((Cycles - tab[i].lastIn) % CounterMod) \div CyclesPerUs)) % RuntimeMod]
     ELSE tab[i]]

SwIn(tab, t) ==
  [i \in 1 .. Len(tab) |->
     IF Slots(t) # {} /\ i = SlotOf(t) THEN [tab[i] EXCEPT !.lastIn = Cycles] ELSE tab[i]]

-----------------------------------------------------------------------------
(* main *)

Init ==
  /\ qemu    \in BOOLEAN
  /\ table   = << >>
  /\ lock    = Nobody
  /\ waiting = Tasks
  /\ running = Nobody
  /\ status  = [t \in Runners |-> "ready"]
  /\ pc      = [t \in Runners |-> "loop"]
  /\ reg     = [t \in Tasks |-> 0]
  /\ row     = 1
  /\ now     = 0
  /\ slice   = 0
  /\ whole   = [t \in Tasks |-> 0]
  /\ rounds  = [t \in Tasks |-> 0]
  /\ seen    = {}

(* xTaskCreate succeeds and TaskManager_Register takes the next slot, if   *)
(* there is one.                                                           *)
Register(t) ==
  /\ running = Nobody
  /\ t \in waiting
  /\ waiting' = waiting \ {t}
  /\ table' = IF Len(table) >= MaxTasks THEN table ELSE Append(table, Entry(t))
  /\ UNCHANGED << qemu, lock, kernel, local, time, rounds, seen >>

(* xTaskCreate fails; main goes on, and Register turns the NULL handle     *)
(* away.  There is no such task.                                           *)
CreateFails(t) ==
  /\ running = Nobody
  /\ t \in waiting
  /\ waiting' = waiting \ {t}
  /\ status'  = [status EXCEPT ![t] = "deleted"]
  /\ UNCHANGED << qemu, table_vars, running, local, time, rounds, seen >>

(* The counter is reset and the first task switched in. *)
StartScheduler(t) ==
  /\ running = Nobody
  /\ waiting = {}
  /\ status[t] = "ready"
  /\ running' = t
  /\ table'   = SwIn(table, t)
  /\ UNCHANGED << qemu, lock, waiting, status, local, time, rounds, seen >>

-----------------------------------------------------------------------------
(* The kernel *)

Runs(t) == running = t /\ status[t] = "ready"

(* What eTaskGetState says, through map_state. *)
(* A slip in the next operator: READY and RUNNING swapped. *)
StateSwapped(t) == IF t # running /\ status[t] = "ready" THEN "running" ELSE status[t]

State(t) == IF t = running THEN "running" ELSE status[t]

(* The running task computes.  The tick comes and other tasks wake long    *)
(* before the counter has gone round once.                                 *)
Tick ==
  /\ running # Nobody /\ Runs(running)
  /\ ~qemu
  /\ now < MaxTime
  /\ slice + 1 < CounterMod
  /\ now'   = now + 1
  /\ slice' = slice + 1
  /\ UNCHANGED << qemu, table_vars, waiting, kernel, local, whole, rounds, seen >>

(* vTaskSwitchContext: the hook out of the old task, the hook into the new *)
(* one, with interrupts masked.  The same task may be chosen again.        *)
Switch(t) ==
  /\ running # Nobody
  /\ status[t] = "ready"
  /\ table'   = SwIn(SwOut(table, running), t)
  /\ running' = t
  /\ slice'   = 0
  /\ whole'   = [u \in Tasks |->
                   IF u = running
                   THEN (whole[u] + (slice \div CyclesPerUs)) % RuntimeMod
                   ELSE whole[u]]
  /\ UNCHANGED << qemu, lock, waiting, status, local, now, rounds >>

(* A delay ends. *)
Wake(t) ==
  /\ running # Nobody
  /\ status[t] = "blocked" /\ pc[t] = "loop"
  /\ status' = [status EXCEPT ![t] = "ready"]
  /\ UNCHANGED << qemu, table_vars, waiting, running, local, time, rounds >>

Goto(t, l) == pc' = [pc EXCEPT ![t] = l]

(* xSemaphoreTake(s_lock, portMAX_DELAY) and what comes after it. *)
AfterTake == [inc_take |-> "load", refresh_take |-> "refresh", print_take |-> "print"]

TakeLock(t) ==
  /\ Runs(t)
  /\ pc[t] \in DOMAIN AfterTake
  /\ qemu \/ lock = Nobody
  /\ lock' = IF qemu THEN lock ELSE t
  /\ Goto(t, AfterTake[pc[t]])
  /\ UNCHANGED << qemu, table, waiting, kernel, reg, row, time, rounds >>

WaitForLock(t) ==
  /\ Runs(t)
  /\ pc[t] \in DOMAIN AfterTake
  /\ ~qemu /\ lock # Nobody
  /\ status' = [status EXCEPT ![t] = "blocked"]
  /\ UNCHANGED << qemu, table_vars, waiting, running, local, time, rounds >>

Waiters == {t \in Runners : status[t] = "blocked" /\ pc[t] \in DOMAIN AfterTake}

(* xSemaphoreGive: one of the waiters becomes ready and tries again. *)
GiveLock ==
  /\ lock' = Nobody
  /\ IF qemu \/ Waiters = {}
     THEN UNCHANGED status
     ELSE \E t \in Waiters : status' = [status EXCEPT ![t] = "ready"]

-----------------------------------------------------------------------------
(* The loop of a task: TaskManager_IncExec(NULL), work, vTaskDelay. *)

CallIncExec(t) ==
  /\ Runs(t)
  /\ pc[t] = "loop"
  /\ rounds' = [rounds EXCEPT ![t] = (@ + 1) % ExecMod]
  /\ Goto(t, "inc_take")
  /\ UNCHANGED << qemu, table_vars, waiting, kernel, reg, row, time >>

Load(t) ==
  /\ Runs(t)
  /\ pc[t] = "load"
  /\ IF Slots(t) = {}
     THEN Goto(t, "inc_give") /\ UNCHANGED reg
     ELSE Goto(t, "store") /\ reg' = [reg EXCEPT ![t] = table[SlotOf(t)].execs]
  /\ UNCHANGED << qemu, table_vars, waiting, kernel, row, time, rounds >>

(* A slip in the next action: the loop's last slot is meant. *)
StoreLast(t) ==
  /\ Runs(t)
  /\ pc[t] = "store"
  /\ table' = [table EXCEPT ![Len(table)].execs = (reg[t] + 1) % ExecMod]
  /\ Goto(t, "inc_give")
  /\ UNCHANGED << qemu, lock, waiting, kernel, reg, row, time, rounds >>

Store(t) ==
  /\ Runs(t)
  /\ pc[t] = "store"
  /\ table' = [table EXCEPT ![SlotOf(t)].execs = (reg[t] + 1) % ExecMod]
  /\ Goto(t, "inc_give")
  /\ UNCHANGED << qemu, lock, waiting, kernel, reg, row, time, rounds >>

ReturnFromIncExec(t) ==
  /\ Runs(t)
  /\ pc[t] = "inc_give"
  /\ GiveLock
  /\ Goto(t, "work")
  /\ UNCHANGED << qemu, table, waiting, running, reg, row, time, rounds >>

Delay(t) ==
  /\ Runs(t)
  /\ pc[t] = "work"
  /\ status' = [status EXCEPT ![t] = "blocked"]
  /\ Goto(t, "loop")
  /\ UNCHANGED << qemu, table_vars, waiting, running, reg, row, time, rounds >>

-----------------------------------------------------------------------------
(* TaskManager_PrintStatus, in the CLI task: TaskManager_Refresh, which    *)
(* takes and gives the lock, then the rows under the lock again.           *)

CallStatus ==
  /\ Runs(Monitor)
  /\ pc[Monitor] = "loop"
  /\ Goto(Monitor, "refresh_take")
  /\ row' = 1
  /\ UNCHANGED << qemu, table_vars, waiting, kernel, reg, time, rounds >>

(* eTaskGetState and the store of its answer.  A switch between the two    *)
(* leaves in the row a state from a moment before the store, which is      *)
(* still after the command was typed.                                      *)
RefreshRow ==
  /\ Runs(Monitor)
  /\ pc[Monitor] = "refresh"
  /\ row <= Len(table)
  /\ table' = [table EXCEPT ![row].state = State(table[row].handle)]
  /\ row'   = row + 1
  /\ UNCHANGED << qemu, lock, waiting, kernel, pc, reg, time, rounds >>

(* A slip in the next action: the last row is left out. *)
EndRefreshEarly ==
  /\ Runs(Monitor)
  /\ pc[Monitor] = "refresh"
  /\ row >= Len(table)
  /\ GiveLock
  /\ Goto(Monitor, "print_take")
  /\ UNCHANGED << qemu, table, waiting, running, reg, row, time, rounds >>

(* A slip in the next action: the lock is kept for the rows to come. *)
EndRefreshKeepingLock ==
  /\ Runs(Monitor)
  /\ pc[Monitor] = "refresh"
  /\ row > Len(table)
  /\ Goto(Monitor, "print_take")
  /\ UNCHANGED << qemu, table_vars, waiting, kernel, reg, row, time, rounds >>

EndRefresh ==
  /\ Runs(Monitor)
  /\ pc[Monitor] = "refresh"
  /\ row > Len(table)
  /\ GiveLock
  /\ Goto(Monitor, "print_take")
  /\ UNCHANGED << qemu, table, waiting, running, reg, row, time, rounds >>

(* The rows are printed under the lock, in one step: nothing reads the     *)
(* text back.                                                              *)
EndPrint ==
  /\ Runs(Monitor)
  /\ pc[Monitor] = "print"
  /\ GiveLock
  /\ Goto(Monitor, "loop")
  /\ UNCHANGED << qemu, table, waiting, running, reg, row, time, rounds >>

-----------------------------------------------------------------------------
Activation(t) ==
  \/ CallIncExec(t)
  \/ Load(t)
  \/ Store(t)
  \/ ReturnFromIncExec(t)
  \/ Delay(t)

StatusCommand == CallStatus \/ RefreshRow \/ EndRefresh \/ EndPrint

(* While the command is at work: whose row has become true, or was and has *)
(* not changed.                                                            *)
Watch ==
  seen' = IF pc'[Monitor] = "loop"
          THEN {}
          ELSE {t \in Tasks : \E i \in Slots(t) :
                  \/ table'[i].state = State(t)'
                  \/ table'[i].state = table[i].state /\ t \in seen}

Next ==
  \/ \E t \in Tasks : Register(t) \/ CreateFails(t)
  \/ \E t \in Runners : StartScheduler(t)
  \/ Tick
  \/ /\ \/ \E t \in Runners : Switch(t) \/ TakeLock(t) \/ WaitForLock(t)
        \/ \E t \in Tasks : Wake(t) \/ Activation(t)
        \/ StatusCommand
     /\ Watch

Spec == Init /\ [][Next]_vars

-----------------------------------------------------------------------------
(* Properties *)

(* eTaskGetState is only ever asked by the CLI task, while it runs itself  *)
(* and has no row of its own: no row ever shows the state "running".       *)
Entries ==
  [handle  : Tasks,
   lastIn  : 0 .. CounterMod - 1,
   runtime : 0 .. RuntimeMod - 1,
   execs   : 0 .. ExecMod - 1,
   state   : {"ready", "blocked"}]

Sections == {"load", "store", "inc_give", "refresh", "print"}

TypeOK ==
  /\ qemu    \in BOOLEAN
  /\ table   \in Seq(Entries) /\ Len(table) <= MaxTasks
  /\ lock    \in Runners \cup {Nobody}
  /\ waiting \subseteq Tasks
  /\ running \in Runners \cup {Nobody}
  /\ status  \in [Runners -> {"ready", "blocked", "deleted"}]
  /\ pc      \in [Runners -> {"loop", "work"} \cup DOMAIN AfterTake \cup Sections]
  /\ reg     \in [Tasks -> 0 .. ExecMod - 1]
  /\ row     \in 1 .. MaxTasks + 1
  /\ now     \in 0 .. MaxTime
  /\ slice   \in 0 .. CounterMod - 1
  /\ whole   \in [Tasks -> 0 .. RuntimeMod - 1]
  /\ rounds  \in [Tasks -> 0 .. ExecMod - 1]
  /\ seen    \subseteq Tasks

(* "Total time spent running": runtime_us adds up what the task has run in *)
(* its finished slices, each cut to whole microseconds (the division comes *)
(* before the sum), modulo its width.  It is right across the wrap of the  *)
(* cycle counter, and no time of another task gets in.                     *)
RuntimeIsTimeRun ==
  \A i \in 1 .. Len(table) : table[i].runtime = whole[table[i].handle]

(* "Number of activations": each of a task's activations is counted once   *)
(* and in its own slot, wherever it is switched out between the load and   *)
(* the store of exec_count++, with the lock and without it.                *)
ActivationsAreCounted ==
  \A i \in 1 .. Len(table) :
    LET t       == table[i].handle
        pending == IF pc[t] \in {"inc_take", "load", "store"} THEN 1 ELSE 0
    IN  table[i].execs = (rounds[t] - pending) % ExecMod

(* What "tasks" prints is not left over from an earlier command: every row *)
(* shows a state its task has been in since this one was typed.            *)
StatusIsFresh ==
  pc[Monitor] \in {"print_take", "print"} =>
    \A i \in 1 .. Len(table) : table[i].handle \in seen

(* s_lock is not recursive and is kept while a whole table is printed: its *)
(* holder is always in a section that gives it back, and never sleeps or   *)
(* asks for it again.                                                      *)
HolderGivesBack ==
  ~qemu => \A t \in Runners :
             /\ lock = t <=> pc[t] \in Sections
             /\ lock = t => status[t] = "ready"
=============================================================================
