------------------------- MODULE TaskManagerProofs -------------------------
(***************************************************************************)
(* What task_manager.c guarantees for any number of tasks, any width of    *)
(* its counters and any clock.  The argument: a task has one row at most,  *)
(* so the loops over the table stop at its own; s_lock is held exactly in  *)
(* the sections that give it back; what a task has loaded is what its row  *)
(* holds until it stores; and the row of the running task remembers, as    *)
(* far as the counter can tell, when its slice began.                      *)
(***************************************************************************)
EXTENDS TaskManager, TLAPS

-----------------------------------------------------------------------------
(* Lemmas about numbers. *)

LEMMA DivMod ==
  ASSUME NEW n \in Nat \ {0}, NEW x \in Int
  PROVE  /\ x = n * (x \div n) + (x % n)
         /\ x % n \in 0 .. n - 1
         /\ x \div n \in Int
OBVIOUS

LEMMA ModUnique ==
  ASSUME NEW n \in Nat \ {0}, NEW k \in Int, NEW r \in 0 .. n - 1
  PROVE  (n * k + r) % n = r
OBVIOUS

(* A difference of two readings of the counter is the time between them,   *)
(* wrapped or not, as long as that is less than once around.               *)
LEMMA WrappedDifference ==
  ASSUME NEW n \in Nat \ {0}, NEW x \in Int, NEW s \in 0 .. n - 1
  PROVE  ((x % n) - ((x - s) % n)) % n = s
<1> DEFINE a == x % n
           b == (x - s) % n
           p == x \div n
           q == (x - s) \div n
<1>1. x = n * p + a /\ a \in Int /\ p \in Int
  BY DivMod
<1>2. x - s \in Int /\ s \in Int
  OBVIOUS
<1>3. x - s = n * q + b /\ b \in Int /\ q \in Int
  BY <1>2, DivMod
<1> HIDE DEF a, b, p, q
<1>4. a - b = n * (q - p) + s
  BY <1>1, <1>2, <1>3
<1>5. (a - b) % n = s
  BY <1>1, <1>3, <1>4, ModUnique
<1> QED BY <1>5 DEF a, b

(* Counting on and back. *)
LEMMA CountedOn ==
  ASSUME NEW n \in Nat \ {0}, NEW x \in 0 .. n - 1
  PROVE  /\ x % n = x
         /\ (x + 1) % n \in 0 .. n - 1
         /\ (((x + 1) % n) - 1) % n = x
         /\ (((x - 1) % n) + 1) % n = x
BY SMTT(30)

-----------------------------------------------------------------------------
(* The inductive invariant. *)

(* A task has one row at most; it has been created, and is never deleted.  *)
Rows ==
  /\ \A i, j \in 1 .. Len(table) : table[i].handle = table[j].handle => i = j
  /\ \A i \in 1 .. Len(table) :
       /\ table[i].handle \notin waiting
       /\ status[table[i].handle] # "deleted"

(* Before the scheduler runs nothing has happened. *)
Before ==
  running = Nobody =>
    /\ \A t \in Runners : pc[t] = "loop"
    /\ \A t \in waiting : status[t] = "ready"
    /\ \A t \in Tasks : rounds[t] = 0 /\ whole[t] = 0
    /\ lock = Nobody /\ now = 0 /\ slice = 0

(* The sections of the tasks and those of the CLI task. *)
Places ==
  /\ \A t \in Tasks : pc[t] \in {"loop", "inc_take", "load", "store", "inc_give", "work"}
  /\ pc[Monitor] \in {"loop", "refresh_take", "refresh", "print_take", "print"}

(* What was loaded is still so. *)
Loaded ==
  \A t \in Tasks : pc[t] = "store" =>
    Slots(t) # {} /\ reg[t] = table[SlotOf(t)].execs

(* The lock is never taken in the build without one. *)
NoLock == qemu => lock = Nobody /\ now = 0 /\ slice = 0

(* The row of the running task has the beginning of its slice. *)
Stamped ==
  \A i \in 1 .. Len(table) :
    table[i].handle = running => table[i].lastIn = (now - slice) % CounterMod

TableInv ==
  /\ TypeOK /\ Rows /\ Before /\ Places /\ Loaded /\ NoLock /\ Stamped
  /\ HolderGivesBack /\ ActivationsAreCounted /\ RuntimeIsTimeRun

-----------------------------------------------------------------------------
(* Lemmas about the rows. *)

LEMMA OwnRow ==
  ASSUME TypeOK, Rows, NEW i \in 1 .. Len(table)
  PROVE  /\ table[i] \in Entries
         /\ i \in Slots(table[i].handle)
         /\ Slots(table[i].handle) # {}
         /\ SlotOf(table[i].handle) = i
         /\ table[i].handle \in Tasks
<1>1. table \in Seq(Entries)
  BY DEF TypeOK
<1>2. table[i] \in Entries
  BY <1>1
<1>3. table[i].handle \in Tasks
  BY <1>2 DEF Entries
<1>4. Slots(table[i].handle) = {i}
  BY DEF Rows, Slots
<1> QED BY <1>2, <1>3, <1>4 DEF SlotOf

LEMMA SlotIsRow ==
  ASSUME TypeOK, Rows, NEW t, Slots(t) # {}
  PROVE  SlotOf(t) \in 1 .. Len(table) /\ table[SlotOf(t)].handle = t
<1>1. PICK i \in 1 .. Len(table) : table[i].handle = t
  BY DEF Slots
<1> QED BY <1>1, OwnRow

LEMMA ClockTypes ==
  ASSUME TypeOK
  PROVE  Cycles \in 0 .. CounterMod - 1
<1>1. now \in Int
  BY NumberAssumption DEF TypeOK
<1> QED BY <1>1, DivMod, NumberAssumption DEF Cycles

(* What the hook into a task does to the rows. *)
LEMMA SwInRows ==
  ASSUME TypeOK, Rows, NEW tab \in Seq(Entries), NEW t,
         Len(tab) = Len(table), \A i \in 1 .. Len(tab) : tab[i].handle = table[i].handle
  PROVE  /\ SwIn(tab, t) \in Seq(Entries) /\ Len(SwIn(tab, t)) = Len(table)
         /\ \A i \in 1 .. Len(table) :
              /\ SwIn(tab, t)[i].handle  = table[i].handle
              /\ SwIn(tab, t)[i].runtime = tab[i].runtime
              /\ SwIn(tab, t)[i].execs   = tab[i].execs
              /\ SwIn(tab, t)[i].state   = tab[i].state
              /\ SwIn(tab, t)[i].lastIn  = IF table[i].handle = t THEN Cycles ELSE tab[i].lastIn
<1> DEFINE new(i) == IF table[i].handle = t THEN [tab[i] EXCEPT !.lastIn = Cycles] ELSE tab[i]
<1>1. \A i \in 1 .. Len(table) : Slots(t) # {} /\ i = SlotOf(t) <=> table[i].handle = t
  BY OwnRow, SlotIsRow
<1>2. SwIn(tab, t) = [i \in 1 .. Len(table) |-> new(i)]
  BY <1>1 DEF SwIn
<1>3. ASSUME NEW i \in 1 .. Len(table)
      PROVE  /\ new(i) \in Entries
             /\ new(i).handle = table[i].handle
             /\ new(i).runtime = tab[i].runtime /\ new(i).execs = tab[i].execs
             /\ new(i).state = tab[i].state
             /\ new(i).lastIn = IF table[i].handle = t THEN Cycles ELSE tab[i].lastIn
  <2>1. tab[i] \in Entries
    OBVIOUS
  <2> QED BY <2>1, ClockTypes DEF Entries
<1> HIDE DEF new
<1>4. Len(table) \in Nat
  BY DEF TypeOK
<1> QED BY <1>2, <1>3, <1>4

(* What the hook out of a task does: the time goes to that task's row.     *)
LEMMA SwOutRows ==
  ASSUME TypeOK, Rows, NEW t
  PROVE  /\ SwOut(table, t) \in Seq(Entries) /\ Len(SwOut(table, t)) = Len(table)
         /\ \A i \in 1 .. Len(table) :
              /\ SwOut(table, t)[i].handle = table[i].handle
              /\ SwOut(table, t)[i].execs  = table[i].execs
              /\ SwOut(table, t)[i].state  = table[i].state
              /\ SwOut(table, t)[i].lastIn = table[i].lastIn
              /\ SwOut(table, t)[i].runtime =
                   IF table[i].handle = t
                   THEN (table[i].runtime
                           + (((Cycles - table[i].lastIn) % CounterMod) \div CyclesPerUs))
                          % RuntimeMod
                   ELSE table[i].runtime
<1> DEFINE total(i) == (table[i].runtime
                          + (((Cycles - table[i].lastIn) % CounterMod) \div CyclesPerUs))
                         % RuntimeMod
           new(i) == IF table[i].handle = t
                     THEN [table[i] EXCEPT !.runtime = total(i)] ELSE table[i]
<1>1. \A i \in 1 .. Len(table) : Slots(t) # {} /\ i = SlotOf(t) <=> table[i].handle = t
  BY OwnRow, SlotIsRow
<1>2. SwOut(table, t) = [i \in 1 .. Len(table) |-> new(i)]
  BY <1>1 DEF SwOut
<1>3. ASSUME NEW i \in 1 .. Len(table)
      PROVE  total(i) \in 0 .. RuntimeMod - 1
  <2>1. table[i].runtime \in Int /\ table[i].lastIn \in Int
    BY OwnRow, NumberAssumption DEF Entries
  <2> DEFINE d == Cycles - table[i].lastIn
  <2>2. d \in Int
    BY <2>1, ClockTypes, NumberAssumption
  <2> HIDE DEF d
  <2> DEFINE e == d % CounterMod
  <2>3. e \in Int
    BY <2>2, DivMod, NumberAssumption
  <2> HIDE DEF e
  <2> DEFINE us == table[i].runtime + (e \div CyclesPerUs)
  <2>4. us \in Int
    <3>1. CyclesPerUs \in Nat \ {0}
      BY NumberAssumption
    <3>2. e \div CyclesPerUs \in Int
      BY <2>3, <3>1, DivMod
    <3> QED BY <2>1, <3>2
  <2> HIDE DEF us
  <2>5. us % RuntimeMod \in 0 .. RuntimeMod - 1
    BY <2>4, DivMod, NumberAssumption
  <2> QED BY <2>5 DEF us, e, d
<1> HIDE DEF total
<1>4. ASSUME NEW i \in 1 .. Len(table)
      PROVE  /\ new(i) \in Entries
             /\ new(i).handle = table[i].handle
             /\ new(i).execs = table[i].execs /\ new(i).lastIn = table[i].lastIn
             /\ new(i).state = table[i].state
             /\ new(i).runtime = IF table[i].handle = t THEN total(i) ELSE table[i].runtime
  BY <1>3, OwnRow DEF Entries
<1> HIDE DEF new
<1>5. Len(table) \in Nat
  BY DEF TypeOK
<1> QED BY <1>2, <1>4, <1>5 DEF total

(* s_lock is given back; at most one task is woken. *)
LEMMA GiveLockFacts ==
  ASSUME TypeOK, GiveLock
  PROVE  /\ lock' = Nobody
         /\ status' \in [Runners -> {"ready", "blocked", "deleted"}]
         /\ \A u \in Runners :
              /\ status'[u] = "deleted" <=> status[u] = "deleted"
              /\ status[u] = "ready" => status'[u] = "ready"
<1>1. CASE UNCHANGED status
  BY <1>1 DEF GiveLock, TypeOK
<1>2. CASE \E t \in Waiters : status' = [status EXCEPT ![t] = "ready"]
  BY <1>2 DEF GiveLock, TypeOK, Waiters
<1> QED BY <1>1, <1>2 DEF GiveLock

-----------------------------------------------------------------------------
(* The steps. *)

(* What rests on the rows alone stays while each task keeps its row. *)
LEMMA HandlesStay ==
  ASSUME TableInv, waiting' = waiting,
         Len(table') = Len(table),
         \A i \in 1 .. Len(table) : table'[i].handle = table[i].handle,
         \A u \in Runners : status'[u] = "deleted" => status[u] = "deleted"
  PROVE  /\ Rows'
         /\ \A u : Slots(u)' = Slots(u) /\ SlotOf(u)' = SlotOf(u)
         /\ \A i \in 1 .. Len(table) : table[i].handle \in Tasks
<1>1. \A u : Slots(u)' = Slots(u)
  BY DEF Slots
<1>2. \A u : SlotOf(u)' = SlotOf(u)
  BY <1>1 DEF SlotOf
<1>3. \A i \in 1 .. Len(table) : table[i].handle \in Tasks
  BY OwnRow DEF TableInv
<1>4. Rows'
  BY <1>3 DEF TableInv, Rows, Runners
<1> QED BY <1>1, <1>2, <1>3, <1>4

Counting == {"inc_take", "load", "store"}

(* Most steps leave the rows and the counters alone, and no task comes to  *)
(* a place where it counts, or leaves one.                                 *)
LEMMA Quiet ==
  ASSUME TableInv, running # Nobody,
         UNCHANGED << table, waiting, running, reg, now, slice, whole, rounds >>,
         \A u \in Tasks : /\ pc'[u] \in Counting <=> pc[u] \in Counting
                          /\ pc'[u] = "store" => pc[u] = "store",
         \A u \in Runners : status'[u] = "deleted" => status[u] = "deleted"
  PROVE  /\ Rows' /\ Before' /\ Loaded' /\ Stamped'
         /\ ActivationsAreCounted' /\ RuntimeIsTimeRun'
<1>1. /\ Rows'
      /\ \A u : Slots(u)' = Slots(u) /\ SlotOf(u)' = SlotOf(u)
      /\ \A i \in 1 .. Len(table) : table[i].handle \in Tasks
  BY HandlesStay
<1>2. Before' /\ Stamped' /\ RuntimeIsTimeRun'
  BY DEF TableInv, Before, Stamped, RuntimeIsTimeRun
<1>3. Loaded'
  BY <1>1 DEF TableInv, Loaded
<1>4. ActivationsAreCounted'
  BY <1>1 DEF TableInv, ActivationsAreCounted, Counting
<1> QED BY <1>1, <1>2, <1>3, <1>4

(* The kernel is in some task whenever a task runs. *)
LEMMA RunnerRuns ==
  ASSUME NEW t \in Runners, Runs(t)
  PROVE  running = t /\ running # Nobody /\ status[t] = "ready"
BY TaskAssumption DEF Runs, Runners

LEMMA RegisterKeeps ==
  ASSUME TableInv, NEW t \in Tasks, Register(t)
  PROVE  TableInv'
<1>1. /\ running = Nobody /\ t \in waiting /\ waiting' = waiting \ {t}
      /\ UNCHANGED << qemu, lock, running, status, pc, reg, row, now, slice, whole, rounds, seen >>
  BY DEF Register, kernel, local, time
<1>2. /\ \A u \in Runners : pc[u] = "loop"
      /\ \A u \in waiting : status[u] = "ready"
      /\ \A u \in Tasks : rounds[u] = 0 /\ whole[u] = 0
      /\ lock = Nobody /\ now = 0 /\ slice = 0
  BY <1>1 DEF TableInv, Before
<1>3. Entry(t) \in Entries
  BY NumberAssumption DEF Entry, Entries
<1>4. table \in Seq(Entries) /\ Len(table) \in Nat /\ Len(table) <= MaxTasks
  BY DEF TableInv, TypeOK
<1>5. \/ table' = table
      \/ Len(table) < MaxTasks /\ table' = Append(table, Entry(t))
  BY <1>4, NumberAssumption DEF Register
<1>6. table' \in Seq(Entries) /\ Len(table') <= MaxTasks
  BY <1>3, <1>4, <1>5, NumberAssumption
<1>7. \A i \in 1 .. Len(table') :
        \/ i \in 1 .. Len(table) /\ table'[i] = table[i]
        \/ table'[i] = Entry(t) /\ i = Len(table) + 1
  BY <1>3, <1>4, <1>5
<1>8. TypeOK'
  BY <1>1, <1>6 DEF TableInv, TypeOK
<1>9. \A i \in 1 .. Len(table) : table[i].handle \in Tasks /\ table[i].handle # t
  BY <1>1, OwnRow DEF TableInv, Rows
<1>10. Entry(t).handle = t /\ Entry(t).execs = 0 /\ Entry(t).runtime = 0
  BY DEF Entry
<1>11. Rows'
  <2>1. \A i, j \in 1 .. Len(table') : table'[i].handle = table'[j].handle => i = j
    BY <1>7, <1>9, <1>10 DEF TableInv, Rows
  <2>2. \A i \in 1 .. Len(table') :
          table'[i].handle \notin waiting' /\ status'[table'[i].handle] # "deleted"
    BY <1>1, <1>2, <1>7, <1>9, <1>10 DEF TableInv, Rows
  <2> QED BY <2>1, <2>2 DEF Rows
<1>12. Before' /\ Places' /\ NoLock' /\ HolderGivesBack'
  BY <1>1, <1>2 DEF TableInv, Before, Places, NoLock, HolderGivesBack, Sections
<1>13. Loaded' /\ Stamped'
  <2>1. Loaded'
    BY <1>1, <1>2 DEF Loaded, Runners
  <2>2. \A i \in 1 .. Len(table') : table'[i].handle # Nobody
    BY <1>7, <1>9, <1>10, TaskAssumption
  <2> QED BY <1>1, <2>1, <2>2 DEF Stamped
<1>14. ActivationsAreCounted'
  <2> SUFFICES ASSUME NEW i \in 1 .. Len(table')
               PROVE  table'[i].execs
                        = (rounds[table'[i].handle]
                             - (IF pc[table'[i].handle] \in {"inc_take", "load", "store"}
                                THEN 1 ELSE 0)) % ExecMod
    BY <1>1 DEF ActivationsAreCounted
  <2>1. CASE i \in 1 .. Len(table) /\ table'[i] = table[i]
    BY <2>1 DEF TableInv, ActivationsAreCounted
  <2>2. CASE table'[i] = Entry(t)
    <3>1. rounds[t] = 0 /\ pc[t] = "loop"
      BY <1>2 DEF Runners
    <3>2. (0 - 0) % ExecMod = 0
      BY NumberAssumption
    <3> QED BY <1>10, <2>2, <3>1, <3>2
  <2> QED BY <1>7, <2>1, <2>2
<1>15. RuntimeIsTimeRun'
  BY <1>1, <1>2, <1>7, <1>10 DEF TableInv, RuntimeIsTimeRun
<1> QED BY <1>8, <1>11, <1>12, <1>13, <1>14, <1>15 DEF TableInv

LEMMA CreateFailsKeeps ==
  ASSUME TableInv, NEW t \in Tasks, CreateFails(t)
  PROVE  TableInv'
<1>1. /\ running = Nobody /\ t \in waiting /\ waiting' = waiting \ {t}
      /\ status' = [status EXCEPT ![t] = "deleted"]
      /\ UNCHANGED << qemu, table, lock, running, pc, reg, row, now, slice, whole, rounds, seen >>
  BY DEF CreateFails, table_vars, local, time
<1>2. /\ \A u \in Runners : pc[u] = "loop"
      /\ lock = Nobody
  BY <1>1 DEF TableInv, Before
<1>3. TypeOK'
  BY <1>1 DEF TableInv, TypeOK, Runners
<1>4. \A u : Slots(u)' = Slots(u)
  BY <1>1 DEF Slots
<1>5. Rows'
  BY <1>1, OwnRow DEF TableInv, TypeOK, Rows, Runners
<1>6. Before'
  BY <1>1 DEF TableInv, TypeOK, Before
<1>7. Places' /\ NoLock' /\ HolderGivesBack'
  BY <1>1, <1>2, TaskAssumption
     DEF TableInv, Places, NoLock, HolderGivesBack, Sections, Runners
<1>8. Loaded' /\ Stamped' /\ ActivationsAreCounted' /\ RuntimeIsTimeRun'
  BY <1>1, <1>2 DEF TableInv, Loaded, Runners, Stamped, ActivationsAreCounted, RuntimeIsTimeRun
<1> QED BY <1>3, <1>5, <1>6, <1>7, <1>8 DEF TableInv

LEMMA StartSchedulerKeeps ==
  ASSUME TableInv, NEW t \in Runners, StartScheduler(t)
  PROVE  TableInv'
<1>1. /\ running = Nobody /\ running' = t /\ table' = SwIn(table, t)
      /\ UNCHANGED << qemu, lock, waiting, status, pc, reg, row, now, slice, whole, rounds, seen >>
  BY DEF StartScheduler, local, time
<1>2. /\ \A u \in Runners : pc[u] = "loop"
      /\ now = 0 /\ slice = 0
  BY <1>1 DEF TableInv, Before
<1>3. table \in Seq(Entries)
  BY DEF TableInv, TypeOK
<1>4. /\ table' \in Seq(Entries) /\ Len(table') = Len(table)
      /\ \A i \in 1 .. Len(table) :
           /\ table'[i].handle  = table[i].handle
           /\ table'[i].runtime = table[i].runtime
           /\ table'[i].execs   = table[i].execs
           /\ table'[i].lastIn  = IF table[i].handle = t THEN Cycles ELSE table[i].lastIn
  BY <1>1, <1>3, SwInRows DEF TableInv
<1>5. TypeOK'
  BY <1>1, <1>4 DEF TableInv, TypeOK
<1>6. Rows'
  BY <1>1, <1>4, HandlesStay
<1>7. t # Nobody
  BY TaskAssumption DEF Runners
<1>8. Before' /\ Places' /\ NoLock' /\ HolderGivesBack'
  BY <1>1, <1>7 DEF TableInv, Before, Places, NoLock, HolderGivesBack
<1>9. Loaded'
  BY <1>1, <1>2 DEF Loaded, Runners
<1>10. Stamped'
  BY <1>1, <1>2, <1>4 DEF Stamped, Cycles
<1>11. ActivationsAreCounted' /\ RuntimeIsTimeRun'
  BY <1>1, <1>4 DEF TableInv, ActivationsAreCounted, RuntimeIsTimeRun
<1> QED BY <1>5, <1>6, <1>8, <1>9, <1>10, <1>11 DEF TableInv

LEMMA TickKeeps ==
  ASSUME TableInv, Tick
  PROVE  TableInv'
<1>1. /\ running # Nobody /\ ~qemu
      /\ now < MaxTime /\ slice + 1 < CounterMod
      /\ now' = now + 1 /\ slice' = slice + 1
      /\ UNCHANGED << qemu, table, lock, waiting, running, status, pc, reg, row,
                      whole, rounds, seen >>
  BY DEF Tick, table_vars, kernel, local
<1>2. now \in Nat /\ slice \in Nat /\ now' - slice' = now - slice
  BY <1>1, NumberAssumption DEF TableInv, TypeOK
<1>3. TypeOK'
  BY <1>1, <1>2, NumberAssumption DEF TableInv, TypeOK
<1>4. Rows' /\ Places' /\ NoLock' /\ Before' /\ HolderGivesBack'
  BY <1>1 DEF TableInv, Rows, Places, NoLock, Before, HolderGivesBack
<1>5. Stamped'
  BY <1>1, <1>2 DEF TableInv, Stamped
<1>6. Loaded'
  BY <1>1 DEF TableInv, Loaded, Slots, SlotOf
<1>7. ActivationsAreCounted' /\ RuntimeIsTimeRun'
  BY <1>1 DEF TableInv, ActivationsAreCounted, RuntimeIsTimeRun
<1> QED BY <1>3, <1>4, <1>5, <1>6, <1>7 DEF TableInv

(* The context switch: the finished slice is booked to its task. *)
LEMMA SwitchKeeps ==
  ASSUME TableInv, NEW t \in Runners, Switch(t), seen' \subseteq Tasks
  PROVE  TableInv'
<1> DEFINE tab == SwOut(table, running)
<1>1. /\ running # Nobody
      /\ table' = SwIn(tab, t)
      /\ running' = t
      /\ slice' = 0
      /\ whole' = [u \in Tasks |->
                     IF u = running
                     THEN (whole[u] + (slice \div CyclesPerUs)) % RuntimeMod
                     ELSE whole[u]]
      /\ UNCHANGED << qemu, lock, waiting, status, pc, reg, row, now, rounds >>
  BY DEF Switch, local
<1>2. /\ tab \in Seq(Entries) /\ Len(tab) = Len(table)
      /\ \A i \in 1 .. Len(table) :
           /\ tab[i].handle = table[i].handle
           /\ tab[i].execs  = table[i].execs
           /\ tab[i].lastIn = table[i].lastIn
           /\ tab[i].runtime =
                IF table[i].handle = running
                THEN (table[i].runtime
                        + (((Cycles - table[i].lastIn) % CounterMod) \div CyclesPerUs))
                       % RuntimeMod
                ELSE table[i].runtime
  BY SwOutRows DEF TableInv
<1> HIDE DEF tab
<1>3. /\ table' \in Seq(Entries) /\ Len(table') = Len(table)
      /\ \A i \in 1 .. Len(table) :
           /\ table'[i].handle  = table[i].handle
           /\ table'[i].runtime = tab[i].runtime
           /\ table'[i].execs   = table[i].execs
           /\ table'[i].lastIn  = IF table[i].handle = t THEN Cycles ELSE tab[i].lastIn
  BY <1>1, <1>2, SwInRows DEF TableInv
<1>4. now \in Int /\ slice \in 0 .. CounterMod - 1 /\ slice \in Int
  BY NumberAssumption DEF TableInv, TypeOK
<1>5. whole' \in [Tasks -> 0 .. RuntimeMod - 1]
  <2>1. slice \div CyclesPerUs \in Int
    BY <1>4, DivMod, NumberAssumption
  <2>2. ASSUME NEW u \in Tasks
        PROVE  (whole[u] + (slice \div CyclesPerUs)) % RuntimeMod \in 0 .. RuntimeMod - 1
    <3> DEFINE sum == whole[u] + (slice \div CyclesPerUs)
    <3>1. whole[u] \in Int
      BY DEF TableInv, TypeOK
    <3>2. sum \in Int
      BY <2>1, <3>1
    <3> HIDE DEF sum
    <3>3. sum % RuntimeMod \in 0 .. RuntimeMod - 1
      BY <3>2, DivMod, NumberAssumption
    <3> QED BY <3>3 DEF sum
  <2>3. \A u \in Tasks : whole[u] \in 0 .. RuntimeMod - 1
    BY DEF TableInv, TypeOK
  <2> QED BY <1>1, <2>2, <2>3
<1>6. TypeOK'
  <2>1. slice' \in 0 .. CounterMod - 1
    BY <1>1, NumberAssumption
  <2> QED BY <1>1, <1>3, <1>5, <2>1 DEF TableInv, TypeOK
<1>7. /\ Rows'
      /\ \A u : Slots(u)' = Slots(u) /\ SlotOf(u)' = SlotOf(u)
      /\ \A i \in 1 .. Len(table) : table[i].handle \in Tasks
  BY <1>1, <1>3, HandlesStay
<1>8. t # Nobody
  BY TaskAssumption DEF Runners
<1>9. Before' /\ Places' /\ NoLock' /\ HolderGivesBack'
  BY <1>1, <1>8 DEF TableInv, Before, Places, NoLock, HolderGivesBack
<1>10. Loaded'
  <2>1. \A u \in Tasks : Slots(u) # {} => SlotOf(u) \in 1 .. Len(table)
    BY SlotIsRow DEF TableInv
  <2> QED BY <1>1, <1>3, <1>7, <2>1 DEF TableInv, Loaded
<1>11. Stamped'
  BY <1>1, <1>3, <1>4 DEF Stamped, Cycles
<1>12. ActivationsAreCounted'
  BY <1>1, <1>3 DEF TableInv, ActivationsAreCounted
<1>13. RuntimeIsTimeRun'
  <2> SUFFICES ASSUME NEW i \in 1 .. Len(table)
               PROVE  table'[i].runtime = whole'[table[i].handle]
    BY <1>3 DEF RuntimeIsTimeRun
  <2>1. table[i].runtime = whole[table[i].handle]
    BY DEF TableInv, RuntimeIsTimeRun
  <2>2. CASE table[i].handle = running
    <3>1. table[i].lastIn = (now - slice) % CounterMod
      BY <2>2 DEF TableInv, Stamped
    <3>2. (Cycles - table[i].lastIn) % CounterMod = slice
      BY <1>4, <3>1, WrappedDifference, NumberAssumption DEF Cycles
    <3>3. tab[i].runtime = (table[i].runtime + (slice \div CyclesPerUs)) % RuntimeMod
      BY <1>2, <2>2, <3>2
    <3> QED BY <1>1, <1>3, <1>7, <2>1, <2>2, <3>3
  <2>3. CASE table[i].handle # running
    BY <1>1, <1>2, <1>3, <1>7, <2>1, <2>3
  <2> QED BY <2>2, <2>3
<1> QED BY <1>6, <1>7, <1>9, <1>10, <1>11, <1>12, <1>13 DEF TableInv

(* A task's place changes, and nothing of the table. *)
LEMMA WakeKeeps ==
  ASSUME TableInv, NEW t \in Tasks, Wake(t), seen' \subseteq Tasks
  PROVE  TableInv'
<1>1. /\ running # Nobody /\ status[t] = "blocked" /\ status' = [status EXCEPT ![t] = "ready"]
      /\ UNCHANGED << qemu, table, lock, waiting, running, pc, reg, row, now, slice, whole, rounds >>
  BY DEF Wake, table_vars, local, time
<1>2. TypeOK' /\ Places' /\ NoLock'
  BY <1>1 DEF TableInv, TypeOK, Places, NoLock, Runners
<1>3. HolderGivesBack'
  BY <1>1 DEF TableInv, TypeOK, HolderGivesBack
<1>4. \A u \in Runners : status'[u] = "deleted" => status[u] = "deleted"
  BY <1>1 DEF TableInv, TypeOK
<1> QED BY <1>1, <1>2, <1>3, <1>4, Quiet DEF TableInv

LEMMA TakeLockKeeps ==
  ASSUME TableInv, NEW t \in Runners, TakeLock(t), seen' \subseteq Tasks
  PROVE  TableInv'
<1>1. /\ running # Nobody /\ status[t] = "ready"
      /\ pc[t] \in DOMAIN AfterTake
      /\ qemu \/ lock = Nobody
      /\ lock' = IF qemu THEN lock ELSE t
      /\ pc' = [pc EXCEPT ![t] = AfterTake[pc[t]]]
      /\ UNCHANGED << qemu, table, waiting, running, status, reg, row, now, slice, whole, rounds >>
  BY RunnerRuns DEF TakeLock, kernel, time, Goto
<1>2. \/ pc[t] = "inc_take"     /\ pc' = [pc EXCEPT ![t] = "load"]
      \/ pc[t] = "refresh_take" /\ pc' = [pc EXCEPT ![t] = "refresh"]
      \/ pc[t] = "print_take"   /\ pc' = [pc EXCEPT ![t] = "print"]
  <2>1. pc[t] \in {"inc_take", "refresh_take", "print_take"}
    BY <1>1 DEF AfterTake
  <2>2. /\ AfterTake["inc_take"] = "load"
        /\ AfterTake["refresh_take"] = "refresh"
        /\ AfterTake["print_take"] = "print"
    BY DEF AfterTake
  <2>3. CASE pc[t] = "inc_take"
    BY <1>1, <2>2, <2>3
  <2>4. CASE pc[t] = "refresh_take"
    BY <1>1, <2>2, <2>4
  <2>5. CASE pc[t] = "print_take"
    BY <1>1, <2>2, <2>5
  <2> QED BY <2>1, <2>3, <2>4, <2>5
<1>3. TypeOK'
  BY <1>1, <1>2 DEF TableInv, TypeOK, AfterTake, Sections
<1>4. Places' /\ NoLock'
  BY <1>1, <1>2, TaskAssumption DEF TableInv, TypeOK, Places, NoLock, Runners
<1>5. HolderGivesBack'
  BY <1>1, <1>2, TaskAssumption DEF TableInv, TypeOK, HolderGivesBack, Sections, Runners
<1>6. \A u \in Tasks : /\ pc'[u] \in Counting <=> pc[u] \in Counting
                       /\ pc'[u] = "store" => pc[u] = "store"
  BY <1>1, <1>2 DEF TableInv, TypeOK, Counting, Runners
<1>7. Rows' /\ Before' /\ Loaded' /\ Stamped' /\ ActivationsAreCounted' /\ RuntimeIsTimeRun'
  BY <1>1, <1>6, Quiet
<1> QED BY <1>3, <1>4, <1>5, <1>7 DEF TableInv

LEMMA WaitForLockKeeps ==
  ASSUME TableInv, NEW t \in Runners, WaitForLock(t), seen' \subseteq Tasks
  PROVE  TableInv'
<1>1. /\ running # Nobody
      /\ pc[t] \in DOMAIN AfterTake /\ ~qemu
      /\ status' = [status EXCEPT ![t] = "blocked"]
      /\ UNCHANGED << qemu, table, lock, waiting, running, pc, reg, row, now, slice, whole, rounds >>
  BY RunnerRuns DEF WaitForLock, table_vars, local, time
<1>2. TypeOK' /\ Places' /\ NoLock'
  BY <1>1 DEF TableInv, TypeOK, Places, NoLock
<1>3. HolderGivesBack'
  BY <1>1 DEF TableInv, TypeOK, HolderGivesBack, Sections, AfterTake
<1>4. \A u \in Runners : status'[u] = "deleted" => status[u] = "deleted"
  BY <1>1 DEF TableInv, TypeOK
<1> QED BY <1>1, <1>2, <1>3, <1>4, Quiet DEF TableInv

(* Whoever is in a section that ends with it gives s_lock back. *)
LEMMA GivingKeeps ==
  ASSUME TableInv, NEW t \in Runners, running # Nobody, GiveLock,
         pc[t] \in Sections, NEW l, pc' = [pc EXCEPT ![t] = l], l \notin Sections,
         TypeOK', Places',
         t \in Tasks => pc[t] \notin Counting /\ l \notin Counting,
         UNCHANGED << qemu, table, waiting, running, reg, row, now, slice, whole, rounds >>
  PROVE  TableInv'
<1>1. /\ lock' = Nobody
      /\ \A u \in Runners : /\ status'[u] = "deleted" <=> status[u] = "deleted"
                            /\ status[u] = "ready" => status'[u] = "ready"
  BY GiveLockFacts DEF TableInv
<1>2. HolderGivesBack'
  <2>1. \A u \in Runners : u # t /\ ~qemu => pc[u] \notin Sections
    BY DEF TableInv, HolderGivesBack
  <2>2. \A u \in Runners : ~qemu => pc'[u] \notin Sections
    BY <2>1 DEF TableInv, TypeOK
  <2>3. \A u \in Runners : u # Nobody
    BY TaskAssumption DEF Runners
  <2> QED BY <1>1, <2>2, <2>3 DEF HolderGivesBack
<1>3. NoLock'
  BY <1>1 DEF TableInv, NoLock
<1>4. \A u \in Tasks : /\ pc'[u] \in Counting <=> pc[u] \in Counting
                       /\ pc'[u] = "store" => pc[u] = "store"
  BY DEF TableInv, TypeOK, Counting, Runners
<1>5. Rows' /\ Before' /\ Loaded' /\ Stamped' /\ ActivationsAreCounted' /\ RuntimeIsTimeRun'
  BY <1>1, <1>4, Quiet
<1> QED BY <1>2, <1>3, <1>5 DEF TableInv

LEMMA ReturnKeeps ==
  ASSUME TableInv, NEW t \in Tasks, ReturnFromIncExec(t), seen' \subseteq Tasks
  PROVE  TableInv'
<1>1. /\ t \in Runners /\ running # Nobody /\ pc[t] = "inc_give" /\ GiveLock
      /\ pc' = [pc EXCEPT ![t] = "work"]
      /\ UNCHANGED << qemu, table, waiting, running, reg, row, now, slice, whole, rounds >>
  BY RunnerRuns DEF ReturnFromIncExec, time, Goto, Runners
<1>2. TypeOK'
  BY <1>1, GiveLockFacts DEF TableInv, TypeOK, Runners
<1>3. Places'
  BY <1>1, TaskAssumption DEF TableInv, TypeOK, Places, Runners
<1> QED BY <1>1, <1>2, <1>3, GivingKeeps DEF Sections, Counting

LEMMA EndKeeps ==
  ASSUME TableInv, EndRefresh \/ EndPrint, seen' \subseteq Tasks
  PROVE  TableInv'
<1>1. PICK l \in {"print_take", "loop"} : pc' = [pc EXCEPT ![Monitor] = l]
  BY DEF EndRefresh, EndPrint, Goto
<1>2. /\ Monitor \in Runners /\ Monitor \notin Tasks /\ running # Nobody
      /\ pc[Monitor] \in {"refresh", "print"} /\ GiveLock
      /\ UNCHANGED << qemu, table, waiting, running, reg, row, now, slice, whole, rounds >>
  BY RunnerRuns, TaskAssumption DEF EndRefresh, EndPrint, time, Runners
<1>3. TypeOK'
  BY <1>1, <1>2, GiveLockFacts DEF TableInv, TypeOK, Runners, AfterTake
<1>4. Places'
  BY <1>1, <1>2 DEF TableInv, TypeOK, Places, Runners
<1> QED BY <1>1, <1>2, <1>3, <1>4, GivingKeeps DEF Sections, Counting

LEMMA DelayKeeps ==
  ASSUME TableInv, NEW t \in Tasks, Delay(t), seen' \subseteq Tasks
  PROVE  TableInv'
<1>1. /\ t \in Runners /\ running # Nobody /\ pc[t] = "work"
      /\ status' = [status EXCEPT ![t] = "blocked"]
      /\ pc' = [pc EXCEPT ![t] = "loop"]
      /\ UNCHANGED << qemu, table, lock, waiting, running, reg, row, now, slice, whole, rounds >>
  BY RunnerRuns DEF Delay, table_vars, time, Goto, Runners
<1>2. TypeOK' /\ NoLock'
  BY <1>1 DEF TableInv, TypeOK, NoLock
<1>3. Places'
  BY <1>1, TaskAssumption DEF TableInv, TypeOK, Places, Runners
<1>4. HolderGivesBack'
  BY <1>1 DEF TableInv, TypeOK, HolderGivesBack, Sections
<1>5. /\ \A u \in Runners : status'[u] = "deleted" => status[u] = "deleted"
      /\ \A u \in Tasks : /\ pc'[u] \in Counting <=> pc[u] \in Counting
                          /\ pc'[u] = "store" => pc[u] = "store"
  BY <1>1 DEF TableInv, TypeOK, Counting, Runners
<1> QED BY <1>1, <1>2, <1>3, <1>4, <1>5, Quiet DEF TableInv

LEMMA CallStatusKeeps ==
  ASSUME TableInv, CallStatus, seen' \subseteq Tasks
  PROVE  TableInv'
<1>1. /\ Monitor \in Runners /\ Monitor \notin Tasks
      /\ running # Nobody /\ pc[Monitor] = "loop" /\ row' = 1
      /\ pc' = [pc EXCEPT ![Monitor] = "refresh_take"]
      /\ UNCHANGED << qemu, table, lock, waiting, running, status, reg, now, slice, whole, rounds >>
  BY RunnerRuns, TaskAssumption DEF CallStatus, table_vars, kernel, time, Goto, Runners
<1>2. TypeOK' /\ NoLock'
  BY <1>1, NumberAssumption DEF TableInv, TypeOK, NoLock, AfterTake
<1>3. Places'
  BY <1>1 DEF TableInv, TypeOK, Places, Runners
<1>4. HolderGivesBack'
  BY <1>1 DEF TableInv, TypeOK, HolderGivesBack, Sections
<1>5. \A u \in Tasks : pc'[u] = pc[u]
  BY <1>1 DEF TableInv, TypeOK, Runners
<1> QED BY <1>1, <1>2, <1>3, <1>4, <1>5, Quiet DEF TableInv

LEMMA CallIncExecKeeps ==
  ASSUME TableInv, NEW t \in Tasks, CallIncExec(t), seen' \subseteq Tasks
  PROVE  TableInv'
<1>1. /\ t \in Runners /\ running # Nobody /\ pc[t] = "loop"
      /\ rounds' = [rounds EXCEPT ![t] = (rounds[t] + 1) % ExecMod]
      /\ pc' = [pc EXCEPT ![t] = "inc_take"]
      /\ UNCHANGED << qemu, table, lock, waiting, running, status, reg, row, now, slice, whole >>
  BY RunnerRuns DEF CallIncExec, table_vars, kernel, time, Goto, Runners
<1>2. /\ rounds[t] \in 0 .. ExecMod - 1
      /\ (rounds[t] + 1) % ExecMod \in 0 .. ExecMod - 1
      /\ rounds[t] % ExecMod = rounds[t]
      /\ (((rounds[t] + 1) % ExecMod) - 1) % ExecMod = rounds[t]
  <2>1. rounds[t] \in 0 .. ExecMod - 1
    BY DEF TableInv, TypeOK
  <2> QED BY <2>1, CountedOn, NumberAssumption
<1>3. TypeOK' /\ NoLock'
  BY <1>1, <1>2 DEF TableInv, TypeOK, NoLock, AfterTake
<1>4. Places'
  BY <1>1, TaskAssumption DEF TableInv, TypeOK, Places, Runners
<1>5. HolderGivesBack'
  BY <1>1 DEF TableInv, TypeOK, HolderGivesBack, Sections
<1>6. /\ Rows'
      /\ \A u : Slots(u)' = Slots(u) /\ SlotOf(u)' = SlotOf(u)
      /\ \A i \in 1 .. Len(table) : table[i].handle \in Tasks
  BY <1>1, HandlesStay
<1>7. Before' /\ Stamped' /\ RuntimeIsTimeRun'
  BY <1>1 DEF TableInv, Before, Stamped, RuntimeIsTimeRun
<1>8. Loaded'
  BY <1>1, <1>6 DEF TableInv, TypeOK, Loaded, Runners
<1>9. ActivationsAreCounted'
  <2> SUFFICES ASSUME NEW i \in 1 .. Len(table)
               PROVE  table[i].execs
                        = (rounds'[table[i].handle]
                             - (IF pc'[table[i].handle] \in {"inc_take", "load", "store"}
                                THEN 1 ELSE 0)) % ExecMod
    BY <1>1 DEF ActivationsAreCounted
  <2>1. table[i].execs
          = (rounds[table[i].handle]
               - (IF pc[table[i].handle] \in {"inc_take", "load", "store"} THEN 1 ELSE 0))
              % ExecMod
    BY DEF TableInv, ActivationsAreCounted
  <2>2. CASE table[i].handle = t
    <3>1. table[i].execs = rounds[t] % ExecMod
      BY <1>1, <1>2, <2>1, <2>2
    <3>2. rounds'[t] = (rounds[t] + 1) % ExecMod /\ pc'[t] = "inc_take"
      BY <1>1 DEF TableInv, TypeOK
    <3> QED BY <1>2, <2>2, <3>1, <3>2
  <2>3. CASE table[i].handle # t
    <3>1. rounds'[table[i].handle] = rounds[table[i].handle]
          /\ pc'[table[i].handle] = pc[table[i].handle]
      BY <1>1, <1>6, <2>3 DEF TableInv, TypeOK, Runners
    <3> QED BY <2>1, <3>1
  <2> QED BY <2>2, <2>3
<1> QED BY <1>3, <1>4, <1>5, <1>6, <1>7, <1>8, <1>9 DEF TableInv

LEMMA LoadKeeps ==
  ASSUME TableInv, NEW t \in Tasks, Load(t), seen' \subseteq Tasks
  PROVE  TableInv'
<1>1. /\ t \in Runners /\ running # Nobody /\ pc[t] = "load"
      /\ UNCHANGED << qemu, table, lock, waiting, running, status, row, now, slice, whole, rounds >>
  BY RunnerRuns DEF Load, table_vars, kernel, time, Runners
<1>2. \/ Slots(t) = {} /\ pc' = [pc EXCEPT ![t] = "inc_give"] /\ reg' = reg
      \/ /\ Slots(t) # {} /\ pc' = [pc EXCEPT ![t] = "store"]
         /\ reg' = [reg EXCEPT ![t] = table[SlotOf(t)].execs]
  BY DEF Load, Goto
<1>3. /\ Rows'
      /\ \A u : Slots(u)' = Slots(u) /\ SlotOf(u)' = SlotOf(u)
      /\ \A i \in 1 .. Len(table) : table[i].handle \in Tasks
  BY <1>1, HandlesStay
<1>4. Slots(t) # {} => table[SlotOf(t)].execs \in 0 .. ExecMod - 1
  <2> SUFFICES ASSUME Slots(t) # {} PROVE table[SlotOf(t)].execs \in 0 .. ExecMod - 1
    OBVIOUS
  <2>1. table[SlotOf(t)] \in Entries
    BY SlotIsRow, OwnRow DEF TableInv
  <2> QED BY <2>1 DEF Entries
<1>5. TypeOK'
  BY <1>1, <1>2, <1>4 DEF TableInv, TypeOK, Sections
<1>6. Places' /\ NoLock'
  BY <1>1, <1>2, TaskAssumption DEF TableInv, TypeOK, Places, NoLock, Runners
<1>7. HolderGivesBack'
  BY <1>1, <1>2 DEF TableInv, TypeOK, HolderGivesBack, Sections
<1>8. Before' /\ Stamped' /\ RuntimeIsTimeRun'
  BY <1>1 DEF TableInv, Before, Stamped, RuntimeIsTimeRun
<1>9. Loaded'
  BY <1>1, <1>2, <1>3 DEF TableInv, TypeOK, Loaded, Runners
<1>10. ActivationsAreCounted'
  <2>1. \A i \in 1 .. Len(table) :
          table[i].handle = t => Slots(t) # {}
    BY DEF Slots
  <2>2. \A i \in 1 .. Len(table) :
          pc'[table[i].handle] \in Counting <=> pc[table[i].handle] \in Counting
    BY <1>1, <1>2, <1>3, <2>1 DEF TableInv, TypeOK, Counting, Runners
  <2> QED BY <1>1, <2>2 DEF TableInv, ActivationsAreCounted, Counting
<1> QED BY <1>3, <1>5, <1>6, <1>7, <1>8, <1>9, <1>10 DEF TableInv

LEMMA StoreKeeps ==
  ASSUME TableInv, NEW t \in Tasks, Store(t), seen' \subseteq Tasks
  PROVE  TableInv'
<1> DEFINE i0 == SlotOf(t)
           new == [table[i0] EXCEPT !.execs = (reg[t] + 1) % ExecMod]
<1>1. /\ t \in Runners /\ running # Nobody /\ pc[t] = "store"
      /\ table' = [table EXCEPT ![i0] = new]
      /\ pc' = [pc EXCEPT ![t] = "inc_give"]
      /\ UNCHANGED << qemu, lock, waiting, running, status, reg, row, now, slice, whole, rounds >>
  BY RunnerRuns DEF Store, kernel, time, Goto, Runners
<1>2. /\ i0 \in 1 .. Len(table) /\ table[i0].handle = t
      /\ reg[t] = table[i0].execs /\ table[i0] \in Entries
  BY <1>1, SlotIsRow, OwnRow DEF TableInv, Loaded
<1>3. /\ rounds[t] \in 0 .. ExecMod - 1
      /\ (rounds[t] - 1) % ExecMod = reg[t]
  BY <1>1, <1>2 DEF TableInv, TypeOK, ActivationsAreCounted
<1>4. (reg[t] + 1) % ExecMod = rounds[t] /\ rounds[t] % ExecMod = rounds[t]
  BY <1>3, CountedOn, NumberAssumption
<1>5. /\ new \in Entries
      /\ new.handle = t /\ new.execs = rounds[t]
      /\ new.lastIn = table[i0].lastIn /\ new.runtime = table[i0].runtime
  BY <1>2, <1>3, <1>4 DEF Entries
<1> HIDE DEF new, i0
<1>6. table \in Seq(Entries) /\ Len(table) <= MaxTasks
  BY DEF TableInv, TypeOK
<1>7. /\ table' \in Seq(Entries) /\ Len(table') = Len(table)
      /\ \A i \in 1 .. Len(table) : table'[i] = IF i = i0 THEN new ELSE table[i]
  BY <1>1, <1>2, <1>5, <1>6
<1>8. TypeOK'
  BY <1>1, <1>6, <1>7 DEF TableInv, TypeOK, Sections
<1>9. Places' /\ NoLock'
  BY <1>1, TaskAssumption DEF TableInv, TypeOK, Places, NoLock, Runners
<1>10. HolderGivesBack'
  BY <1>1 DEF TableInv, TypeOK, HolderGivesBack, Sections
<1>11. \A i \in 1 .. Len(table) :
         /\ table'[i].handle  = table[i].handle
         /\ table'[i].lastIn  = table[i].lastIn
         /\ table'[i].runtime = table[i].runtime
  BY <1>2, <1>5, <1>7
<1>12. /\ Rows'
       /\ \A u : Slots(u)' = Slots(u) /\ SlotOf(u)' = SlotOf(u)
       /\ \A i \in 1 .. Len(table) : table[i].handle \in Tasks
  BY <1>1, <1>7, <1>11, HandlesStay
<1>13. Before' /\ Stamped' /\ RuntimeIsTimeRun'
  BY <1>1, <1>7, <1>11 DEF TableInv, Before, Stamped, RuntimeIsTimeRun
<1>14. Loaded'
  <2> SUFFICES ASSUME NEW u \in Tasks, pc'[u] = "store"
               PROVE  Slots(u) # {} /\ reg[u] = table'[SlotOf(u)].execs
    BY <1>1, <1>12 DEF Loaded
  <2>1. u # t /\ pc[u] = "store"
    BY <1>1 DEF TableInv, TypeOK, Runners
  <2>2. Slots(u) # {} /\ reg[u] = table[SlotOf(u)].execs
    BY <2>1 DEF TableInv, Loaded
  <2>3. SlotOf(u) \in 1 .. Len(table) /\ SlotOf(u) # i0
    BY <1>2, <2>1, <2>2, SlotIsRow DEF TableInv
  <2> QED BY <1>7, <2>2, <2>3
<1>15. ActivationsAreCounted'
  <2> SUFFICES ASSUME NEW i \in 1 .. Len(table)
               PROVE  table'[i].execs
                        = (rounds[table[i].handle]
                             - (IF pc'[table[i].handle] \in {"inc_take", "load", "store"}
                                THEN 1 ELSE 0)) % ExecMod
    BY <1>1, <1>7, <1>11 DEF ActivationsAreCounted
  <2>1. CASE i = i0
    <3>1. pc'[table[i].handle] = "inc_give"
      BY <1>1, <1>2, <2>1 DEF TableInv, TypeOK
    <3>2. rounds[t] - 0 = rounds[t]
      BY <1>3
    <3> QED BY <1>2, <1>4, <1>5, <1>7, <2>1, <3>1, <3>2
  <2>2. CASE i # i0
    <3>1. table[i].handle # t
      BY <1>2, <2>2 DEF TableInv, Rows
    <3>2. pc'[table[i].handle] = pc[table[i].handle]
      BY <1>1, <1>12, <3>1 DEF TableInv, TypeOK, Runners
    <3> QED BY <1>7, <2>2, <3>2 DEF TableInv, ActivationsAreCounted
  <2> QED BY <2>1, <2>2
<1> QED BY <1>8, <1>9, <1>10, <1>12, <1>13, <1>14, <1>15 DEF TableInv

LEMMA RefreshRowKeeps ==
  ASSUME TableInv, RefreshRow, seen' \subseteq Tasks
  PROVE  TableInv'
<1> DEFINE new == [table[row] EXCEPT !.state = State(table[row].handle)]
<1>1. /\ running = Monitor /\ running # Nobody /\ pc[Monitor] = "refresh"
      /\ row <= Len(table)
      /\ table' = [table EXCEPT ![row] = new]
      /\ row' = row + 1
      /\ UNCHANGED << qemu, lock, waiting, running, status, pc, reg, now, slice, whole, rounds >>
  BY TaskAssumption DEF RefreshRow, kernel, time, Runs
<1>2. table \in Seq(Entries) /\ Len(table) <= MaxTasks /\ row \in 1 .. Len(table)
  BY <1>1 DEF TableInv, TypeOK
<1>3. table[row] \in Entries /\ table[row].handle \in Tasks
  BY <1>2, OwnRow DEF TableInv
<1>4. State(table[row].handle) \in {"ready", "blocked"}
  <2>1. table[row].handle # running /\ status[table[row].handle] # "deleted"
    BY <1>1, <1>2, <1>3, TaskAssumption DEF TableInv, Rows
  <2> QED BY <1>3, <2>1 DEF State, TableInv, TypeOK, Runners
<1>5. /\ new \in Entries /\ new.handle = table[row].handle
      /\ new.lastIn = table[row].lastIn /\ new.runtime = table[row].runtime
      /\ new.execs = table[row].execs
  BY <1>3, <1>4 DEF Entries
<1> HIDE DEF new
<1>6. /\ table' \in Seq(Entries) /\ Len(table') = Len(table)
      /\ \A i \in 1 .. Len(table) : table'[i] = IF i = row THEN new ELSE table[i]
  BY <1>1, <1>2, <1>5
<1>7. TypeOK'
  <2>1. row' \in 1 .. MaxTasks + 1
    BY <1>1, <1>2, NumberAssumption
  <2> QED BY <1>1, <1>2, <1>6, <2>1 DEF TableInv, TypeOK
<1>8. Before' /\ Places' /\ NoLock' /\ HolderGivesBack'
  BY <1>1 DEF TableInv, Before, Places, NoLock, HolderGivesBack
<1>9. \A i \in 1 .. Len(table) :
        /\ table'[i].handle  = table[i].handle
        /\ table'[i].lastIn  = table[i].lastIn
        /\ table'[i].runtime = table[i].runtime
        /\ table'[i].execs   = table[i].execs
  BY <1>5, <1>6
<1>10. /\ Rows'
       /\ \A u : Slots(u)' = Slots(u) /\ SlotOf(u)' = SlotOf(u)
       /\ \A i \in 1 .. Len(table) : table[i].handle \in Tasks
  BY <1>1, <1>6, <1>9, HandlesStay
<1>11. Stamped' /\ RuntimeIsTimeRun' /\ ActivationsAreCounted'
  BY <1>1, <1>6, <1>9 DEF TableInv, Stamped, RuntimeIsTimeRun, ActivationsAreCounted
<1>12. Loaded'
  <2>1. \A u \in Tasks : Slots(u) # {} => SlotOf(u) \in 1 .. Len(table)
    BY SlotIsRow DEF TableInv
  <2> QED BY <1>1, <1>9, <1>10, <2>1 DEF TableInv, Loaded
<1> QED BY <1>7, <1>8, <1>10, <1>11, <1>12 DEF TableInv

-----------------------------------------------------------------------------
(* At the start there is nothing in the table. *)
THEOREM Initially == Init => TableInv
<1> SUFFICES ASSUME Init PROVE TableInv
  OBVIOUS
<1>1. TypeOK
  BY NumberAssumption DEF Init, TypeOK
<1>2. Rows /\ Before /\ Places /\ Loaded /\ NoLock /\ Stamped
  BY DEF Init, Rows, Before, Places, Loaded, NoLock, Stamped, Runners
<1>3. HolderGivesBack /\ ActivationsAreCounted /\ RuntimeIsTimeRun
  BY TaskAssumption
     DEF Init, HolderGivesBack, Sections, Runners, ActivationsAreCounted, RuntimeIsTimeRun
<1> QED BY <1>1, <1>2, <1>3 DEF TableInv

(* Every step keeps the invariant. *)
THEOREM Step == TableInv /\ [Next]_vars => TableInv'
<1> SUFFICES ASSUME TableInv, [Next]_vars PROVE TableInv'
  OBVIOUS
<1>1. CASE \E t \in Tasks : Register(t) \/ CreateFails(t)
  BY <1>1, RegisterKeeps, CreateFailsKeeps
<1>2. CASE \E t \in Runners : StartScheduler(t)
  BY <1>2, StartSchedulerKeeps
<1>3. CASE Tick
  BY <1>3, TickKeeps
<1>4. CASE (\E t \in Runners : Switch(t) \/ TakeLock(t) \/ WaitForLock(t)) /\ Watch
  <2>1. seen' \subseteq Tasks
    BY <1>4 DEF Watch
  <2> QED BY <1>4, <2>1, SwitchKeeps, TakeLockKeeps, WaitForLockKeeps
<1>5. CASE (\E t \in Tasks : Wake(t) \/ Activation(t)) /\ Watch
  <2>1. seen' \subseteq Tasks
    BY <1>5 DEF Watch
  <2> QED BY <1>5, <2>1, WakeKeeps, CallIncExecKeeps, LoadKeeps, StoreKeeps, ReturnKeeps,
             DelayKeeps DEF Activation
<1>6. CASE StatusCommand /\ Watch
  <2>1. seen' \subseteq Tasks
    BY <1>6 DEF Watch
  <2> QED BY <1>6, <2>1, CallStatusKeeps, RefreshRowKeeps, EndKeeps DEF StatusCommand
<1>7. CASE UNCHANGED vars
  <2>1. UNCHANGED << qemu, table, lock, waiting, running, status, pc, reg, row, now, slice,
                     whole, rounds, seen >>
    BY <1>7 DEF vars, table_vars, kernel, local, time
  <2>2. TypeOK' /\ Rows' /\ Before' /\ Places' /\ NoLock' /\ Stamped'
    BY <2>1 DEF TableInv, TypeOK, Rows, Before, Places, NoLock, Stamped
  <2>3. Loaded'
    BY <2>1 DEF TableInv, Loaded, Slots, SlotOf
  <2>4. HolderGivesBack' /\ ActivationsAreCounted' /\ RuntimeIsTimeRun'
    BY <2>1 DEF TableInv, HolderGivesBack, ActivationsAreCounted, RuntimeIsTimeRun
  <2> QED BY <2>2, <2>3, <2>4 DEF TableInv
<1> QED BY <1>1, <1>2, <1>3, <1>4, <1>5, <1>6, <1>7 DEF Next

THEOREM Invariance == Spec => []TableInv
BY Initially, Step, PTL DEF Spec

-----------------------------------------------------------------------------
(* The table and the tasks' places keep their types and bounds. *)
THEOREM TypeCorrect == Spec => []TypeOK
<1>1. TableInv => TypeOK
  BY DEF TableInv
<1> QED BY <1>1, Invariance, PTL

(* The holder of s_lock is in a section that gives it back, and awake. *)
THEOREM LockReturned == Spec => []HolderGivesBack
<1>1. TableInv => HolderGivesBack
  BY DEF TableInv
<1> QED BY <1>1, Invariance, PTL

(* Every activation is counted once, in its task's row. *)
THEOREM Counted == Spec => []ActivationsAreCounted
<1>1. TableInv => ActivationsAreCounted
  BY DEF TableInv
<1> QED BY <1>1, Invariance, PTL

(* runtime_us is the time its task has run, slice by slice. *)
THEOREM Booked == Spec => []RuntimeIsTimeRun
<1>1. TableInv => RuntimeIsTimeRun
  BY DEF TableInv
<1> QED BY <1>1, Invariance, PTL

-----------------------------------------------------------------------------
(* What "tasks" prints.  While Refresh goes through the rows, those behind *)
(* it have been seen true; and what has been seen stays seen, since no     *)
(* other step writes the state of a row.                                   *)

RowsSeen ==
  /\ pc[Monitor] = "refresh_take" => row = 1
  /\ pc[Monitor] = "refresh" =>
       \A i \in 1 .. Len(table) : i < row => table[i].handle \in seen

FreshInv == TableInv /\ RowsSeen /\ StatusIsFresh

(* The steps of a running system leave each row to its task, and its state *)
(* too, unless Refresh is at that row and writes what is true.             *)
RowKept(i) ==
  /\ table'[i].handle = table[i].handle
  /\ \/ table'[i].state = table[i].state
     \/ RefreshRow /\ i = row /\ table'[i].state = State(table[i].handle)'

Watched ==
  \/ \E t \in Runners : Switch(t) \/ TakeLock(t) \/ WaitForLock(t)
  \/ \E t \in Tasks : Wake(t) \/ Activation(t)
  \/ StatusCommand

LEMMA WatchedRows ==
  ASSUME TableInv, Watched
  PROVE  Len(table') = Len(table) /\ \A i \in 1 .. Len(table) : RowKept(i)
<1>1. table \in Seq(Entries) /\ \A i \in 1 .. Len(table) : table[i] \in Entries
  BY DEF TableInv, TypeOK
<1>2. CASE table' = table
  BY <1>2 DEF RowKept
<1>3. ASSUME NEW t \in Runners, Switch(t)
      PROVE  Len(table') = Len(table) /\ \A i \in 1 .. Len(table) : RowKept(i)
  <2> DEFINE tab == SwOut(table, running)
  <2>1. /\ tab \in Seq(Entries) /\ Len(tab) = Len(table)
        /\ \A i \in 1 .. Len(table) :
             tab[i].handle = table[i].handle /\ tab[i].state = table[i].state
    BY SwOutRows DEF TableInv
  <2>2. table' = SwIn(tab, t)
    BY <1>3 DEF Switch
  <2> HIDE DEF tab
  <2>3. /\ Len(table') = Len(table)
        /\ \A i \in 1 .. Len(table) :
             table'[i].handle = table[i].handle /\ table'[i].state = tab[i].state
    BY <2>1, <2>2, SwInRows DEF TableInv
  <2> QED BY <2>1, <2>3 DEF RowKept
<1>4. ASSUME NEW t \in Tasks, Store(t)
      PROVE  Len(table') = Len(table) /\ \A i \in 1 .. Len(table) : RowKept(i)
  <2> DEFINE i0 == SlotOf(t)
             new == [table[i0] EXCEPT !.execs = (reg[t] + 1) % ExecMod]
  <2>1. table' = [table EXCEPT ![i0] = new]
    BY <1>4 DEF Store
  <2>2. i0 \in 1 .. Len(table)
    BY <1>4, SlotIsRow DEF Store, TableInv, Loaded
  <2>3. new.handle = table[i0].handle /\ new.state = table[i0].state
    BY <1>1, <2>2 DEF Entries
  <2> HIDE DEF i0, new
  <2>4. Len(table') = Len(table) /\ \A i \in 1 .. Len(table) : i # i0 => table'[i] = table[i]
    BY <1>1, <2>1, <2>2
  <2>5. table'[i0] = new
    BY <1>1, <2>1, <2>2
  <2> QED BY <2>3, <2>4, <2>5 DEF RowKept
<1>5. CASE RefreshRow
  <2> DEFINE new == [table[row] EXCEPT !.state = State(table[row].handle)]
  <2>1. table' = [table EXCEPT ![row] = new] /\ UNCHANGED << running, status >>
    BY <1>5 DEF RefreshRow, kernel
  <2>2. row \in 1 .. Len(table)
    BY <1>5 DEF RefreshRow, TableInv, TypeOK
  <2>3. new.handle = table[row].handle /\ new.state = State(table[row].handle)
    BY <1>1, <2>2 DEF Entries
  <2> HIDE DEF new
  <2>4. Len(table') = Len(table) /\ \A i \in 1 .. Len(table) : i # row => table'[i] = table[i]
    BY <1>1, <2>1, <2>2
  <2>5. table'[row] = new
    BY <1>1, <2>1, <2>2
  <2>6. \A h : State(h)' = State(h)
    BY <2>1 DEF State
  <2>7. ASSUME NEW i \in 1 .. Len(table), i = row
        PROVE  RowKept(i)
    BY <1>5, <2>3, <2>5, <2>6, <2>7 DEF RowKept
  <2>8. \A i \in 1 .. Len(table) : i # row => RowKept(i)
    BY <2>4 DEF RowKept
  <2> QED BY <2>4, <2>7, <2>8
<1>6. \/ table' = table
      \/ \E t \in Runners : Switch(t)
      \/ \E t \in Tasks : Store(t)
      \/ RefreshRow
  BY DEF Watched, TakeLock, WaitForLock, Wake, Activation, CallIncExec, Load,
         ReturnFromIncExec, Delay, StatusCommand, CallStatus, EndRefresh, EndPrint, table_vars
<1> QED BY <1>2, <1>3, <1>4, <1>5, <1>6

(* What has been seen stays seen until the prompt is back; and the row     *)
(* that Refresh has just written is seen.                                  *)
LEMMA SeenStays ==
  ASSUME TableInv, Watched, Watch, pc'[Monitor] # "loop",
         NEW i \in 1 .. Len(table), NEW h, h = table[i].handle,
         h \in seen \/ (RefreshRow /\ i = row)
  PROVE  h \in seen'
<1>1. h \in Tasks /\ i \in Slots(h)
  BY OwnRow DEF TableInv
<1>2. RowKept(i)
  BY WatchedRows
<1>3. \/ table'[i].state = State(h)'
      \/ table'[i].state = table[i].state /\ h \in seen
  <2>1. CASE RefreshRow /\ i = row
    <3>1. table \in Seq(Entries) /\ table[i] \in Entries
      BY <2>1 DEF TableInv, TypeOK
    <3>2. table' = [table EXCEPT ![i].state = State(h)] /\ State(h)' = State(h)
      BY <2>1 DEF RefreshRow, kernel, State
    <3> QED BY <3>1, <3>2 DEF Entries
  <2>2. CASE ~(RefreshRow /\ i = row)
    BY <1>2, <2>2 DEF RowKept
  <2> QED BY <2>1, <2>2
<1> QED BY <1>1, <1>3 DEF Watch

LEMMA WatchedKeepsFresh ==
  ASSUME FreshInv, TableInv', Watched, Watch
  PROVE  RowsSeen' /\ StatusIsFresh'
<1>1. TableInv /\ RowsSeen /\ StatusIsFresh
  BY DEF FreshInv
<1>2. /\ Len(table') = Len(table)
      /\ \A i \in 1 .. Len(table) : table'[i].handle = table[i].handle
  BY <1>1, WatchedRows DEF RowKept
<1>3. \/ pc'[Monitor] = pc[Monitor] /\ row' = row
      \/ /\ pc'[Monitor] = pc[Monitor] /\ pc[Monitor] = "refresh"
         /\ RefreshRow /\ row' = row + 1
      \/ pc'[Monitor] = "loop"
      \/ pc'[Monitor] = "refresh_take" /\ row' = 1
      \/ pc[Monitor] = "refresh_take" /\ pc'[Monitor] = "refresh" /\ row' = row
      \/ pc[Monitor] = "refresh" /\ pc'[Monitor] = "print_take" /\ row > Len(table)
      \/ pc[Monitor] = "print_take" /\ pc'[Monitor] = "print"
  <2>1. pc \in [Runners -> {"loop", "work"} \cup DOMAIN AfterTake \cup Sections]
    BY <1>1 DEF TableInv, TypeOK
  <2>2. Monitor \in Runners /\ Monitor \notin Tasks
    BY TaskAssumption DEF Runners
  <2>3. ASSUME NEW t \in Runners, TakeLock(t)
        PROVE  \/ pc'[Monitor] = pc[Monitor] /\ row' = row
               \/ pc[Monitor] = "refresh_take" /\ pc'[Monitor] = "refresh" /\ row' = row
               \/ pc[Monitor] = "print_take" /\ pc'[Monitor] = "print"
    <3>1. pc' = [pc EXCEPT ![t] = AfterTake[pc[t]]] /\ row' = row /\ pc[t] \in DOMAIN AfterTake
      BY <2>3 DEF TakeLock, Goto
    <3>2. CASE t # Monitor
      BY <2>1, <2>2, <3>1, <3>2
    <3>3. CASE t = Monitor
      BY <1>1, <2>1, <2>2, <3>1, <3>3 DEF TableInv, Places, AfterTake
    <3> QED BY <3>2, <3>3
  <2>4. ASSUME NEW t \in Tasks, Wake(t) \/ Activation(t)
        PROVE  pc'[Monitor] = pc[Monitor] /\ row' = row
    BY <2>1, <2>2, <2>4 DEF Wake, Activation, CallIncExec, Load, Store, ReturnFromIncExec,
                           Delay, Goto, local
  <2>5. ASSUME NEW t \in Runners, Switch(t) \/ WaitForLock(t)
        PROVE  pc'[Monitor] = pc[Monitor] /\ row' = row
    BY <2>5 DEF Switch, WaitForLock, local
  <2>6. CASE CallStatus
    BY <2>1, <2>2, <2>6 DEF CallStatus, Goto
  <2>7. CASE RefreshRow
    BY <2>7 DEF RefreshRow
  <2>8. CASE EndRefresh
    BY <2>1, <2>2, <2>8 DEF EndRefresh, Goto
  <2>9. CASE EndPrint
    BY <2>1, <2>2, <2>9 DEF EndPrint, Goto
  <2> QED BY <2>3, <2>4, <2>5, <2>6, <2>7, <2>8, <2>9 DEF Watched, StatusCommand
<1>4. row \in Nat /\ Len(table) \in Nat
  BY <1>1, NumberAssumption DEF TableInv, TypeOK
<1>5. RowsSeen'
  <2>1. pc'[Monitor] = "refresh_take" => row' = 1
    BY <1>1, <1>3 DEF RowsSeen
  <2>2. ASSUME pc'[Monitor] = "refresh", NEW i \in 1 .. Len(table), i < row'
        PROVE  table[i].handle \in seen'
    <3>1. table[i].handle \in seen \/ (RefreshRow /\ i = row)
      BY <1>1, <1>3, <1>4, <2>2 DEF RowsSeen
    <3> QED BY <1>1, <2>2, <3>1, SeenStays
  <2> QED BY <1>2, <2>1, <2>2 DEF RowsSeen
<1>6. StatusIsFresh'
  <2> SUFFICES ASSUME pc'[Monitor] \in {"print_take", "print"}, NEW i \in 1 .. Len(table)
               PROVE  table[i].handle \in seen'
    BY <1>2 DEF StatusIsFresh
  <2>1. table[i].handle \in seen
    BY <1>1, <1>3, <1>4 DEF RowsSeen, StatusIsFresh
  <2> QED BY <1>1, <2>1, SeenStays
<1> QED BY <1>5, <1>6

(* Before the scheduler runs, and when the clock ticks, nobody prints or   *)
(* the rows stay as they are.                                              *)
THEOREM FreshStep == FreshInv /\ [Next]_vars => FreshInv'
<1> SUFFICES ASSUME FreshInv, [Next]_vars PROVE FreshInv'
  OBVIOUS
<1>1. TableInv /\ RowsSeen /\ StatusIsFresh
  BY DEF FreshInv
<1>2. TableInv'
  BY <1>1, Step
<1>3. CASE Watched /\ Watch
  BY <1>2, <1>3, WatchedKeepsFresh DEF FreshInv
<1>4. CASE running = Nobody /\ pc' = pc
  <2>1. pc'[Monitor] = "loop"
    BY <1>1, <1>4 DEF TableInv, Before, Runners
  <2> QED BY <1>2, <2>1 DEF FreshInv, RowsSeen, StatusIsFresh
<1>5. CASE UNCHANGED << table, pc, row, seen >>
  BY <1>1, <1>2, <1>5 DEF FreshInv, RowsSeen, StatusIsFresh
<1>6. CASE \E t \in Tasks : Register(t) \/ CreateFails(t)
  BY <1>4, <1>6 DEF Register, CreateFails, local
<1>7. CASE \E t \in Runners : StartScheduler(t)
  BY <1>4, <1>7 DEF StartScheduler, local
<1>8. CASE Tick \/ UNCHANGED vars
  BY <1>5, <1>8 DEF Tick, vars, table_vars, local
<1> QED BY <1>3, <1>6, <1>7, <1>8 DEF Next, Watched

(* Every row that "tasks" prints shows a state its task has been in since  *)
(* the command was typed.                                                  *)
THEOREM Fresh == Spec => []StatusIsFresh
<1>1. Init => FreshInv
  BY Initially DEF Init, FreshInv, RowsSeen, StatusIsFresh, Runners
<1>2. FreshInv => StatusIsFresh
  BY DEF FreshInv
<1> QED BY <1>1, <1>2, FreshStep, PTL DEF Spec

=============================================================================
