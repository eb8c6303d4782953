# A TLA+ verification of rtos-task-manager

The repository is a FreeRTOS demonstrator for a Cortex-M board: a task
registry with run-time statistics, a mutex wrapper that refuses to deadlock, a
fixed-block memory pool, an AUTOSAR-like layer of alarms, a latency
profiler and a serial console.  This directory holds TLA+ modules that model
its code, TLC configurations that check them on small instances, and proofs,
checked by TLAPS, that hold for every size.

Paths below are relative to the repository (`src/mutex_guard.c` is the file of
that name in its `src` directory).

## The system

| Component | State it keeps | Operations | What makes it correct |
|---|---|---|---|
| MutexGuard, `src/mutex_guard.c` | `s_mutexes` (semaphore, owner, lock_count), the wait table `s_wait`, the lock `s_guard` over both, the marks of the search | `Init`, `Create`, `Take`, `Give`, `DetectDeadlock`, `PrintStatus` | the table names exactly the waiting tasks, the recorded owner is the real one, no set of tasks ever waits only for itself, a refusal has a reason |
| DeadlockDemo, `src/deadlock_demo.c` | two mutex indices, `s_initialized`, the position of each task in its loop | `Start`, two task loops | each round ends and leaves nothing locked |
| MemPool, `src/mem_pool.c` | the free list threaded through the blocks, three counters, a registry of pools | `Init`, `Alloc`, `Free`, `Register`, `PrintStatus`, `DumpAll` | the list holds exactly the blocks nobody has, no block is with two clients, a client's data survives |
| MemPoolStress, `src/mem_pool_stress.c` | one pool, what the burst task has grabbed, the corruption counter | three producers, a burst task, a checker | nothing is corrupted and nothing leaks |
| TaskManager, `src/task_manager.c` | the table of tasks, cycle and switch counts | `Init`, `Register`, the two switch hooks, `Refresh`, `PrintStatus` | run time and activations are booked to the right row, no stale row is printed, the lock is always given back |
| AutosarOS, `src/autosar_os.c` | the table of alarms over software timers | `SetRelAlarm`, `CancelAlarm`, `CheckSchedulability` | an alarm fires until cancelled and not after, a task set declared schedulable is |
| LatencyProfiler, `src/latency_profiler.c` | minimum, maximum, sum, count, buckets, a ring of samples | `lp_record`, `lp_reset`, `lp_print_stats`, `lp_dump_csv` | the statistics describe the samples |
| UART CLI, `src/uart_cli.c` | a line of 31 characters | `CLI_Task`, dispatch | no write past the line |
| main, `src/main.c` | the task set | start-up order, a probe task | what tasks use exists before they run |
| FreeRTOS kernel | not in the repository | semaphores, delays, timers, critical sections | modelled by what the code relies on |
| startup, linker script, scripts, docs | none that matters here | | |

How they interact: tasks call MutexGuard and MemPool directly and share their
static tables.  MutexGuard guards its tables with a kernel mutex and blocks on
others.  MemPool raises the interrupt mask.  The CLI task reads every
component's tables for printing.  The alarms call back from the kernel's timer
task, the registry is called from the context-switch hooks.

What is hard to test in it: a task may be switched out at any kernel call and
between any two statements outside a critical section; a semaphore take may
time out just when something else happens; the wait table lags behind the
kernel; the link of a free block is the client's own memory; which task finds a
free block is decided by priorities.  The list with the line of each is under
`hazards` in `PROJECT.json`.

## The modules

    WaitForGraph      the wait-for graph: edges, cycles, removing an edge
     |- WaitForDfs    the depth-first search, frame by frame
     |   |- WaitForDfsProofs
     |- MutexGuard    the API, one action per stretch between kernel calls
         |- LockManager     (abstract) locks that never deadlock
         |- MutexGuardProofs
         |- DeadlockDemo    the two demo tasks and the CLI as clients
             |- DeadlockDemoProofs   (and MutexGuardProofs)
    BlockPool         (abstract) a set of blocks
    MemPool           Alloc and Free, statement by statement
     |- MemPoolProofs
     |- MemPoolStress       producers and burst task under priorities
         |- MemPoolStressProofs      (and MemPoolProofs)
    TaskManager       the registry, its hooks and its callers
     |- TaskManagerProofs
    RateMonotonic     the utilisation test and the exact one
     |- AutosarOS     alarms over the kernel's timers, the check in main
         |- AutosarOSProofs
    LatencyProfiler   the recorder, the report and the dump
     |- UartCli       the line editor and its commands about the profiler
         |- UartCliProofs
    MCMutexGuard, MCMemPool, MCMemPoolStress, MCTaskManager, MCAutosarOS,
    MCUartCli         instances for TLC: symmetry sets, sequences as constants

### MutexGuard

`owner`, `lockCount`, `waitTab`, `mutexCount` are the static tables of the
file; `guard` and `holder` are the kernel's view of `s_guard` and of each
`sem`; `pc`, `target`, `patience` and `result` are the locals of the calls in
progress.  An action is the code between two points at which another task can
get in with an effect it could notice: a semaphore call, or a whole section
under `s_guard`.  `MutexGuard_Take` is the chain

    CallTake - EnterGuard - RecordEdge - SemTake or SemTimeout - EnterGuard - Unlink
                         \- Refuse

and `MutexGuard_Give` is CallGive, EnterGuard, ClearOwner, SemGive, in the
code's order: the owner is cleared before the semaphore is given.  The window
between the kernel handing over a mutex and the owner being recorded, and the
window between a time-out and the edge's removal, are therefore states of the
model.  An invalid index returns at once (`CallTakeInvalid`; the same return in
`Give` changes nothing and is left out).  `Create` runs before the scheduler,
as in `main`; the code lets it run later, without a lock, but nobody does.  A
mutex is given only by the task holding it: the kernel asserts it.

`HasCycle` defines a cycle without an algorithm: a non-empty set of mutexes
each of which leads back into the set.  `WaitForDfs` models the algorithm (the
recursion as a stack of frames, `s_visited`, `s_in_stack`, the loop over the
roots) and checks that it computes `HasCycle`.

`LockManager` is the promise: a task waits for at most one lock, a request that
would close a circle is not made, only the holder releases.  The refinement
takes the kernel's `holder` for the lock and "blocked on the semaphore" for
wanting it; the table, the search and `s_guard` vanish.

### DeadlockDemo

Each step of a demo task is a step of `MutexGuard` joined with a step of the
task's program (`stage`).  The two loops differ only in the order of the
mutexes, so one set of actions serves both (`First`, `Second`).  Delays are not
timed: a task may stay where it is, which allows all interleavings and not only
the likely one.

### MemPool

One action per statement that touches the pool, so that an interrupt or switch
between any two would show; `RaiseMask` and `LowerMask` are
`taskENTER_CRITICAL_FROM_ISR` and its end, and all that keeps others out.
`word[b]` is the first word of a block: the link while it is free, the client's
data (`Write`) while it is not.  A client frees only a block it has: the code
does not check it, and no caller does otherwise.  `BlockPool` is the promise: a
request is granted some free block, and refused only when there is none.

### MemPoolStress

`Runs` is the scheduler: the task with the mask, else one of the highest
priority among those awake; equal priorities in any order (time slices).
`Working` and the calls are steps of `MemPool`; `stage` is the position in the
loop, `slots`, `index`, `grabbed` are the locals of the burst task.  Delays have
no length, except that the burst task's warm-up of 15 s ends after the
producers' staggered start of at most 120 ms (a guard of `Wake`).  The checker
task changes nothing and is left out, as are the printed counters.

### TaskManager

`table` is `s_table` up to `s_count`, `lock` is `s_lock`.  The context switch is
one action (`Switch`): the hook out of the old task, the hook into the new one,
with interrupts masked, as `vTaskSwitchContext` calls them; the switched-out
task may be anywhere, between the load and the store of `exec_count++` too.
`Tick` is the only action in which time passes, so a slice has the length of
the ticks in it.  A slice is shorter than the counter's range
(`slice + 1 < CounterMod`): the range is 86 s at 50 MHz, and the kernel's
tick comes a thousand times a second.  The scheduler is otherwise free, which
covers every choice of priorities.  `qemu` says which build runs: the one with
`QEMU_TARGET` has neither the counter nor the lock.  `CreateFails` is a failed
`xTaskCreate` of `main`, which for two of the three tasks is not looked at.
`PrintStatus` is Refresh row by row under the lock, the lock given and taken
again, then the printing.  A row's refresh asks the kernel and stores the answer in
one action: nobody else writes the field.  The rows are printed in one action, since
nothing reads them back.  `whole`, `rounds` and `seen` are history: what the
table ought to say.

### AutosarOS and RateMonotonic

An alarm is a row of `alarms` and a timer of the kernel.  `xTimerStart` and
`xTimerStop` with no time to wait only queue a command, or lose it when the
queue is full, and the code ignores which (`Send`); the timer task carries
commands out later (`CarryOut`) and calls back (`Expire`, `CallbackReturns`).
`SetRelAlarmFails` is a failed `xTimerCreate`: the row stays filled and
active behind a count that is back where it was.  `Stored` is the cut to 15
characters.  The check of a task set is `RateMonotonic!CheckSchedulability`, in
fractions over the least common denominator; its reference `MeetsDeadlines` is the response-time test for
priorities by period, exact when all tasks are released together.

### LatencyProfiler and UartCli

The probe task has the highest priority, so `lp_record` is one step for the
CLI task (`Probe`), and comes between any two loads of a report or a dump: each
line printed, each bucket, each row's index and its sample is an action.  The
one place where the compiler decides is the average: nothing is called between
the test of `count` and the division, so each operand may be the value from
before the test or be loaded again (`Divide`).  The two loads of `sample_idx`
for a row have the outcome of one: of the first if it is below the ring's
length, of the second if not, because it then stays above.  A sample in
the model carries its number, to tell equal ones apart; `rows` and `printed`
keep what was printed.

`UartCli` adds the line editor.  Keys are read at the prompt only.  "reset" runs
`Reset_Handler`: memory is cleared, `main` runs again.  The commands "tasks",
"mutexes" and "deadlock" are in `TaskManager` and `DeadlockDemo`, where what
they read is.

The operators introduced as "a slip" are deliberate mistakes; none is used by
the specifications.  Putting one in the place of the definition that follows it
makes TLC find the property named in `PROJECT.json` violated, which shows that
the property depends on that line.

## The runs

| Run | Instance | Distinct states | What it shows |
|---|---|---|---|
| `guard_timed` | 3 tasks, 2 mutexes, with and without time-outs | 156,554 | the tables keep in step with the kernel, no cycle is ever left in the graph, MutexGuard implements LockManager |
| `guard_forever` | 3 tasks, 3 mutexes, no time-outs | 75,938 | no circle of blocked tasks, also of three; every refusal is of a take that would have closed one |
| `guard_stale` | 2 tasks, 2 mutexes, time-outs | violated | a take is refused because of an edge nobody waits on any more |
| `guard_full` | 3 tasks, 2 mutexes, 2 table entries | violated | an edge that did not fit lets two tasks deadlock |
| `dfs` | every table of 3 tasks and 3 mutexes | 113,789 | the search ends, is exact, and never recurses deeper than the number of mutexes |
| `demo` | 2 demo tasks and the CLI | 1,789 | every round ends without any time-out helping, holds nothing afterwards, and the status command returns |
| `pool` | 3 clients, 3 blocks | 240,669 | the list is a chain of exactly the unowned blocks, data survives, MemPool implements BlockPool |
| `stress` | 3 producers, burst task, 5 blocks | 78,228 | no corruption, no leak, no producer ever refused |
| `stress_oom` | 2 producers, burst task, 3 blocks | violated | a producer is granted a block while the burst task keeps all it could get |
| `tasks` | 2 tasks and the CLI, both builds, 3 cycles of a counter modulo 3 | 1,500,094 | run time and activations are booked to the right row under any schedule, "tasks" shows no stale row, the lock is always given back |
| `autosar` | 2 names, 3 slots, a queue of 2, task sets of up to 9 | 69,620 | table and timers part only by a lost command, an alarm keeps firing, a set called schedulable meets its deadlines |
| `console` | a ring of 3, 6 samples, 3 buckets, a line of 2 | 4,226,564 | the line stays in its buffer, report and dump hold together while samples come, the plotter's bins are the device's |

Bounds.  Two tasks on two mutexes make the smallest circle, three on three the
smallest that no single pair closes, and a third task on two mutexes moves
entries of the table around while two others wait.  The table has as many
entries as tasks (`MaxWaiters = 3`, in the code MAX_MANAGED_TASKS is 8)
except in `guard_full`.  `LockCountMod` and `CountMod` stand for 2^32: the counters are
compared modulo them (2 in the runs that look at the counters, 1 elsewhere).
Three clients and three blocks reach exhaustion, a list of every length, and a
block's life through several clients.  In `stress` the pool is larger than the
number of producers, as 16 is than 3; with five blocks the burst task takes two
or more and meets empty slots.  In `tasks` two cycles make a microsecond and the
counter wraps at three, so slices are cut, are nothing after the cut, and span
the wrap; activations are kept modulo two.  Three cycles (`MaxTime`) reach all of
it for both tasks, but not the wrap of the run time itself, which is left to the
proof; the number of switches and activations is not bounded.  Two rows are enough for two
tasks: `main` registers three in a table of 8, so that nobody is refused a row in the
run either.  In `autosar` the queue is shorter than the
table, so that commands are lost; in the program they never are, because 20 entries
hold every command that the alarms of the table can be sent.  One name is cut down to
the other.  The
task sets are of two kinds: up to three tasks with periods that do not divide each other,
among them sets above the limit that meet their deadlines and sets below full
load that miss them; and sets of three to nine tasks (`Tight`) that miss a deadline
as narrowly as can be, each with a utilisation between the limit for its number and the
limit for one task less, next to sets that are accepted.  So each limit, from
the second in the table to the ln 2 beyond it, is needed as it is: any of them replaced by the
one before makes TLC find `VerdictIsSafe` violated.  In `console` six samples (`MaxRecords`) go round a ring
of three twice, the periods of the probe give a sample of no jitter, one on a
bucket's bound and one the ring cuts off, and the sum wraps at eight; letters
are as many as the words for two commands need.  Tasks and clients are
interchangeable, so the runs without liveness use symmetry.

Fairness, in `demo`, `dfs` and `autosar` only.  In `demo` a task that can go on does:
the two demo tasks and the CLI task have the same priority (2) and
configUSE_PREEMPTION with time slices lets all of them run, the tasks above
them being periodic and blocking.  Strong fairness is assumed of entering
`s_guard` and of a semaphore take: FreeRTOS wakes waiters of equal priority in
the order they came, and although a task that runs can take a mutex before the
one just woken does, it cannot do so for ever, because both loops sleep for at
least 100 ms between their calls and the CLI waits for its input.  No fairness at all is assumed of time-outs, so
`EveryRoundEnds` does not rest on the 500 ms of the demo.  Nothing is assumed of the
CLI's choice to ask.  In `dfs` the search is one task's code and simply goes on.
In `autosar` `main` starts the scheduler and the callbacks, which are empty in
the program, return.  The timer task serves expired timers in the order of their
times and looks at its queue between them, so none of them and no command is
left out for ever: strong fairness, because a callback under way keeps the
others waiting for a moment again and again.  The tasks above it are periodic
and block.  Where no alarm is set the system may stop, so that run does not
check for deadlock.

## What the violated runs say

*`guard_stale`.*  `MutexGuard_Take` is documented to return `pdFALSE` "on
timeout or deadlock", and prints that the task "would deadlock".  Task A holds
mutex 1 and its take of mutex 0 times out; before A gets `s_guard` again to
remove its edge, task B, which holds mutex 0, takes mutex 1.  The search
follows the edge of A and B is refused at once.  Nobody was blocked.  The
consequence is mild (a refusal that a retry would not meet), and without
time-outs it cannot happen (`guard_forever`).

*`guard_full`.*  When more tasks wait than `s_wait` has entries, the new edge is
dropped silently and the task blocks all the same.  The README's promise, that
the check fires before blocking and so prevents the deadlock, needs a table
with room for every task that waits.  The program has more tasks than the 8
entries, but only the two demo tasks take mutexes.

*`stress_oom`.*  The burst task announces "Producers should see OOM now".  A
producer frees its block and asks for one again with nothing in between, and the
burst task has the lower priority: it never sees that block.  Once every
producer has its first block it is never refused one (`ProducersNeverRefused`),
so the out-of-memory branch of the producers is not exercised by the test.  The
same fact is why the release loop, which stops at `grabbed` and not at the end of
the array, loses no block (`BurstReturnsEverything`): empty slots come last.

## What is proved

`MutexGuardProofs`, for any set of tasks, number of mutexes and table length.
`IndInv` is the inductive invariant; by itself none of the properties is
inductive, because each rests on where the tasks are in their calls:

  - nobody is in a call before the scheduler runs, and the target of a call is a
    mutex that exists (`NobodyCalls`, `TargetExists`);
  - every edge is the edge of a task between recording and unlinking it, and no
    two name the same task (`EdgesAreWaits`, `OneEdgeEach`);
  - a task between the kernel's answer and recording it holds what it was
    given, a recorded owner is the holder, and a holder that is in no such
    window is recorded (`HoldsTarget`, `OwnerHolds`, `HolderOwns`);
  - `WaitForAcyclic`.

From it: `TypeCorrect`, `GuardExcludes`, `OwnerTold`, `NoCycleLeft` and
`OwnershipChanges`, with no assumption beyond those on the constants.  With
`EnoughRoom` (finitely many tasks, at most `MaxWaiters`), which the run
`guard_full` shows to be necessary, the table is also complete
(`TableComplete`), hence exact (`TableMatches`).  Then a circle of
blocked tasks would be a cycle of the recorded graph (`CircleIsCycle`: a task
blocked on a mutex is in no window, so what it holds is recorded as its own, and
its edge is in the table), and the graph has none: `DeadlockFree`.  The same
lemma at the step that records an edge is the one step of the refinement that is
not a matter of renaming: `Implements`.  That `LockManager` is worth implementing
is a theorem of its own, `LockManagerKeepsItsPromise`: no step but a request adds a
wait, and no step hands a lock from one task to another, so to refuse the request
that would close a circle keeps every circle away.

When no caller has a timeout (`"finite" \notin Patience`), a refusal is just:
`RefusalIsJust`.  Nobody is then on the way out of the table with empty hands
(`NobodyGivesUp`), so every edge of a cycle that the search finds is that of a task
that is blocked, or of one that was given the mutex and has yet to unlink its edge;
the latter edge leads to a mutex with no recorded owner yet, so that no cycle goes
through it (`CycleIsCircle`).  With timeouts the statement is false, which is
the finding of the run `guard_stale`.

`MemPoolProofs`, for any number of blocks and clients.  `IndInv` joins the type
invariant, `MaskedAlone` (a client inside the API is the one with the mask),
`FreeListIsSound`, `Separate` (what clients own is disjoint) and `Registers`
(what was read from the pool is still so).  The lemmas `TakeHead`, `PutHead`,
`WriteElsewhere` and `ChainIsBounded` say what popping, pushing and writing do to a
chain, without induction: a chain is a sequence given by an existential
quantifier.  From it: `TypeCorrect` (so `free_count` never wraps), `ListSound`,
`Exclusive`, `DataSurvives`, `Implements`.

`WaitForDfsProofs`, for any number of tasks, mutexes and table entries, and any
order of the loops.  The frames of the recursion are a path of the graph with no
mutex twice, so a marked mutex met again closes a cycle; a mutex is left only
when all it leads to has been left (`FinishedIsClosed`), so a cycle can never
lie among what was left.  Hence `AnswerIsExact`, `RecursionIsShallow` and
`TypeCorrect`: `HasCycle`, which `MutexGuard` and its proofs use, is what the code
computes, on every graph.  The search also ends, with no fairness but that it is
run: `StepsLeft` counts the entries of `s_wait` that some call of `dfs`, made already
or not, has still to look at, and the roots; every step makes it smaller
(`Advances`), and it is at most `MutexCount * (Len(edges) + 2) + 1` (`Short`).
That is how long `s_guard` is held: the depth-first search never becomes
exponential, since no mutex is entered twice.

`DeadlockDemoProofs`, over `MutexGuardProofs`, for any table.  What the kernel
has given to a demo task is a function of its stage, the result of its last take
and where it is in the call; at rest that is nothing (`RoundsCleanUp`), whichever
of its takes was refused or timed out.  The demo is a client of `MutexGuard`
(`DemoIsClient`), and its three tasks fit into a table of three entries or more
(`DemoHasRoom`; 8 in the program), so it inherits that theory's results:
`DemoNeverDeadlocks` and `DemoSeesLockManager`.

`MemPoolStressProofs`, over `MemPoolProofs`, for any number of blocks and of
producers up to that (`ProducersAssumption`; 3 and 16 in the program).  The tasks keep
the pool's rules, so a block's data is its holder's.  The burst task, of lower
priority, is in the pool only while all producers sleep, each with one block;
counting gives that a producer always finds a block (`NeverRefused`) and that
the first NULL the burst task gets is followed by nothing but NULLs, so its
release loop leaves none behind (`NothingLeaks`).  The test is a client of `MemPool`
(`StressIsClient`), so it implements `BlockPool` as well (`StressSeesPool`).

`TaskManagerProofs`, for any tasks, widths of the counters and clock.  A task
has one row at most, so the loops over the table stop at its own; `s_lock` is
held exactly in the sections that end in giving it (`LockReturned`); what a task
has loaded is what its row holds until it stores (`Counted`), in the build
without a lock too, because only the task itself counts its activations; and the
row of the running task holds the counter as it was `slice` cycles ago, modulo
its width (`Booked`).  The rows below the one
that the "tasks" command is about to refresh have been seen since it was typed
(`RowsSeen`), and it prints only when it has passed the last, so no row it prints is
left over from an earlier command (`Fresh`).

`AutosarOSProofs`, for any table and queue.  Slot i, once in use, holds
timer i + 1 for ever, because a slot is never handed back.  So all commands to a
timer come from one slot in the order in which its flag changes, and the last of
those under way, or the timer if there is none, says what the flag says
(`KernelFollowsTable`).

The second half of that module is about `AutosarOS_CheckSchedulability`: with task
sets of at most three tasks (`main` checks one of three), and any periods and
execution times, yes means that all deadlines are met (`UpToThreeTasks`,
`VerdictSafe`).  This is the bound of Liu and Layland with the code's limits of three
places, over the integers:

  - The sums are folds.  No induction over the task set is possible here, but a fold
    exists (`FoldExists`, by the least number for which it would not) and can be
    unrolled (`UtilisationUnrolls`, `DemandUnrolls`), for sets of any length; three
    tasks are then written out, and what the sum has cancelled does not matter to the
    comparison (`Compared`).
  - Let T be the period of a task that is late, and a <= b the last multiples of the
    two other periods up to T, when these are no longer than T (`LastRelease`).  The
    task is not done at a, b or T; so with x and y what a release of the others
    asks for, and d the rest, d + x + y > a, d + 2x + y > b, d + 2x + 2y > T.
  - Then the utilisation exceeds 2a/T + b/a + T/b - 3 (`Weights`), a sum of three
    numbers whose product is 2, hence at least three times the cube root of 2, less
    3, which is 0.7797...: more than the limit 0.779 (`CubeRoot`, by two identities
    in which squares appear; `ThreeSpans`, `ThreeMiss`).
  - Two tasks likewise exceed 0.828 (`TwoSpans`), one exceeds 1; a task of longer
    period only drops out (`DropOne`).

That the limits are rounded down, never up, is what makes this true: with 0.780 for
three tasks the statement is false.

`UartCliProofs`, for any ring, buckets, line and number of samples.  A slot of the
ring gets samples whose numbers are a ring's length apart, so what a row finds
is the sample it was addressed to or a newer one.  The row's index tells how many
samples there were when it was computed; if more came before the row's sample was
loaded, that sample may be overwritten, and the rows that follow start as many
samples later as came: at most two are missed for each (`DumpFollows`).  A sample has exactly one bucket, also after the
ring's cut to 16 bits (`PlotAgrees`).  The sum is at most the maximum times the number
of samples, also when it has wrapped, and the divisor is not below the count the
report began with (`NumbersFit`).  The sum is at least the minimum times the number,
as long as the maximum times the number is less than a word, for then it has not
wrapped; and the divisor is not above the count when it is used (`LowFits`).  Every sample recorded is in some bucket, and what
the histogram has printed and what the buckets still to come hold make up at least
the samples announced (`HistogramFits`): a sample that comes meanwhile is counted in
a bucket ahead or missed, and never takes one away.  Buckets are added up by
counting the pairs of a bucket and a number up to what it holds, so that no
induction over them is needed.  Together: `ReportCoherent`.

Assumptions are those the modules name, about constants only; none is about the
behaviour of the code.

Only model-checked: all liveness (`EveryRoundEnds`, `StatusReturns`, `SearchEnds`,
`AlarmKeepsFiring`), which is out of the prover's reach, although `Advances` and
`Short` give the reason for `SearchEnds`; and `VerdictIsSafe` for task sets of more
than three tasks, on the sets of four to nine that the run has.  The argument is the same for n tasks, with a sum of n spans and
the n-th root of 2, but n is then the length of the sum: an induction over data.

## What the code does that a reader may not expect

Seen while modelling, with no run of their own:

  - `TaskManager_Register` tests `s_count` before it takes `s_lock`
    (`src/task_manager.c:152`), and `MemPool_Free` does not refuse a block that is
    free already (`src/mem_pool.c:71`).  Nothing comes of either: only `main`
    registers, before there is a second task, and nobody frees twice.
  - `deadline_miss` is documented as an overrun counter
    (`include/task_manager.h`) and is set to zero and never counted.
  - The run time is cut to whole microseconds at every switch
    (`src/task_manager.c:138`), so a task of short slices is shown as using
    nothing.  `RuntimeIsTimeRun` compares with slices cut in the same way, and so
    does not speak of this loss.
  - `AutosarOS_SetRelAlarm` is documented to return E_OK or E_OS_LIMIT; it
    returns another code when `xTimerCreate` fails, and would return E_OK if the start
    were lost, which the length of the program's queue rules out.
  - An alarm with a name of 16 characters or more cannot be cancelled by that
    name: 15 are kept and more are compared (`src/autosar_os.c:33`, line 56).
  - The dump is one row per sample only while nothing is recorded: the start of
    the ring moves under the loop, and rows are skipped
    (`src/latency_profiler.c:102`; `DumpFollowsTheRing` says how many).
  - The average of a report can exceed its maximum or be below its minimum, and its
    minimum can be below every sample the count announces: the numbers are loaded at
    different times.  `ReportIsCoherent` says by how much.  After the sum has wrapped the
    average is too small, by any amount.
  - The header of the stress test says that `free_count` returns to `num_blocks` after
    each burst (`include/mem_pool_stress.h:20`): it does not, while producers have blocks.
    What holds is that the burst task keeps none (`BurstReturnsEverything`).
  - After 31 characters the console echoes what it drops, so that a backspace
    erases another character on the screen than in the buffer
    (`src/uart_cli.c:131`).

## What is not modelled, and why

  - `MemPool_Register`, called once, by the stress test's start; the
    printing functions of the components read tables without a lock and change
    nothing: only their text can be of two moments.  Where the order of the
    loads matters (the latency report, the dump, the task table) it is modelled.
  - The percentage beside each bucket of the histogram (`src/latency_profiler.c:79`), whose
    product with 100 would wrap after 2^32 / 100 samples, five days at one in 10 ms.
  - The UART's registers, the formatting, the memory map, the fault handlers:
    pure input and output, or the end of the program.
  - The kernel, which is not in the repository: modelled by what the code relies
    on, never by its own code.  Floating point in `CheckSchedulability` is taken
    as exact: a set within a double's rounding error of its limit may get the
    other answer.
  - The scripts that plot and make documents, but for the bins of the plotter.

Left to do: the reset of one session while the
probe, the demo and the stress test of the former are under way, which needs the
modules joined; and the real priorities in `TaskManager`, with which one could
state by how much the nominal periods are exceeded (`vTaskDelay` waits after the
work, so a period is the delay and the work together).
