----------------------------- MODULE AutosarOS -----------------------------
(***************************************************************************)
(* src/autosar_os.c: alarms, which are software timers of the kernel kept  *)
(* in a table, and the schedulability check that main calls.               *)
(*                                                                         *)
(* xTimerStart and xTimerStop only put a command on the queue of the       *)
(* kernel's timer task, without waiting, and their results are ignored: a  *)
(* command is carried out later, or is lost.  One task at a time uses the  *)
(* API (in the repository it is main, before the scheduler runs).  Calls   *)
(* that are refused change nothing and are left out.                       *)
(***************************************************************************)
EXTENDS Integers, Sequences

CONSTANTS
  Names,        \* names alarms are set and cancelled by
  Stored,       \* Stored[n]: what the 15 characters of the table keep of n
  Callbacks,    \* the functions alarms call
  MaxAlarms,    \* MAX_ALARMS
  QueueLength,  \* configTIMER_QUEUE_LENGTH
  TaskSets,     \* task sets to check
  NoVerdict     \* no task set has been checked

ASSUME StoredAssumption == Stored \in [Names -> Names]

ASSUME SizeAssumption == MaxAlarms \in Nat /\ QueueLength \in Nat

VARIABLES
  alarms,      \* s_alarms
  count,       \* s_alarm_count
  timers,      \* the timers there are: the callback each has as its ID
  queue,       \* commands the timer task has not seen yet
  ticking,     \* the timers the kernel lets expire
  inCallback,  \* the timer whose callback the timer task is in, or 0
  started,     \* vTaskStartScheduler has been called
  lost,        \* history: timers a command to which was lost
  verdict      \* main's last CheckSchedulability

table  == << alarms, count, timers >>
kernel == << ticking, inCallback, started >>
vars   == << table, queue, lost, kernel, verdict >>

Rms == INSTANCE RateMonotonic

Slots == 0 .. MaxAlarms - 1

(* Timers are numbered from 1; 0 is NULL. *)
Free == [name |-> "", callback |-> "", timer |-> 0, active |-> FALSE]

Init ==
  /\ alarms     = [i \in Slots |-> Free]
  /\ count      = 0
  /\ timers     = << >>
  /\ queue      = << >>
  /\ ticking    = {}
  /\ inCallback = 0
  /\ started    = FALSE
  /\ lost       = {}
  /\ verdict    = NoVerdict

(* xTimerStart and xTimerStop with no time to wait. *)
Send(op, timer) ==
  IF Len(queue) < QueueLength
  THEN queue' = Append(queue, [op |-> op, timer |-> timer]) /\ UNCHANGED lost
  ELSE lost' = lost \cup {timer} /\ UNCHANGED queue

-----------------------------------------------------------------------------
(* AutosarOS_SetRelAlarm *)

Filled(name, callback, timer) ==
  [name |-> Stored[name], callback |-> callback, timer |-> timer, active |-> TRUE]

SetRelAlarm(name, callback) ==
  /\ count < MaxAlarms
  /\ timers' = Append(timers, callback)
  /\ alarms' = [alarms EXCEPT ![count] = Filled(name, callback, Len(timers) + 1)]
  /\ count'  = count + 1
  /\ Send("start", Len(timers) + 1)
  /\ UNCHANGED << kernel, verdict >>

(* A slip in the next action: the slot stays taken. *)
SetRelAlarmFailsCounted(name, callback) ==
  /\ count < MaxAlarms
  /\ alarms' = [alarms EXCEPT ![count] = Filled(name, callback, 0)]
  /\ count'  = count + 1
  /\ UNCHANGED << timers, queue, lost, kernel, verdict >>

(* xTimerCreate finds no memory.  The entry is left as it is, active, but  *)
(* the count is back where it was.                                         *)
SetRelAlarmFails(name, callback) ==
  /\ count < MaxAlarms
  /\ alarms' = [alarms EXCEPT ![count] = Filled(name, callback, 0)]
  /\ UNCHANGED << count, timers, queue, lost, kernel, verdict >>

-----------------------------------------------------------------------------
(* AutosarOS_CancelAlarm: the first active alarm whose stored name is the  *)
(* whole name given.                                                       *)

Found(name, i) ==
  /\ i < count
  /\ alarms[i].active /\ alarms[i].name = name

(* A slip in the next action: the slot is handed back. *)
CancelAlarmFreeing(name) ==
  \E i \in Slots :
    /\ Found(name, i) /\ \A j \in Slots : Found(name, j) => i <= j
    /\ Send("stop", alarms[i].timer)
    /\ alarms' = [alarms EXCEPT ![i].active = FALSE]
    /\ count'  = count - 1
    /\ UNCHANGED << timers, kernel, verdict >>

CancelAlarm(name) ==
  \E i \in Slots :
    /\ Found(name, i) /\ \A j \in Slots : Found(name, j) => i <= j
    /\ Send("stop", alarms[i].timer)
    /\ alarms' = [alarms EXCEPT ![i].active = FALSE]
    /\ UNCHANGED << count, timers, kernel, verdict >>

-----------------------------------------------------------------------------
(* main: one check, whose result is thrown away, and the scheduler. *)

CheckSchedulability(ts) ==
  /\ ~started /\ verdict = NoVerdict
  /\ verdict' = [tasks |-> ts, answer |-> Rms!CheckSchedulability(ts)]
  /\ UNCHANGED << table, queue, lost, kernel >>

StartScheduler ==
  /\ ~started
  /\ started' = TRUE
  /\ verdict' = NoVerdict
  /\ UNCHANGED << table, queue, lost, ticking, inCallback >>

-----------------------------------------------------------------------------
(* The kernel's timer task: it carries out commands in their order, and    *)
(* calls TimerCallback each time a timer expires.                          *)

CarryOut ==
  /\ started /\ inCallback = 0
  /\ queue # << >>
  /\ ticking' = IF Head(queue).op = "start"
                THEN ticking \cup {Head(queue).timer}
                ELSE ticking \ {Head(queue).timer}
  /\ queue' = Tail(queue)
  /\ UNCHANGED << table, inCallback, started, lost, verdict >>

(* A slip in the next action: the timer is made without auto-reload. *)
ExpireOnce(timer) ==
  /\ started /\ inCallback = 0
  /\ timer \in ticking
  /\ inCallback' = timer
  /\ ticking'    = ticking \ {timer}
  /\ UNCHANGED << table, queue, lost, started, verdict >>

Expire(timer) ==
  /\ started /\ inCallback = 0
  /\ timer \in ticking
  /\ inCallback' = timer
  /\ UNCHANGED << table, queue, lost, ticking, started, verdict >>

CallbackReturns ==
  /\ inCallback # 0
  /\ inCallback' = 0
  /\ UNCHANGED << table, queue, lost, ticking, started, verdict >>

-----------------------------------------------------------------------------
Timers == 1 .. MaxAlarms

Next ==
  \/ \E n \in Names, c \in Callbacks : SetRelAlarm(n, c) \/ SetRelAlarmFails(n, c)
  \/ \E n \in Names : CancelAlarm(n)
  \/ \E ts \in TaskSets : CheckSchedulability(ts)
  \/ StartScheduler
  \/ CarryOut
  \/ \E h \in Timers : Expire(h)
  \/ CallbackReturns

Spec == Init /\ [][Next]_vars

(* main starts the scheduler.  Callbacks return.  The timer task, once it  *)
(* runs, serves expired timers in the order of their times and looks at    *)
(* its queue between them: none is left out for ever.                      *)
Fairness ==
  /\ WF_vars(StartScheduler)
  /\ WF_vars(CallbackReturns)
  /\ SF_vars(CarryOut)
  /\ \A h \in Timers : SF_vars(Expire(h))

FairSpec == Spec /\ Fairness

-----------------------------------------------------------------------------
(* Properties *)

(* Every slot in use has a timer, also after a creation that failed:       *)
(* CancelAlarm never hands the kernel a NULL handle.                       *)
TypeOK ==
  /\ count   \in 0 .. MaxAlarms
  /\ timers  \in Seq(Callbacks)
  /\ DOMAIN alarms = Slots
  /\ \A i \in Slots :
       /\ alarms[i].active \in BOOLEAN
       /\ i < count => alarms[i].timer \in 1 .. Len(timers)
  /\ queue   \in Seq([op : {"start", "stop"}, timer : Timers]) /\ Len(queue) <= QueueLength
  /\ ticking    \subseteq Timers
  /\ inCallback \in Timers \cup {0}
  /\ started \in BOOLEAN
  /\ lost    \subseteq Timers

(* Whether the kernel will end up with the timer ticking. *)
Pending(timer) == {k \in 1 .. Len(queue) : queue[k].timer = timer}

Settled(timer) ==
  IF Pending(timer) = {}
  THEN timer \in ticking
  ELSE \E k \in Pending(timer) :
         queue[k].op = "start" /\ \A j \in Pending(timer) : j <= k

(* The table and the kernel agree, once the commands under way have been   *)
(* carried out: a timer ticks if and only if one slot in use holds it as   *)
(* an active alarm.  Only a command that found the queue full can part     *)
(* them; in particular no timer is left that the table has forgotten.      *)
AlarmFollowsTable ==
  \A h \in 1 .. Len(timers) \ lost :
    Settled(h) <=> \E i \in Slots : i < count /\ alarms[i].timer = h /\ alarms[i].active

(* "Validate RMS schedulability": a task set that is called schedulable    *)
(* meets all its deadlines under the priorities the program gives.         *)
VerdictIsSafe ==
  verdict # NoVerdict =>
    (verdict.answer => Rms!MeetsDeadlines(verdict.tasks))

(* "Register and start an Alarm (periodic software timer)": the callback   *)
(* of an alarm is called again and again until it is cancelled, unless the *)
(* start was lost.                                                         *)
AlarmKeepsFiring ==
  \A i \in Slots :
    i < count /\ alarms[i].active /\ alarms[i].timer \notin lost
      ~> inCallback = alarms[i].timer \/ ~alarms[i].active
=============================================================================
