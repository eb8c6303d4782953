-------------------------- MODULE AutosarOSProofs --------------------------
(***************************************************************************)
(* Proofs about AutosarOS, for any table and any queue of the timer task.  *)
(* The alarms: slot i of the table, once it is in use, holds timer i + 1   *)
(* and keeps it, because a slot is never given back; so the commands to    *)
(* one timer come from one slot, in the order in which the slot's flag     *)
(* changes, and the last of them says what the flag says.                  *)
(*                                                                         *)
(* The schedulability check: for task sets of at most three tasks, with    *)
(* any periods and execution times, it never says yes to a set that misses *)
(* a deadline.                                                             *)
(***************************************************************************)
EXTENDS AutosarOS, SequenceTheorems, WellFoundedInduction, TLAPS

Alarms ==
  [name     : Names \cup {""},
   callback : Callbacks \cup {""},
   timer    : 0 .. MaxAlarms,
   active   : BOOLEAN]

Commands == [op : {"start", "stop"}, timer : Timers]

(* The table, as far as it is in use, numbers its timers. *)
Numbered ==
  /\ alarms \in [Slots -> Alarms]
  /\ count  \in 0 .. MaxAlarms
  /\ timers \in Seq(Callbacks) /\ Len(timers) = count
  /\ \A i \in Slots : i < count => alarms[i].timer = i + 1

(* The kernel knows of no other timers. *)
Known ==
  /\ queue \in Seq(Commands) /\ Len(queue) <= QueueLength
  /\ \A k \in 1 .. Len(queue) : queue[k].timer <= count
  /\ ticking \subseteq 1 .. count
  /\ inCallback \in 0 .. count
  /\ started \in BOOLEAN
  /\ lost \subseteq 1 .. count

(* The last command to a timer, or the kernel, agrees with its slot. *)
Agreed ==
  \A h \in 1 .. count : h \notin lost => (Settled(h) <=> alarms[h - 1].active)

AlarmInv == Numbered /\ Known /\ Agreed

-----------------------------------------------------------------------------
LEMMA Initially == Init => AlarmInv
<1> SUFFICES ASSUME Init PROVE AlarmInv
  OBVIOUS
<1>1. Numbered
  <2>1. Free \in Alarms
    BY SizeAssumption DEF Free, Alarms
  <2>2. timers \in Seq(Callbacks) /\ Len(timers) = 0
    BY DEF Init
  <2> QED BY <2>1, <2>2, SizeAssumption DEF Init, Numbered, Slots
<1>2. Known
  <2>1. queue \in Seq(Commands) /\ Len(queue) = 0
    BY DEF Init
  <2>2. ticking = {} /\ inCallback = 0 /\ started = FALSE /\ lost = {} /\ count = 0
    BY DEF Init
  <2>3. \A k \in 1 .. Len(queue) : queue[k].timer <= count
    BY <2>1
  <2>4. ticking \subseteq 1 .. count /\ lost \subseteq 1 .. count /\ inCallback \in 0 .. count
    BY <2>2
  <2>5. started \in BOOLEAN
    BY <2>2
  <2>6. Len(queue) <= QueueLength
    BY <2>1, SizeAssumption
  <2> QED BY <2>1, <2>3, <2>4, <2>5, <2>6 DEF Known
<1>3. Agreed
  BY DEF Init, Agreed
<1> QED BY <1>1, <1>2, <1>3 DEF AlarmInv

(* What a command at the end of the queue does to each timer. *)
LEMMA Sent ==
  ASSUME Known, NEW op \in {"start", "stop"}, NEW timer \in Timers,
         count \in Nat, count' \in Nat, count <= count', timer <= count',
         count' <= MaxAlarms, Send(op, timer), UNCHANGED kernel
  PROVE  /\ Known'
         /\ timer \notin lost' => (Settled(timer)' <=> op = "start")
         /\ \A h \in Timers \ {timer} : h \notin lost' =>
              h \notin lost /\ (Settled(h)' <=> Settled(h))
<1> DEFINE c == [op |-> op, timer |-> timer]
<1>0. /\ c \in Commands /\ queue \in Seq(Commands) /\ Len(queue) \in Nat
      /\ \A k \in 1 .. Len(queue) : queue[k].timer \in Nat /\ queue[k].timer <= count
  <2>1. queue \in Seq(Commands)
    BY DEF Known
  <2>2. c \in Commands
    BY DEF Commands
  <2>3. \A k \in 1 .. Len(queue) : queue[k] \in Commands
    BY <2>1
  <2>4. \A k \in 1 .. Len(queue) : queue[k].timer \in Nat
    BY <2>3 DEF Commands, Timers
  <2> QED BY <2>1, <2>2, <2>4 DEF Known
<1>1. CASE Len(queue) < QueueLength
  <2>1. queue' = Append(queue, c) /\ lost' = lost
    BY <1>1 DEF Send
  <2>2. /\ queue' \in Seq(Commands)
        /\ Len(queue') = Len(queue) + 1
        /\ queue'[Len(queue) + 1] = c
        /\ \A k \in 1 .. Len(queue) : queue'[k] = queue[k]
    BY <1>0, <2>1, AppendProperties
  <2>3. Known'
    <3>1. queue' \in Seq(Commands) /\ Len(queue') <= QueueLength
      BY <1>0, <1>1, <2>2, SizeAssumption
    <3>2. \A k \in 1 .. Len(queue') : queue'[k].timer <= count'
      <4>1. \A k \in 1 .. Len(queue) : queue'[k].timer \in Nat /\ queue'[k].timer <= count
        BY <1>0, <2>2
      <4>2. queue'[Len(queue) + 1].timer = timer
        BY <2>2
      <4>3. \A k \in 1 .. Len(queue') : k \in 1 .. Len(queue) \/ k = Len(queue) + 1
        BY <1>0, <2>2
      <4> QED BY <4>1, <4>2, <4>3
    <3>3. ticking' \subseteq 1 .. count' /\ inCallback' \in 0 .. count' /\ started' \in BOOLEAN
      BY DEF Known, kernel
    <3>4. lost' \subseteq 1 .. count'
      BY <2>1 DEF Known
    <3> QED BY <3>1, <3>2, <3>3, <3>4 DEF Known
  <2>4. Pending(timer)' = Pending(timer) \cup {Len(queue) + 1}
    BY <1>0, <2>2 DEF Pending
  <2>5. Settled(timer)' <=> op = "start"
    <3>1. \A j \in Pending(timer)' : j \in 1 .. Len(queue) + 1
      BY <1>0, <2>2 DEF Pending
    <3>2. queue'[Len(queue) + 1].op = op
      BY <2>2
    <3>3. \A k \in Pending(timer)' :
            (\A j \in Pending(timer)' : j <= k) <=> k = Len(queue) + 1
      <4>1. Len(queue) + 1 \in Pending(timer)'
        BY <2>4
      <4> QED BY <1>0, <3>1, <4>1
    <3> QED BY <2>4, <3>2, <3>3 DEF Settled
  <2>6. ASSUME NEW h \in Timers \ {timer} PROVE Settled(h)' <=> Settled(h)
    <3>1. Pending(h)' = Pending(h)
      BY <1>0, <2>2 DEF Pending
    <3>2. \A k \in Pending(h) : queue'[k] = queue[k]
      BY <2>2 DEF Pending
    <3> QED BY <3>1, <3>2 DEF Settled, kernel
  <2> QED BY <2>1, <2>3, <2>5, <2>6
<1>2. CASE ~(Len(queue) < QueueLength)
  <2>1. queue' = queue /\ lost' = lost \cup {timer}
    BY <1>2 DEF Send
  <2>2. Known'
    <3>1. queue' \in Seq(Commands) /\ Len(queue') <= QueueLength
      BY <1>0, <2>1 DEF Known
    <3>2. \A k \in 1 .. Len(queue') : queue'[k].timer <= count'
      BY <1>0, <2>1
    <3>3. ticking' \subseteq 1 .. count' /\ inCallback' \in 0 .. count' /\ started' \in BOOLEAN
      BY DEF Known, kernel
    <3>4. lost' \subseteq 1 .. count'
      BY <2>1 DEF Known, Timers
    <3> QED BY <3>1, <3>2, <3>3, <3>4 DEF Known
  <2>3. \A h \in Timers : Settled(h)' <=> Settled(h)
    BY <2>1 DEF Settled, Pending, kernel
  <2> QED BY <2>1, <2>2, <2>3
<1> QED BY <1>1, <1>2

(* Nothing of what Settled reads. *)
LEMMA Untouched ==
  ASSUME AlarmInv, UNCHANGED << timers, count, queue, ticking, lost >>,
         inCallback' \in 0 .. count, started' \in BOOLEAN, Numbered',
         \A h \in 1 .. count : alarms'[h - 1] = alarms[h - 1]
  PROVE  AlarmInv'
<1>1. Known'
  BY DEF AlarmInv, Known
<1>2. \A h \in 1 .. count : Settled(h)' <=> Settled(h)
  BY DEF Settled, Pending
<1>3. Agreed'
  BY <1>2 DEF AlarmInv, Agreed
<1> QED BY <1>1, <1>3 DEF AlarmInv

-----------------------------------------------------------------------------
(* One lemma for each operation. *)

LEMMA SetRelAlarmKeeps ==
  ASSUME AlarmInv, NEW n \in Names, NEW c \in Callbacks, SetRelAlarm(n, c)
  PROVE  AlarmInv'
<1>1. /\ count \in Nat /\ count < MaxAlarms /\ count' = count + 1
      /\ timers' = Append(timers, c)
      /\ timers \in Seq(Callbacks) /\ Len(timers) = count
      /\ alarms' = [alarms EXCEPT ![count] = Filled(n, c, count + 1)]
      /\ Send("start", count + 1)
      /\ UNCHANGED kernel
      /\ count \in Slots
  BY SizeAssumption DEF SetRelAlarm, AlarmInv, Numbered, Slots
<1>2. /\ Filled(n, c, count + 1) \in Alarms
      /\ Filled(n, c, count + 1).timer = count + 1
      /\ Filled(n, c, count + 1).active = TRUE
  <2>1. Stored[n] \in Names
    BY StoredAssumption
  <2>2. count + 1 \in 0 .. MaxAlarms
    BY <1>1, SizeAssumption
  <2> QED BY <2>1, <2>2 DEF Filled, Alarms
<1>3. /\ alarms' \in [Slots -> Alarms]
      /\ alarms'[count] = Filled(n, c, count + 1)
      /\ \A i \in Slots : i # count => alarms'[i] = alarms[i]
  BY <1>1, <1>2 DEF AlarmInv, Numbered
<1>4. Numbered'
  <2>1. timers' \in Seq(Callbacks) /\ Len(timers') = count'
    BY <1>1, AppendProperties
  <2>2. \A i \in Slots : i < count' => alarms'[i].timer = i + 1
    BY <1>1, <1>2, <1>3 DEF AlarmInv, Numbered, Slots
  <2> QED BY <1>1, <1>3, <2>1, <2>2, SizeAssumption DEF Numbered
<1>5. PICK new \in Timers : new = count + 1
  BY <1>1, SizeAssumption DEF Timers
<1>6. /\ Known'
      /\ new \notin lost' => Settled(new)'
      /\ \A h \in Timers \ {new} : h \notin lost' =>
           h \notin lost /\ (Settled(h)' <=> Settled(h))
  <2>1. /\ count' \in Nat /\ count <= count' /\ new <= count' /\ count' <= MaxAlarms
        /\ Send("start", new) /\ Known
    BY <1>1, <1>5, SizeAssumption DEF AlarmInv
  <2> QED BY <1>1, <2>1, Sent
<1>7. Agreed'
  <2> SUFFICES ASSUME NEW h \in 1 .. count', h \notin lost'
               PROVE  Settled(h)' <=> alarms'[h - 1].active
    BY DEF Agreed
  <2>1. CASE h = new
    <3>1. h - 1 = count
      BY <1>1, <1>5, <2>1
    <3> QED BY <1>2, <1>3, <1>6, <2>1, <3>1
  <2>2. CASE h # new
    <3>1. h \in 1 .. count /\ h \in Timers /\ h - 1 \in Slots /\ h - 1 # count
      BY <1>1, <1>5, <2>2, SizeAssumption DEF Timers, Slots
    <3>2. (Settled(h)' <=> Settled(h)) /\ h \notin lost
      BY <1>6, <2>2, <3>1
    <3> QED BY <1>3, <3>1, <3>2 DEF AlarmInv, Agreed
  <2> QED BY <2>1, <2>2
<1> QED BY <1>4, <1>6, <1>7 DEF AlarmInv

(* The slot that is filled in vain is not in use, before or after. *)
LEMMA SetRelAlarmFailsKeeps ==
  ASSUME AlarmInv, NEW n \in Names, NEW c \in Callbacks, SetRelAlarmFails(n, c)
  PROVE  AlarmInv'
<1>1. /\ count \in Nat /\ count < MaxAlarms
      /\ alarms' = [alarms EXCEPT ![count] = Filled(n, c, 0)]
      /\ UNCHANGED << count, timers, queue, lost, ticking, inCallback, started >>
  BY SizeAssumption DEF SetRelAlarmFails, kernel, AlarmInv, Numbered
<1>2. Filled(n, c, 0) \in Alarms
  <2>1. Stored[n] \in Names
    BY StoredAssumption
  <2>2. 0 \in 0 .. MaxAlarms
    BY SizeAssumption
  <2> QED BY <2>1, <2>2 DEF Filled, Alarms
<1>3. /\ alarms' \in [Slots -> Alarms]
      /\ \A i \in Slots : i # count => alarms'[i] = alarms[i]
  BY <1>1, <1>2 DEF AlarmInv, Numbered
<1>4. Numbered'
  BY <1>1, <1>3 DEF AlarmInv, Numbered, Slots
<1>5. \A h \in 1 .. count : alarms'[h - 1] = alarms[h - 1]
  BY <1>1, <1>3, SizeAssumption DEF Slots
<1> QED BY <1>1, <1>4, <1>5, Untouched DEF AlarmInv, Known

LEMMA CancelAlarmKeeps ==
  ASSUME AlarmInv, NEW n \in Names, CancelAlarm(n)
  PROVE  AlarmInv'
<1>1. PICK i \in Slots : /\ i < count
                         /\ Send("stop", alarms[i].timer)
                         /\ alarms' = [alarms EXCEPT ![i].active = FALSE]
                         /\ UNCHANGED << count, timers, kernel >>
  BY DEF CancelAlarm, Found
<1>2. /\ i \in Nat /\ count \in Nat /\ count <= MaxAlarms
      /\ alarms[i].timer = i + 1 /\ i + 1 \in Timers
  BY <1>1, SizeAssumption DEF AlarmInv, Numbered, Slots, Timers
<1>3. /\ alarms' \in [Slots -> Alarms]
      /\ alarms'[i].active = FALSE
      /\ \A j \in Slots : alarms'[j].timer = alarms[j].timer
      /\ \A j \in Slots : j # i => alarms'[j] = alarms[j]
  BY <1>1 DEF AlarmInv, Numbered, Alarms
<1>4. Numbered'
  BY <1>1, <1>3 DEF AlarmInv, Numbered
<1>5. /\ Known'
      /\ i + 1 \notin lost' => ~ Settled(i + 1)'
      /\ \A h \in Timers \ {i + 1} : h \notin lost' =>
           h \notin lost /\ (Settled(h)' <=> Settled(h))
  BY <1>1, <1>2, Sent DEF AlarmInv
<1>6. Agreed'
  <2> SUFFICES ASSUME NEW h \in 1 .. count, h \notin lost'
               PROVE  Settled(h)' <=> alarms'[h - 1].active
    BY <1>1 DEF Agreed
  <2>1. CASE h = i + 1
    BY <1>2, <1>3, <1>5, <2>1
  <2>2. CASE h # i + 1
    <3>1. h \in Timers /\ h - 1 \in Slots /\ h - 1 # i
      BY <1>2, <2>2, SizeAssumption DEF Timers, Slots
    <3>2. (Settled(h)' <=> Settled(h)) /\ h \notin lost
      BY <1>5, <2>2, <3>1
    <3> QED BY <1>3, <3>1, <3>2 DEF AlarmInv, Agreed
  <2> QED BY <2>1, <2>2
<1> QED BY <1>4, <1>5, <1>6 DEF AlarmInv

(* The timer task takes the first command: what it says of its timer is    *)
(* now what the kernel does, unless there is a later one.                  *)
LEMMA CarryOutKeeps ==
  ASSUME AlarmInv, CarryOut
  PROVE  AlarmInv'
<1> DEFINE c == Head(queue)
<1>1. /\ ticking' = IF c.op = "start" THEN ticking \cup {c.timer} ELSE ticking \ {c.timer}
      /\ queue' = Tail(queue) /\ queue # << >> /\ queue \in Seq(Commands)
      /\ UNCHANGED << alarms, count, timers, inCallback, started, lost >>
  BY DEF CarryOut, AlarmInv, Known, table
<1>2. /\ Len(queue) \in Nat /\ Len(queue) >= 1
      /\ c = queue[1]
      /\ queue' \in Seq(Commands) /\ Len(queue') = Len(queue) - 1
      /\ \A k \in 1 .. Len(queue) - 1 : queue'[k] = queue[k + 1]
  BY <1>1, HeadTailProperties
<1>3. c.timer \in 1 .. count /\ c \in Commands /\ c.op \in {"start", "stop"}
  <2>1. c \in Commands
    BY <1>1, <1>2
  <2>2. c.timer <= count
    BY <1>2 DEF AlarmInv, Known
  <2> QED BY <2>1, <2>2 DEF Commands, Timers, AlarmInv, Numbered
<1>4. Known'
  <2>1. \A k \in 1 .. Len(queue') : queue'[k].timer <= count
    BY <1>2 DEF AlarmInv, Known
  <2>2. ticking' \subseteq 1 .. count
    BY <1>1, <1>3 DEF AlarmInv, Known
  <2>3. Len(queue') <= QueueLength
    BY <1>2, SizeAssumption DEF AlarmInv, Known
  <2> QED BY <1>1, <1>2, <2>1, <2>2, <2>3 DEF AlarmInv, Known
<1>5. ASSUME NEW h \in 1 .. count PROVE Settled(h)' <=> Settled(h)
  <2>1. \A k \in 1 .. Len(queue) - 1 : k \in Pending(h)' <=> k + 1 \in Pending(h)
    BY <1>2 DEF Pending
  <2>2. Pending(h)' \subseteq 1 .. Len(queue) - 1 /\ Pending(h) \subseteq 1 .. Len(queue)
    BY <1>2 DEF Pending
  <2>3. 1 \in Pending(h) <=> h = c.timer
    BY <1>2 DEF Pending
  <2>4. CASE Pending(h)' = {}
    <3>1. \A k \in Pending(h) : k = 1
      <4> SUFFICES ASSUME NEW k \in Pending(h), k # 1 PROVE FALSE
        OBVIOUS
      <4>1. k - 1 \in 1 .. Len(queue) - 1 /\ (k - 1) + 1 = k
        BY <1>2, <2>2
      <4> QED BY <2>1, <2>4, <4>1
    <3>2. CASE h = c.timer
      <4>1. Pending(h) = {1}
        BY <2>3, <3>1, <3>2
      <4>2. Settled(h) <=> c.op = "start"
        BY <1>2, <4>1 DEF Settled
      <4>3. Settled(h)' <=> h \in ticking'
        BY <2>4 DEF Settled
      <4> QED BY <1>1, <3>2, <4>2, <4>3
    <3>3. CASE h # c.timer
      <4>1. Pending(h) = {}
        BY <2>3, <3>1, <3>3
      <4> QED BY <1>1, <2>4, <3>3, <4>1 DEF Settled
    <3> QED BY <3>2, <3>3
  <2>5. CASE Pending(h)' # {}
    <3>1. PICK k0 \in 1 .. Len(queue) - 1 : k0 + 1 \in Pending(h)
      BY <2>1, <2>2, <2>5
    <3>2. ASSUME NEW k \in Pending(h)', \A j \in Pending(h)' : j <= k, queue'[k].op = "start"
          PROVE  Settled(h)
      <4>1. k + 1 \in Pending(h) /\ queue[k + 1].op = "start"
        BY <1>2, <2>1, <2>2, <3>2
      <4>2. \A j \in Pending(h) : j <= k + 1
        <5> SUFFICES ASSUME NEW j \in Pending(h) PROVE j <= k + 1
          OBVIOUS
        <5>1. CASE j = 1
          BY <1>2, <2>2, <5>1
        <5>2. CASE j # 1
          <6>1. j - 1 \in 1 .. Len(queue) - 1 /\ (j - 1) + 1 = j
            BY <1>2, <2>2, <5>2
          <6>2. j - 1 \in Pending(h)'
            BY <2>1, <6>1
          <6> QED BY <1>2, <2>2, <3>2, <6>1, <6>2
        <5> QED BY <5>1, <5>2
      <4> QED BY <4>1, <4>2 DEF Settled
    <3>3. ASSUME NEW k \in Pending(h), \A j \in Pending(h) : j <= k, queue[k].op = "start"
          PROVE  Settled(h)'
      <4>1. k - 1 \in 1 .. Len(queue) - 1 /\ (k - 1) + 1 = k
        BY <1>2, <2>2, <3>1, <3>3
      <4>2. k - 1 \in Pending(h)' /\ queue'[k - 1].op = "start"
        BY <1>2, <2>1, <3>3, <4>1
      <4>3. \A j \in Pending(h)' : j <= k - 1
        <5> SUFFICES ASSUME NEW j \in Pending(h)' PROVE j <= k - 1
          OBVIOUS
        <5>1. j \in 1 .. Len(queue) - 1 /\ j + 1 \in Pending(h)
          BY <2>1, <2>2
        <5> QED BY <1>2, <3>3, <4>1, <5>1
      <4> QED BY <2>5, <4>2, <4>3 DEF Settled
    <3> QED BY <2>5, <3>1, <3>2, <3>3 DEF Settled
  <2> QED BY <2>4, <2>5
<1>6. Numbered' /\ Agreed'
  BY <1>1, <1>5 DEF AlarmInv, Numbered, Agreed
<1> QED BY <1>4, <1>6 DEF AlarmInv

-----------------------------------------------------------------------------
LEMMA Step == AlarmInv /\ [Next]_vars => AlarmInv'
<1> SUFFICES ASSUME AlarmInv, [Next]_vars PROVE AlarmInv'
  OBVIOUS
<1>1. CASE \E n \in Names, c \in Callbacks : SetRelAlarm(n, c) \/ SetRelAlarmFails(n, c)
  BY <1>1, SetRelAlarmKeeps, SetRelAlarmFailsKeeps
<1>2. CASE \E n \in Names : CancelAlarm(n)
  BY <1>2, CancelAlarmKeeps
<1>3. CASE \E ts \in TaskSets : CheckSchedulability(ts)
  <2>1. UNCHANGED << alarms, count, timers, queue, lost, ticking, inCallback, started >>
    BY <1>3 DEF CheckSchedulability, table, kernel
  <2>2. Numbered'
    BY <2>1 DEF AlarmInv, Numbered
  <2> QED BY <2>1, <2>2, Untouched DEF AlarmInv, Known
<1>4. CASE StartScheduler
  <2>1. /\ UNCHANGED << alarms, count, timers, queue, lost, ticking, inCallback >>
        /\ started' = TRUE
    BY <1>4 DEF StartScheduler, table
  <2>2. Numbered'
    BY <2>1 DEF AlarmInv, Numbered
  <2> QED BY <2>1, <2>2, Untouched DEF AlarmInv, Known
<1>5. CASE CarryOut
  BY <1>5, CarryOutKeeps
<1>6. CASE \E h \in Timers : Expire(h)
  <2>1. /\ UNCHANGED << alarms, count, timers, queue, lost, ticking, started >>
        /\ inCallback' \in ticking
    BY <1>6 DEF Expire, table
  <2>2. Numbered'
    BY <2>1 DEF AlarmInv, Numbered
  <2> QED BY <2>1, <2>2, Untouched DEF AlarmInv, Known, Numbered
<1>7. CASE CallbackReturns
  <2>1. /\ UNCHANGED << alarms, count, timers, queue, lost, ticking, started >>
        /\ inCallback' = 0
    BY <1>7 DEF CallbackReturns, table
  <2>2. Numbered'
    BY <2>1 DEF AlarmInv, Numbered
  <2> QED BY <2>1, <2>2, Untouched DEF AlarmInv, Known, Numbered
<1>8. CASE UNCHANGED vars
  <2>1. UNCHANGED << alarms, count, timers, queue, lost, ticking, inCallback, started >>
    BY <1>8 DEF vars, table, kernel
  <2>2. Numbered'
    BY <2>1 DEF AlarmInv, Numbered
  <2> QED BY <2>1, <2>2, Untouched DEF AlarmInv, Known
<1> QED BY <1>1, <1>2, <1>3, <1>4, <1>5, <1>6, <1>7, <1>8 DEF Next

THEOREM Invariance == Spec => []AlarmInv
BY Initially, Step, PTL DEF Spec

-----------------------------------------------------------------------------
(* The table keeps its type, and CancelAlarm never hands the kernel a NULL *)
(* timer: a slot in use has one, also after a creation that failed.        *)
THEOREM TypeCorrect == Spec => []TypeOK
<1>1. AlarmInv => TypeOK
  <2> SUFFICES ASSUME AlarmInv PROVE TypeOK
    OBVIOUS
  <2>1. DOMAIN alarms = Slots /\ \A i \in Slots : alarms[i] \in Alarms
    BY DEF AlarmInv, Numbered
  <2>2. \A i \in Slots : alarms[i].active \in BOOLEAN
    BY <2>1 DEF Alarms
  <2>3. \A i \in Slots : i < count => alarms[i].timer \in 1 .. Len(timers)
    BY SizeAssumption DEF AlarmInv, Numbered, Slots
  <2>4. ticking \subseteq Timers /\ inCallback \in Timers \cup {0} /\ lost \subseteq Timers
    BY SizeAssumption DEF AlarmInv, Numbered, Known, Timers
  <2>5. queue \in Seq([op : {"start", "stop"}, timer : Timers]) /\ Len(queue) <= QueueLength
    BY DEF AlarmInv, Known, Commands
  <2> QED BY <2>1, <2>2, <2>3, <2>4, <2>5 DEF AlarmInv, Numbered, Known, TypeOK
<1> QED BY <1>1, Invariance, PTL

(* Once the commands under way have been carried out, exactly the timers   *)
(* of the active alarms tick; only a command that found the queue full can *)
(* make a difference between the kernel and s_alarms.                      *)
THEOREM KernelFollowsTable == Spec => []AlarmFollowsTable
<1>1. AlarmInv => AlarmFollowsTable
  <2> SUFFICES ASSUME AlarmInv, NEW h \in 1 .. Len(timers) \ lost
               PROVE  Settled(h) <=> \E i \in Slots : /\ i < count /\ alarms[i].timer = h
                                                      /\ alarms[i].active
    BY DEF AlarmFollowsTable
  <2>1. h \in 1 .. count /\ h \notin lost
    BY DEF AlarmInv, Numbered
  <2>2. h - 1 \in Slots /\ h - 1 < count /\ alarms[h - 1].timer = h
    BY <2>1, SizeAssumption DEF AlarmInv, Numbered, Slots
  <2>3. \A i \in Slots : i < count /\ alarms[i].timer = h => i = h - 1
    BY <2>1, SizeAssumption DEF AlarmInv, Numbered, Slots
  <2> QED BY <2>1, <2>2, <2>3 DEF AlarmInv, Agreed
<1> QED BY <1>1, Invariance, PTL

-----------------------------------------------------------------------------
(* The rest is about AutosarOS_CheckSchedulability for sets of at most     *)
(* three tasks, such as the one that main checks.                          *)
(*                                                                         *)
(* Folds first.  A fold over a sequence is a recursive function on the     *)
(* sets of its positions, and nothing says that a recursive function       *)
(* exists: FoldExists does, by taking the least number of positions for    *)
(* which there is none.  What is left is that the fold at 1 .. k is the    *)
(* fold at 1 .. k - 1 with one element more.                               *)

(* A set of numbers that is not empty has its least.                       *)
LEMMA LeastOf ==
  ASSUME NEW T \in SUBSET Nat, T # {}
  PROVE  \E x \in T : \A y \in T : x <= y
<1> DEFINE L == {ss \in Nat \X Nat : ss[1] < ss[2]}
<1>1. IsWellFoundedOn(L, Nat)
  BY NatLessThanWellFounded DEF OpToRel
<1>2. \E x \in T : \A y \in T : ~ (<< y, x >> \in L)
  <2> HIDE DEF L
  <2> QED BY <1>1, WFMin
<1>3. PICK x \in T : \A y \in T : ~ (<< y, x >> \in L)
  BY <1>2
<1>4. ASSUME NEW y \in T PROVE x <= y
  <2>1. << y, x >> \in Nat \X Nat /\ << y, x >> \notin L
    BY <1>3
  <2>2. ~(y < x)
    BY <2>1
  <2> QED BY <2>2
<1> QED BY <1>4

(* Induction over the numbers, for a set. *)
LEMMA EveryNumber ==
  ASSUME NEW P \in SUBSET Nat, 0 \in P, \A n \in P : n + 1 \in P
  PROVE  Nat \subseteq P
<1> SUFFICES ASSUME Nat \ P # {} PROVE FALSE
  OBVIOUS
<1>1. PICK x \in Nat \ P : \A y \in Nat \ P : x <= y
  BY LeastOf
<1>2. x - 1 \in Nat /\ x - 1 \in P
  BY <1>1
<1>3. x - 1 + 1 \in P
  BY <1>2
<1> QED BY <1>1, <1>3

LEMMA MaxOf ==
  ASSUME NEW s \in SUBSET Nat, NEW m \in s, \A y \in s : y <= m
  PROVE  Rms!Max(s) = m
<1>1. \E x \in s : \A y \in s : x >= y
  OBVIOUS
<1>2. Rms!Max(s) \in s /\ \A y \in s : Rms!Max(s) >= y
  <2> DEFINE M == CHOOSE x \in s : \A y \in s : x >= y
  <2>1. M \in s /\ \A y \in s : M >= y
    BY <1>1
  <2> QED BY <2>1 DEF Rms!Max
<1>3. \A x \in s : x >= m => x = m
  OBVIOUS
<1>4. m \in s
  OBVIOUS
<1> QED BY <1>2, <1>3, <1>4, Zenon

(* A set of numbers up to n that is not empty has its largest. *)
LEMMA MaxIsIn ==
  ASSUME NEW n \in Nat, NEW s \in SUBSET (1 .. n), s # {}
  PROVE  Rms!Max(s) \in s
<1> DEFINE over == {x \in Nat : \A y \in s : y <= x}
<1>1. n \in over /\ over \in SUBSET Nat
  OBVIOUS
<1>2. PICK m \in over : \A x \in over : m <= x
  <2> HIDE DEF over
  <2> QED BY <1>1, LeastOf
<1>3. m \in s
  <2> SUFFICES ASSUME m \notin s PROVE FALSE
    OBVIOUS
  <2>1. m # 0
    <3>1. PICK y \in s : TRUE
      OBVIOUS
    <3>2. y \in 1 .. n /\ y <= m
      BY <1>2, <3>1
    <3> QED BY <3>2
  <2>2. m - 1 \in Nat /\ \A y \in s : y <= m - 1
    BY <1>2, <2>1
  <2>3. m - 1 \in over
    BY <2>2
  <2> QED BY <1>2, <2>3
<1> QED BY <1>2, <1>3, MaxOf

(* The recursion of a fold over 1 .. n, from the largest number down, has  *)
(* a solution.                                                             *)
Unfolds(g, n, V, base, F) ==
  /\ g \in [SUBSET (1 .. n) -> V]
  /\ \A s \in SUBSET (1 .. n) :
       g[s] = IF s = {} THEN base ELSE F[<< Rms!Max(s), g[s \ {Rms!Max(s)}] >>]

LEMMA FoldExists ==
  ASSUME NEW n \in Nat, NEW V, NEW base \in V, NEW F \in [(1 .. n) \X V -> V]
  PROVE  \E g : Unfolds(g, n, V, base, F)
<1> DEFINE P == {m \in Nat : m > n \/ \E g : Unfolds(g, m, V, base, F)}
<1>1. 0 \in P
  <2> DEFINE g == [s \in SUBSET (1 .. 0) |-> base]
  <2>1. \A s \in SUBSET (1 .. 0) : s = {}
    OBVIOUS
  <2>2. Unfolds(g, 0, V, base, F)
    BY <2>1 DEF Unfolds
  <2> QED BY <2>2
<1>2. ASSUME NEW m \in P PROVE m + 1 \in P
  <2> SUFFICES ASSUME m + 1 <= n PROVE \E h : Unfolds(h, m + 1, V, base, F)
    BY <1>2
  <2>1. m \in Nat /\ m + 1 \in 1 .. n
    BY <1>2
  <2>2. PICK g : Unfolds(g, m, V, base, F)
    BY <2>1, <1>2
  <2> DEFINE h == [s \in SUBSET (1 .. m + 1) |-> IF m + 1 \in s THEN F[<< m + 1, g[s \ {m + 1}] >>]
                                                                ELSE g[s]]
  <2>3. \A s \in SUBSET (1 .. m + 1) :
          /\ m + 1 \in s => s \ {m + 1} \in SUBSET (1 .. m)
          /\ m + 1 \notin s => s \in SUBSET (1 .. m)
    BY <2>1
  <2>4. SUBSET (1 .. m) \subseteq SUBSET (1 .. m + 1) /\ \A s \in SUBSET (1 .. m) : m + 1 \notin s
    BY <2>1
  <2>5. h \in [SUBSET (1 .. m + 1) -> V]
    BY <2>1, <2>2, <2>3 DEF Unfolds
  <2>6. \A s \in SUBSET (1 .. m) : h[s] = g[s]
    BY <2>4
  <2>7. ASSUME NEW s \in SUBSET (1 .. m + 1)
        PROVE  h[s] = IF s = {} THEN base ELSE F[<< Rms!Max(s), h[s \ {Rms!Max(s)}] >>]
    <3>1. CASE m + 1 \in s
      <4>1. Rms!Max(s) = m + 1
        BY <2>1, <3>1, MaxOf
      <4>2. h[s \ {m + 1}] = g[s \ {m + 1}]
        BY <2>3, <2>6, <3>1
      <4>3. h[s] = F[<< m + 1, g[s \ {m + 1}] >>] /\ s # {}
        BY <3>1
      <4> HIDE DEF h
      <4> QED BY <4>1, <4>2, <4>3
    <3>2. CASE m + 1 \notin s
      <4>1. s \in SUBSET (1 .. m) /\ s \ {Rms!Max(s)} \in SUBSET (1 .. m)
        BY <2>3, <3>2
      <4> HIDE DEF h
      <4> QED BY <2>2, <2>6, <4>1 DEF Unfolds
    <3> QED BY <3>1, <3>2
  <2> HIDE DEF h
  <2> QED BY <2>5, <2>7 DEF Unfolds
<1>3. Nat \subseteq P
  <2> HIDE DEF P
  <2>1. P \in SUBSET Nat
    BY DEF P
  <2> QED BY <1>1, <1>2, <2>1, EveryNumber
<1>4. n \in P
  BY <1>3
<1> QED BY <1>4

(* The prefixes that a fold visits. *)
LEMMA Prefixes ==
  ASSUME NEW k \in Nat \ {0}
  PROVE  Rms!Max(1 .. k) = k /\ (1 .. k) \ {k} = 1 .. k - 1 /\ 1 .. k # {}
<1>1. k \in 1 .. k /\ 1 .. k \in SUBSET Nat /\ \A y \in 1 .. k : y <= k
  OBVIOUS
<1>2. Rms!Max(1 .. k) = k
  BY <1>1, MaxOf
<1>3. (1 .. k) \ {k} = 1 .. k - 1
  OBVIOUS
<1> QED BY <1>1, <1>2, <1>3

-----------------------------------------------------------------------------
(* The two folds of the schedulability check, one task at a time: the      *)
(* fraction u_total, and the demand the reference compares with.           *)

TaskRecords == [wcet : Nat, period : Nat \ {0}]

Fractions == [num : Int, den : Nat \ {0}]

(* The body of the loop. *)
Added(t, u) ==
  LET d == Rms!Common(u.den, t.period)
  IN  [num |-> u.num * (t.period \div d) + t.wcet * (u.den \div d),
       den |-> u.den * (t.period \div d)]

LEMMA Divided ==
  ASSUME NEW a \in Nat \ {0}, NEW d \in Nat \ {0}, a % d = 0
  PROVE  a \div d \in Nat \ {0} /\ d * (a \div d) = a
OBVIOUS

LEMMA CommonDivides ==
  ASSUME NEW a \in Nat \ {0}, NEW b \in Nat \ {0}, NEW d, d = Rms!Common(a, b)
  PROVE  /\ d \in Nat \ {0}
         /\ a \div d \in Nat \ {0} /\ d * (a \div d) = a
         /\ b \div d \in Nat \ {0} /\ d * (b \div d) = b
<1> DEFINE divisors == {x \in 1 .. b : a % x = 0 /\ b % x = 0}
<1>1. 1 \in divisors
  OBVIOUS
<1>2. d \in divisors
  <2>1. divisors \in SUBSET (1 .. b) /\ divisors # {} /\ b \in Nat
    BY <1>1
  <2>2. d = Rms!Max(divisors)
    BY DEF Rms!Common
  <2> HIDE DEF divisors
  <2> QED BY <2>1, <2>2, MaxIsIn
<1>3. d \in Nat \ {0} /\ a % d = 0 /\ b % d = 0
  BY <1>2
<1> QED BY <1>3, Divided

LEMMA Folded ==
  ASSUME NEW d \in Nat \ {0}, NEW num \in Int, NEW wcet \in Nat,
         NEW den \in Nat \ {0}, NEW period \in Nat \ {0},
         NEW x \in Nat \ {0}, NEW y \in Nat \ {0}, d * x = den, d * y = period
  PROVE  /\ num * y + wcet * x \in Int /\ den * y \in Nat \ {0}
         /\ d * (num * y + wcet * x) = num * period + wcet * den
         /\ d * (den * y) = den * period
<1>1. /\ d * (num * y + wcet * x) = num * (d * y) + wcet * (d * x)
      /\ d * (den * y) = den * (d * y)
  OBVIOUS
<1>2. num * y \in Int /\ wcet * x \in Int /\ den * y \in Nat /\ den * y > 0
  OBVIOUS
<1> QED BY <1>1, <1>2

(* It adds the fraction of one task, whatever is cancelled. *)
LEMMA AddedIs ==
  ASSUME NEW t \in TaskRecords, NEW u \in Fractions
  PROVE  /\ Added(t, u) \in Fractions
         /\ \E d \in Nat \ {0} :
              /\ d * Added(t, u).num = u.num * t.period + t.wcet * u.den
              /\ d * Added(t, u).den = u.den * t.period
<1> DEFINE d == Rms!Common(u.den, t.period)
           x == u.den \div d
           y == t.period \div d
<1>1. /\ t.wcet \in Nat /\ t.period \in Nat \ {0}
      /\ u.num \in Int /\ u.den \in Nat \ {0}
  BY DEF TaskRecords, Fractions
<1>2. /\ d \in Nat \ {0} /\ x \in Nat \ {0} /\ y \in Nat \ {0}
      /\ d * x = u.den /\ d * y = t.period
  BY <1>1, CommonDivides
<1>3. Added(t, u) = [num |-> u.num * y + t.wcet * x, den |-> u.den * y]
  BY DEF Added
<1> HIDE DEF d, x, y
<1>4. /\ u.num * y + t.wcet * x \in Int /\ u.den * y \in Nat \ {0}
      /\ d * (u.num * y + t.wcet * x) = u.num * t.period + t.wcet * u.den
      /\ d * (u.den * y) = u.den * t.period
  BY <1>1, <1>2, Folded
<1>5. Added(t, u).num = u.num * y + t.wcet * x /\ Added(t, u).den = u.den * y
  BY <1>3
<1>6. Added(t, u) \in Fractions
  BY <1>3, <1>4 DEF Fractions
<1> QED BY <1>2, <1>4, <1>5, <1>6

LEMMA UtilisationUnrolls ==
  ASSUME NEW ts \in Seq(TaskRecords)
  PROVE  \E u : /\ u[0] = [num |-> 0, den |-> 1]
                /\ \A k \in 1 .. Len(ts) : u[k] = Added(ts[k], u[k - 1])
                /\ Rms!Utilisation(ts) = u[Len(ts)]
<1> DEFINE n == Len(ts)
           step(k, u) == Added(ts[k], u)
           zero == [num |-> 0, den |-> 1]
           Body(f) == [s \in SUBSET (1 .. n) |->
                         IF s = {} THEN zero ELSE step(Rms!Max(s), f[s \ {Rms!Max(s)}])]
           it == CHOOSE f : f = Body(f)
           F == [p \in (1 .. n) \X Fractions |-> step(p[1], p[2])]
<1>1. n \in Nat /\ DOMAIN ts = 1 .. n /\ \A k \in 1 .. n : ts[k] \in TaskRecords
  OBVIOUS
<1>2. Rms!Utilisation(ts) = it[1 .. n]
  BY <1>1 DEF Rms!Utilisation, Rms!FoldLeft, Rms!MapThenFoldSet, Added
<1>3. zero \in Fractions
  BY DEF Fractions
<1>4. F \in [(1 .. n) \X Fractions -> Fractions]
  <2>1. ASSUME NEW k \in 1 .. n, NEW u \in Fractions PROVE step(k, u) \in Fractions
    <3>1. ts[k] \in TaskRecords
      BY <1>1
    <3> QED BY <3>1, AddedIs
  <2> HIDE DEF step
  <2> QED BY <2>1
<1> HIDE DEF zero, n, F
<1>5. PICK g : Unfolds(g, n, Fractions, zero, F)
  BY <1>1, <1>3, <1>4, FoldExists
<1>6. g = Body(g)
  <2> HIDE DEF step
  <2>1. ASSUME NEW s \in SUBSET (1 .. n)
        PROVE  g[s] = IF s = {} THEN zero ELSE step(Rms!Max(s), g[s \ {Rms!Max(s)}])
    <3>1. CASE s = {}
      BY <1>5, <3>1 DEF Unfolds
    <3>2. CASE s # {}
      <4>1. g[s] = F[<< Rms!Max(s), g[s \ {Rms!Max(s)}] >>] /\ g[s \ {Rms!Max(s)}] \in Fractions
        BY <1>5, <3>2 DEF Unfolds
      <4>2. Rms!Max(s) \in 1 .. n
        BY <1>1, <3>2, MaxIsIn
      <4> QED BY <3>2, <4>1, <4>2 DEF F
    <3> QED BY <3>1, <3>2
  <2> QED BY <1>5, <2>1 DEF Unfolds
<1>7. it = Body(it)
  <2> HIDE DEF Body
  <2> QED BY <1>6
<1> DEFINE u == [k \in 0 .. n |-> it[1 .. k]]
<1> HIDE DEF it
<1>8. ASSUME NEW k \in 1 .. n PROVE it[1 .. k] = step(k, it[1 .. k - 1])
  <2>1. Rms!Max(1 .. k) = k /\ (1 .. k) \ {k} = 1 .. k - 1 /\ 1 .. k # {}
    <3>1. k \in Nat \ {0}
      BY <1>1
    <3> QED BY <3>1, Prefixes
  <2>2. 1 .. k \in SUBSET (1 .. n)
    BY <1>1
  <2> HIDE DEF step
  <2> QED BY <1>7, <2>1, <2>2
<1>9. it[1 .. 0] = zero
  <2>1. 1 .. 0 = {} /\ {} \in SUBSET (1 .. n)
    OBVIOUS
  <2> HIDE DEF step
  <2> QED BY <1>7, <2>1
<1>10. /\ u[0] = zero /\ u[n] = it[1 .. n]
       /\ \A k \in 1 .. n : u[k] = it[1 .. k] /\ u[k - 1] = it[1 .. k - 1]
  BY <1>1, <1>9
<1>11. \A k \in 1 .. n : u[k] = Added(ts[k], u[k - 1])
  BY <1>8, <1>10
<1> HIDE DEF u
<1> QED BY <1>2, <1>10, <1>11 DEF n, zero

(* One more task in the sum of Demand. *)
Asked(ts, i, span, j, sum) ==
  IF j # i /\ ts[j].period <= ts[i].period
  THEN sum + Rms!Releases(ts[j], span) * ts[j].wcet
  ELSE sum

LEMMA DemandUnrolls ==
  ASSUME NEW ts \in Seq(TaskRecords), NEW i \in 1 .. Len(ts), NEW span \in Nat
  PROVE  \E d : /\ d[0] = ts[i].wcet
                /\ \A j \in 1 .. Len(ts) : d[j] = Asked(ts, i, span, j, d[j - 1])
                /\ Rms!Demand(ts, i, span) = d[Len(ts)]
<1> DEFINE n == Len(ts)
           idx == [j \in 1 .. n |-> j]
           step(k, u) == Asked(ts, i, span, idx[k], u)
           zero == ts[i].wcet
           Body(f) == [s \in SUBSET (1 .. n) |->
                         IF s = {} THEN zero ELSE step(Rms!Max(s), f[s \ {Rms!Max(s)}])]
           it == CHOOSE f : f = Body(f)
           F == [p \in (1 .. n) \X Int |-> step(p[1], p[2])]
<1>1. n \in Nat /\ DOMAIN idx = 1 .. n /\ \A k \in 1 .. n : ts[k] \in TaskRecords /\ idx[k] = k
  OBVIOUS
<1>2. Rms!Demand(ts, i, span) = it[1 .. n]
  BY <1>1 DEF Rms!Demand, Rms!FoldLeft, Rms!MapThenFoldSet, Asked
<1>3. zero \in Int
  BY <1>1 DEF TaskRecords
<1>4. F \in [(1 .. n) \X Int -> Int]
  <2>1. ASSUME NEW k \in 1 .. n, NEW u \in Int PROVE step(k, u) \in Int
    <3>1. /\ idx[k] = k
          /\ ts[k].wcet \in Int /\ ts[k].period \in Nat \ {0}
      BY <1>1 DEF TaskRecords
    <3>2. Rms!Releases(ts[k], span) \in Int
      BY <3>1 DEF Rms!Releases
    <3>3. Rms!Releases(ts[k], span) * ts[k].wcet \in Int
      BY <3>1, <3>2
    <3> QED BY <3>1, <3>3 DEF Asked
  <2> HIDE DEF step
  <2> QED BY <2>1
<1> HIDE DEF zero, n, F, idx
<1>5. PICK g : Unfolds(g, n, Int, zero, F)
  BY <1>1, <1>3, <1>4, FoldExists
<1>6. g = Body(g)
  <2> HIDE DEF step
  <2>1. ASSUME NEW s \in SUBSET (1 .. n)
        PROVE  g[s] = IF s = {} THEN zero ELSE step(Rms!Max(s), g[s \ {Rms!Max(s)}])
    <3>1. CASE s = {}
      BY <1>5, <3>1 DEF Unfolds
    <3>2. CASE s # {}
      <4>1. g[s] = F[<< Rms!Max(s), g[s \ {Rms!Max(s)}] >>] /\ g[s \ {Rms!Max(s)}] \in Int
        BY <1>5, <3>2 DEF Unfolds
      <4>2. Rms!Max(s) \in 1 .. n
        BY <1>1, <3>2, MaxIsIn
      <4> QED BY <3>2, <4>1, <4>2 DEF F
    <3> QED BY <3>1, <3>2
  <2> QED BY <1>5, <2>1 DEF Unfolds
<1>7. it = Body(it)
  <2> HIDE DEF Body
  <2> QED BY <1>6
<1> DEFINE d == [k \in 0 .. n |-> it[1 .. k]]
<1> HIDE DEF it
<1>8. ASSUME NEW k \in 1 .. n PROVE it[1 .. k] = step(k, it[1 .. k - 1])
  <2>1. Rms!Max(1 .. k) = k /\ (1 .. k) \ {k} = 1 .. k - 1 /\ 1 .. k # {}
    <3>1. k \in Nat \ {0}
      BY <1>1
    <3> QED BY <3>1, Prefixes
  <2>2. 1 .. k \in SUBSET (1 .. n)
    BY <1>1
  <2> HIDE DEF step
  <2> QED BY <1>7, <2>1, <2>2
<1>9. it[1 .. 0] = zero
  <2>1. 1 .. 0 = {} /\ {} \in SUBSET (1 .. n)
    OBVIOUS
  <2> HIDE DEF step
  <2> QED BY <1>7, <2>1
<1>10. /\ d[0] = zero /\ d[n] = it[1 .. n]
       /\ \A k \in 1 .. n : d[k] = it[1 .. k] /\ d[k - 1] = it[1 .. k - 1]
  BY <1>1, <1>9
<1>11. \A k \in 1 .. n : d[k] = Asked(ts, i, span, k, d[k - 1])
  BY <1>1, <1>8, <1>10
<1> HIDE DEF d
<1> QED BY <1>2, <1>10, <1>11 DEF n, zero

-----------------------------------------------------------------------------
(* Three tasks, the arithmetic.  Let a <= b <= c < 2 * a be spans, and let *)
(* x and y be what two tasks ask for with each release, and d what is      *)
(* asked for besides: with one release of each by a, a second one of the   *)
(* first by b, and of both by c.  If all three spans are too short, then   *)
(*                                                                         *)
(*     x / a + y / b + d / c > 2 * a / c + b / a + c / b - 3,              *)
(*                                                                         *)
(* and the sum on the right is at least three times the cube root of 2,    *)
(* less 3: more than 0.779, the limit the code has for three tasks.  All   *)
(* of it is shown over the integers, by identities with squares.           *)

LEMMA Cube ==
  ASSUME NEW a \in Int, NEW b \in Int
  PROVE  27000 * (8000000 * a * a * a - b * (3779 * a - 1000 * b) * (3779 * a - 1000 * b))
           = 130807444 * a * a * a
             + (3000 * b - 3779 * a) * (3000 * b - 3779 * a) * (15116 * a - 3000 * b)
OBVIOUS

LEMMA Square ==
  ASSUME NEW a \in Int, NEW b \in Int, NEW c \in Int
  PROVE  4000 * a * (1000 * (2 * a * a * b + b * b * c + a * c * c) - 3779 * a * b * c)
           = (2000 * a * c + 1000 * b * b - 3779 * a * b)
               * (2000 * a * c + 1000 * b * b - 3779 * a * b)
             + b * (8000000 * a * a * a - b * (3779 * a - 1000 * b) * (3779 * a - 1000 * b))
OBVIOUS

LEMMA Weights ==
  ASSUME NEW a \in Int, NEW b \in Int, NEW c \in Int, NEW x \in Int, NEW y \in Int, NEW d \in Int
  PROVE  x * b * c + y * a * c + d * a * b
           = b * (2 * a - c) * (d + x + y) + c * (b - a) * (d + 2 * x + y)
             + a * (c - b) * (d + 2 * x + 2 * y)
OBVIOUS

LEMMA Weights2 ==
  ASSUME NEW a \in Int, NEW b \in Int, NEW c \in Int
  PROVE  1000 * (b * (2 * a - c) * a + c * (b - a) * b + a * (c - b) * c) - 779 * a * b * c
           = 1000 * (2 * a * a * b + b * b * c + a * c * c) - 3779 * a * b * c
OBVIOUS

LEMMA SquareNonneg == ASSUME NEW x \in Int PROVE x * x >= 0
OBVIOUS

LEMMA ProductNonneg ==
  ASSUME NEW x \in Int, NEW y \in Int, x >= 0, y >= 0
  PROVE  x * y >= 0
OBVIOUS

LEMMA Signs ==
  ASSUME NEW x \in Int, NEW y \in Int, x > 0, x * y >= 0
  PROVE  y >= 0
OBVIOUS

LEMMA Monotone ==
  ASSUME NEW x \in Int, NEW y \in Int, NEW z \in Int, x >= 0, y >= z
  PROVE  x * y >= x * z
OBVIOUS

LEMMA StrictMonotone ==
  ASSUME NEW x \in Int, NEW y \in Int, NEW z \in Int, x > 0, y > z
  PROVE  x * y > x * z
OBVIOUS

(* 3779 / 3 is a little less than the cube root of 2, in thousandths. *)
LEMMA CubeRoot ==
  ASSUME NEW a \in Nat \ {0}, NEW b \in Nat \ {0}, NEW c \in Nat, b < 2 * a
  PROVE  1000 * (2 * a * a * b + b * b * c + a * c * c) - 3779 * a * b * c >= 0
<1> DEFINE e == 3000 * b - 3779 * a
           f == 15116 * a - 3000 * b
           r == 8000000 * a * a * a - b * (3779 * a - 1000 * b) * (3779 * a - 1000 * b)
           q == 1000 * (2 * a * a * b + b * b * c + a * c * c) - 3779 * a * b * c
           s == 2000 * a * c + 1000 * b * b - 3779 * a * b
<1>1. e \in Int /\ f \in Int /\ r \in Int /\ q \in Int /\ s \in Int
  OBVIOUS
<1>2. 27000 * r = 130807444 * a * a * a + e * e * f
  BY Cube
<1>3. 4000 * a * q = s * s + b * r
  BY Square
<1>4. f >= 0
  OBVIOUS
<1>5. a * a * a >= 0 /\ a * a * a \in Int
  <2>1. a * a >= 0 /\ a * a \in Int
    BY SquareNonneg
  <2> QED BY <2>1, ProductNonneg
<1>6. 130807444 * a * a * a >= 0 /\ 130807444 * a * a * a \in Int
  <2>1. 130807444 * a * a * a = 130807444 * (a * a * a)
    OBVIOUS
  <2> DEFINE z == a * a * a
  <2>2. z >= 0 /\ z \in Int /\ 130807444 * a * a * a = 130807444 * z
    BY <1>5, <2>1
  <2> HIDE DEF z
  <2> QED BY <2>2
<1> HIDE DEF e, f, r, q, s
<1>7. e * e >= 0 /\ e * e \in Int
  BY <1>1, SquareNonneg
<1>8. e * e * f >= 0 /\ e * e * f \in Int
  BY <1>1, <1>4, <1>7, ProductNonneg
<1>9. r >= 0
  <2> DEFINE x == 130807444 * a * a * a
             y == e * e * f
  <2>1. 27000 * r = x + y /\ x >= 0 /\ y >= 0 /\ x \in Int /\ y \in Int
    BY <1>2, <1>6, <1>8
  <2> HIDE DEF x, y
  <2> QED BY <1>1, <2>1
<1>10. b * r >= 0 /\ b * r \in Int
  BY <1>1, <1>9, ProductNonneg
<1>11. s * s >= 0 /\ s * s \in Int
  BY <1>1, SquareNonneg
<1>12. 4000 * a * q >= 0
  <2> DEFINE x == s * s
             y == b * r
  <2>1. 4000 * a * q = x + y /\ x >= 0 /\ y >= 0 /\ x \in Int /\ y \in Int
    BY <1>3, <1>10, <1>11
  <2> HIDE DEF x, y
  <2> QED BY <2>1
<1>13. 4000 * a > 0 /\ 4000 * a \in Int
  OBVIOUS
<1>14. q >= 0
  BY <1>1, <1>12, <1>13, Signs
<1> QED BY <1>14 DEF q

(* Three tasks that miss a deadline in spite of all three spans ask for    *)
(* more than 779 thousandths.                                              *)
ThreeLate(a, b, c, x, y, d) ==
  /\ a \in Nat \ {0} /\ b \in Nat /\ c \in Nat /\ x \in Nat /\ y \in Nat /\ d \in Nat
  /\ a <= b /\ b <= c /\ c < 2 * a
  /\ d + x + y > a /\ d + 2 * x + y > b /\ d + 2 * x + 2 * y > c

LEMMA ThreeSpans ==
  ASSUME NEW a, NEW b, NEW c, NEW x, NEW y, NEW d, ThreeLate(a, b, c, x, y, d)
  PROVE  1000 * (x * b * c + y * a * c + d * a * b) > 779 * a * b * c
<1>0. /\ a \in Nat \ {0} /\ b \in Nat /\ c \in Nat /\ x \in Nat /\ y \in Nat /\ d \in Nat
      /\ a <= b /\ b <= c /\ c < 2 * a
      /\ d + x + y > a /\ d + 2 * x + y > b /\ d + 2 * x + 2 * y > c
  BY DEF ThreeLate
<1> DEFINE u == b * (2 * a - c)
           v == c * (b - a)
           w == a * (c - b)
           xx == d + x + y
           yy == d + 2 * x + y
           zz == d + 2 * x + 2 * y
           total == x * b * c + y * a * c + d * a * b
           abc == 779 * a * b * c
           q == 1000 * (2 * a * a * b + b * b * c + a * c * c) - 3779 * a * b * c
<1>1. /\ xx \in Int /\ yy \in Int /\ zz \in Int /\ total \in Int /\ abc \in Int
      /\ u \in Int /\ v \in Int /\ w \in Int
  BY <1>0
<1>2. u > 0 /\ v >= 0 /\ w >= 0
  <2>1. 2 * a - c > 0 /\ b > 0 /\ c >= 0 /\ b - a >= 0 /\ c - b >= 0
    BY <1>0
  <2>2. b * (2 * a - c) > b * 0
    BY <1>0, <2>1, StrictMonotone
  <2>3. v >= 0 /\ w >= 0
    BY <1>0, <2>1, ProductNonneg
  <2>4. b * 0 = 0
    BY <1>0
  <2> QED BY <2>2, <2>3, <2>4
<1>3. total = u * xx + v * yy + w * zz
  BY <1>0, Weights
<1>4. 1000 * (u * a + v * b + w * c) - abc = q
  BY <1>0, Weights2
<1>5. q >= 0
  BY <1>0, CubeRoot
<1>6. xx > a /\ yy >= b /\ zz >= c
  BY <1>0
<1> HIDE DEF u, v, w, xx, yy, zz, total, abc, q
<1>7. u * xx > u * a /\ v * yy >= v * b /\ w * zz >= w * c
  BY <1>0, <1>1, <1>2, <1>6, Monotone, StrictMonotone
<1>8. /\ u * xx \in Int /\ u * a \in Int /\ v * yy \in Int /\ v * b \in Int
      /\ w * zz \in Int /\ w * c \in Int
  BY <1>0, <1>1
<1>9. 1000 * total > abc
  <2>1. \A r, s, t, rr, ss, tt \in Int :
          rr > r /\ ss >= s /\ tt >= t => 1000 * (rr + ss + tt) > 1000 * (r + s + t)
    OBVIOUS
  <2>2. 1000 * total > 1000 * (u * a + v * b + w * c)
    BY <1>3, <1>7, <1>8, <2>1
  <2> DEFINE m == 1000 * (u * a + v * b + w * c)
             t == 1000 * total
  <2>3. m \in Int /\ t \in Int /\ t > m /\ m - abc >= 0
    BY <1>1, <1>4, <1>5, <1>8, <2>2
  <2> HIDE DEF m, t
  <2>4. t > abc
    BY <1>1, <2>3
  <2> QED BY <2>4 DEF t
<1> QED BY <1>9 DEF total, abc

(* And two more than 828 thousandths. *)
LEMMA TwoSpans ==
  ASSUME NEW a \in Nat \ {0}, NEW c \in Nat, a <= c, c < 2 * a,
         NEW x \in Nat, NEW d \in Nat, d + x > a, d + 2 * x > c
  PROVE  1000 * (x * c + d * a) > 828 * a * c
<1> DEFINE u == 2 * a - c
           v == c - a
           xx == d + x
           yy == d + 2 * x
<1>1. /\ x * c + d * a = u * xx + v * yy
      /\ 1000 * (1000 * (u * a + v * c) - 828 * a * c)
           = (1000 * c - 1414 * a) * (1000 * c - 1414 * a) + 604 * (a * a)
  OBVIOUS
<1>2. u > 0 /\ v >= 0 /\ xx > a /\ yy >= c /\ {u, v, xx, yy} \subseteq Int
  OBVIOUS
<1> DEFINE s == 1000 * c - 1414 * a
           total == x * c + d * a
           ac == 828 * a * c
<1>3. s \in Int /\ s * s >= 0 /\ s * s \in Int /\ a * a >= 0 /\ a * a \in Int
  BY SquareNonneg
<1>4. total \in Int /\ ac \in Int
  OBVIOUS
<1>5. total = u * xx + v * yy /\ 1000 * (1000 * (u * a + v * c) - ac) = s * s + 604 * (a * a)
  BY <1>1
<1> HIDE DEF u, v, xx, yy, s, total, ac
<1>6. u * xx > u * a /\ v * yy >= v * c
  BY <1>2, Monotone, StrictMonotone
<1>7. u * xx \in Int /\ u * a \in Int /\ v * yy \in Int /\ v * c \in Int
  BY <1>2
<1>8. 1000 * total > ac
  <2> DEFINE p == u * xx
             q == u * a
             r == v * yy
             t == v * c
             m == s * s
             n == a * a
  <2>1. /\ p > q /\ r >= t /\ m >= 0 /\ n >= 0 /\ {p, q, r, t, m, n} \subseteq Int
        /\ total = p + r /\ 1000 * (1000 * (q + t) - ac) = m + 604 * n
    BY <1>3, <1>5, <1>6, <1>7
  <2> HIDE DEF p, q, r, t, m, n
  <2> QED BY <1>4, <2>1
<1> QED BY <1>8 DEF total, ac

-----------------------------------------------------------------------------
(* Three tasks: the spans.  A task with period T that misses its deadline  *)
(* is not done at a and b, the last releases of the two others before T,   *)
(* nor at T.                                                               *)
(* By a the first of them has been released F1 times, where a = F1 * T1,   *)
(* and by b the second F2 times.  If all but one release of each are taken *)
(* for work of the late task, once in T, then the utilisation is no larger *)
(* and what is left is the case above.                                     *)

LEMMA Cancel ==
  ASSUME NEW x \in Int, NEW y \in Int, NEW z \in Int, x > 0, x * y < x * z
  PROVE  y < z
OBVIOUS

LEMMA Quotient ==
  ASSUME NEW x \in Nat, NEW t \in Nat \ {0}
  PROVE  /\ x \div t \in Nat
         /\ t * (x \div t) <= x /\ x < t * (x \div t) + t
OBVIOUS

(* Releases of a task with period t in a span. *)
Rel(span, t) == (span + t - 1) \div t

(* The last release before the end of a longer period. *)
LastReleaseAt(F, t, T) ==
  /\ F \in Nat \ {0} /\ F * t \in 1 .. T /\ T < 2 * (F * t)
  /\ \A s \in 1 .. T : /\ Rel(s, t) \in Nat /\ Rel(s, t) <= F + 1
                       /\ s <= F * t => Rel(s, t) <= F

LEMMA LastRelease ==
  ASSUME NEW T \in Nat \ {0}, NEW t \in Nat \ {0}, t <= T
  PROVE  \E F : LastReleaseAt(F, t, T)
<1> DEFINE F == T \div t
<1>1. F \in Nat /\ t * F <= T /\ T < t * F + t
  BY Quotient
<1> HIDE DEF F
<1>2. F # 0
  <2> SUFFICES ASSUME F = 0 PROVE FALSE
    OBVIOUS
  <2>1. t * F = 0
    OBVIOUS
  <2> QED BY <1>1, <2>1
<1>3. t * F = F * t /\ F * t \in Int
  BY <1>1
<1>4. t * F >= t * 1
  <2>1. F >= 1
    BY <1>1, <1>2
  <2> QED BY <1>1, <2>1, Monotone
<1> DEFINE a == t * F
<1>5. a \in Int /\ a = F * t /\ a >= t /\ a <= T /\ T < a + t
  BY <1>1, <1>3, <1>4
<1>6. ASSUME NEW s \in 1 .. T
      PROVE  Rel(s, t) \in Nat /\ Rel(s, t) <= F + 1 /\ (s <= a => Rel(s, t) <= F)
  <2> DEFINE q == Rel(s, t)
  <2>1. s + t - 1 \in Nat
    OBVIOUS
  <2>2. q \in Nat /\ t * q <= s + t - 1
    BY <2>1, Quotient DEF Rel
  <2>3. t * (F + 1) = a + t /\ t * (F + 2) = a + 2 * t
    BY <1>1
  <2> HIDE DEF q, a
  <2>4. t * q \in Int
    BY <2>2
  <2>5. t * q < t * (F + 2)
    BY <1>5, <2>2, <2>3, <2>4
  <2>6. q < F + 2
    BY <1>1, <2>2, <2>5, Cancel
  <2>7. ASSUME s <= a PROVE q < F + 1
    <3>1. t * q < t * (F + 1)
      BY <1>5, <2>2, <2>3, <2>4, <2>7
    <3> QED BY <1>1, <2>2, <3>1, Cancel
  <2>8. q <= F + 1 /\ (s <= a => q <= F)
    BY <1>1, <2>2, <2>6, <2>7
  <2> QED BY <2>2, <2>8 DEF q
<1> HIDE DEF a
<1>7. F * t \in 1 .. T /\ T < 2 * (F * t) /\ F \in Nat \ {0}
  BY <1>1, <1>2, <1>5
<1> QED BY <1>5, <1>6, <1>7 DEF LastReleaseAt

LEMMA Scaled ==
  ASSUME NEW F1 \in Int, NEW F2 \in Int, NEW T1 \in Int, NEW T2 \in Int, NEW T \in Int,
         NEW C \in Int, NEW C1 \in Int, NEW C2 \in Int
  PROVE  /\ F1 * F2 * (C1 * T2 * T + C2 * T1 * T + C * T1 * T2)
              = F1 * C1 * (F2 * T2) * T + F2 * C2 * (F1 * T1) * T + C * (F1 * T1) * (F2 * T2)
         /\ F1 * F2 * (T1 * T2 * T) = (F1 * T1) * (F2 * T2) * T
OBVIOUS

LEMMA Moved ==
  ASSUME NEW F1 \in Int, NEW F2 \in Int, NEW a \in Int, NEW b \in Int, NEW T \in Int,
         NEW C \in Int, NEW C1 \in Int, NEW C2 \in Int
  PROVE  F1 * C1 * b * T + F2 * C2 * a * T + C * a * b
           = C1 * b * T + C2 * a * T + (C + (F1 - 1) * C1 + (F2 - 1) * C2) * a * b
             + (F1 - 1) * C1 * b * (T - a) + (F2 - 1) * C2 * a * (T - b)
OBVIOUS

LEMMA FourFactors ==
  ASSUME NEW w \in Int, NEW x \in Int, NEW y \in Int, NEW z \in Int,
         w >= 0, x >= 0, y >= 0, z >= 0
  PROVE  w * x * y * z >= 0 /\ w * x * y * z \in Int
<1>1. w * x >= 0 /\ w * x \in Int
  BY ProductNonneg
<1>2. w * x * y >= 0 /\ w * x * y \in Int
  BY <1>1, ProductNonneg
<1> QED BY <1>2, ProductNonneg

(* What two others ask for when the numbers of their releases are bounded. *)
LEMMA AskedAtMost ==
  ASSUME NEW C \in Nat, NEW C1 \in Nat, NEW C2 \in Nat,
         NEW r1 \in Int, NEW r2 \in Int, NEW m1 \in Int, NEW m2 \in Int, r1 <= m1, r2 <= m2,
         NEW s \in Int, C + r1 * C1 + r2 * C2 > s
  PROVE  C + m1 * C1 + m2 * C2 > s
<1>1. C1 * m1 >= C1 * r1 /\ C2 * m2 >= C2 * r2
  BY Monotone
<1> DEFINE p == C1 * m1
           q == C1 * r1
           t == C2 * m2
           u == C2 * r2
<1>2. p \in Int /\ q \in Int /\ t \in Int /\ u \in Int
  OBVIOUS
<1>3. p >= q /\ t >= u /\ C + q + u > s /\ (C + p + t > s => C + m1 * C1 + m2 * C2 > s)
  BY <1>1
<1> HIDE DEF p, q, t, u
<1>4. C + p + t > s
  BY <1>2, <1>3
<1> QED BY <1>3, <1>4

(* Three tasks that miss a deadline ask for more than 779 thousandths.     *)
ThreeWithin(C, T, C1, T1, C2, T2) ==
  /\ C \in Nat /\ C1 \in Nat /\ C2 \in Nat
  /\ T \in Nat \ {0} /\ T1 \in Nat \ {0} /\ T2 \in Nat \ {0}
  /\ 1000 * (C1 * T2 * T + C2 * T1 * T + C * T1 * T2) <= 779 * (T1 * T2 * T)

LEMMA ThreeMiss ==
  ASSUME NEW C \in Nat, NEW T \in Nat \ {0}, NEW C1 \in Nat, NEW T1 \in Nat \ {0},
         NEW C2 \in Nat, NEW T2 \in Nat \ {0}, NEW F1 \in Nat \ {0}, NEW F2 \in Nat \ {0},
         ThreeWithin(C, T, C1, T1, C2, T2),
         NEW a \in Nat \ {0}, NEW b \in Nat \ {0}, a = F1 * T1, b = F2 * T2,
         a <= b, b <= T, T < 2 * a
  PROVE  ~ /\ C + F1 * C1 + F2 * C2 > a
           /\ C + (F1 + 1) * C1 + F2 * C2 > b
           /\ C + (F1 + 1) * C1 + (F2 + 1) * C2 > T
<1> SUFFICES ASSUME C + F1 * C1 + F2 * C2 > a,
                    C + (F1 + 1) * C1 + F2 * C2 > b,
                    C + (F1 + 1) * C1 + (F2 + 1) * C2 > T
             PROVE  FALSE
  OBVIOUS
<1> DEFINE d == C + (F1 - 1) * C1 + (F2 - 1) * C2
<1>4. /\ d + C1 + C2 = C + F1 * C1 + F2 * C2
      /\ d + 2 * C1 + C2 = C + (F1 + 1) * C1 + F2 * C2
      /\ d + 2 * C1 + 2 * C2 = C + (F1 + 1) * C1 + (F2 + 1) * C2
  OBVIOUS
<1>5. d \in Nat
  <2>1. F1 - 1 \in Nat /\ F2 - 1 \in Nat
    OBVIOUS
  <2>2. (F1 - 1) * C1 >= 0 /\ (F2 - 1) * C2 >= 0
    BY <2>1, ProductNonneg
  <2>3. (F1 - 1) * C1 \in Int /\ (F2 - 1) * C2 \in Int
    OBVIOUS
  <2> QED BY <2>2, <2>3
<1> HIDE DEF d
<1>6. a \in Nat \ {0} /\ b \in Nat /\ T \in Nat /\ b <= T
  OBVIOUS
<1>7. d + C1 + C2 > a /\ d + 2 * C1 + C2 > b /\ d + 2 * C1 + 2 * C2 > T
  BY <1>4
<1>8. 1000 * (C1 * b * T + C2 * a * T + d * a * b) > 779 * a * b * T
  <2>1. ThreeLate(a, b, T, C1, C2, d)
    BY <1>5, <1>6, <1>7 DEF ThreeLate
  <2> QED BY <2>1, ThreeSpans
<1> DEFINE num == C1 * T2 * T + C2 * T1 * T + C * T1 * T2
           den == T1 * T2 * T
           up  == F1 * C1 * b * T + F2 * C2 * a * T + C * a * b
           lo  == C1 * b * T + C2 * a * T + d * a * b
           x   == (F1 - 1) * C1 * b * (T - a)
           y   == (F2 - 1) * C2 * a * (T - b)
           abT == a * b * T
<1>9. F1 * F2 * num = up /\ F1 * F2 * den = abT
  BY Scaled
<1>10. up = lo + x + y
  BY <1>6, Moved DEF d
<1>11. x >= 0 /\ y >= 0 /\ x \in Int /\ y \in Int
  <2>1. F1 - 1 >= 0 /\ F2 - 1 >= 0 /\ T - a >= 0 /\ T - b >= 0 /\ a >= 0 /\ b >= 0
    OBVIOUS
  <2> QED BY <1>6, <2>1, FourFactors
<1>12. {num, den, up, lo, abT, F1 * F2} \subseteq Int /\ F1 * F2 > 0
  <2>1. F1 * F2 > F1 * 0
    BY StrictMonotone
  <2>2. F1 * 0 = 0 /\ F1 * F2 \in Int
    OBVIOUS
  <2>3. num \in Int /\ den \in Int
    OBVIOUS
  <2>4. up \in Int /\ abT \in Int
    BY <1>6
  <2>5. lo \in Int
    BY <1>5, <1>6
  <2> QED BY <2>1, <2>2, <2>3, <2>4, <2>5
<1>13. 1000 * lo > 779 * abT /\ 1000 * num <= 779 * den
  <2>1. 779 * a * b * T = 779 * (a * b * T)
    BY <1>6
  <2>2. 1000 * num <= 779 * den
    BY DEF ThreeWithin
  <2> QED BY <1>8, <2>1, <2>2
<1> DEFINE k == F1 * F2
<1> HIDE DEF num, den, up, lo, x, y, abT, k
<1>14. k \in Int /\ k > 0 /\ k * num = up /\ k * den = abT
       /\ num \in Int /\ den \in Int /\ up \in Int /\ lo \in Int /\ abT \in Int
  BY <1>9, <1>12 DEF k
<1>15. k * (779 * den) >= k * (1000 * num)
  <2>1. 779 * den \in Int /\ 1000 * num \in Int /\ k >= 0
    BY <1>14
  <2> QED BY <1>13, <1>14, <2>1, Monotone
<1>16. k * (779 * den) = 779 * (k * den) /\ k * (1000 * num) = 1000 * (k * num)
  BY <1>14
<1>17. 779 * abT >= 1000 * up
  BY <1>14, <1>15, <1>16
<1> QED BY <1>10, <1>11, <1>13, <1>14, <1>17

LEMMA ThreeFitOrdered ==
  ASSUME NEW C, NEW T, NEW C1, NEW T1, NEW C2, NEW T2, NEW F1, NEW F2,
         ThreeWithin(C, T, C1, T1, C2, T2),
         LastReleaseAt(F1, T1, T), LastReleaseAt(F2, T2, T), F1 * T1 <= F2 * T2
  PROVE  \E s \in 1 .. T : C + Rel(s, T1) * C1 + Rel(s, T2) * C2 <= s
<1> SUFFICES ASSUME \A s \in 1 .. T : ~(C + Rel(s, T1) * C1 + Rel(s, T2) * C2 <= s)
             PROVE  FALSE
  OBVIOUS
<1> DEFINE a == F1 * T1
           b == F2 * T2
<1>0. /\ C \in Nat /\ C1 \in Nat /\ C2 \in Nat
      /\ T \in Nat \ {0} /\ T1 \in Nat \ {0} /\ T2 \in Nat \ {0}
      /\ F1 \in Nat \ {0} /\ F2 \in Nat \ {0}
  BY DEF ThreeWithin, LastReleaseAt
<1>1. a \in 1 .. T /\ b \in 1 .. T /\ T \in 1 .. T /\ a <= b /\ T < 2 * a
  BY <1>0 DEF LastReleaseAt
<1>2. /\ Rel(a, T1) <= F1 /\ Rel(a, T2) <= F2
      /\ Rel(b, T1) <= F1 + 1 /\ Rel(b, T2) <= F2
      /\ Rel(T, T1) <= F1 + 1 /\ Rel(T, T2) <= F2 + 1
  <2> HIDE DEF a, b
  <2>1. \A s \in 1 .. T : /\ Rel(s, T1) <= F1 + 1 /\ Rel(s, T2) <= F2 + 1
                          /\ s <= a => Rel(s, T1) <= F1
                          /\ s <= b => Rel(s, T2) <= F2
    BY DEF LastReleaseAt, a, b
  <2> QED BY <1>0, <1>1, <2>1
<1>3. ASSUME NEW s \in 1 .. T, NEW m1 \in Int, NEW m2 \in Int,
             Rel(s, T1) <= m1, Rel(s, T2) <= m2
      PROVE  C + m1 * C1 + m2 * C2 > s
  <2> DEFINE r1 == Rel(s, T1)
             r2 == Rel(s, T2)
  <2>1. /\ r1 \in Int /\ r2 \in Int /\ s \in Int /\ ~(C + r1 * C1 + r2 * C2 <= s)
        /\ r1 <= m1 /\ r2 <= m2
    BY <1>0, <1>3 DEF LastReleaseAt
  <2> HIDE DEF r1, r2
  <2>2. C + r1 * C1 + r2 * C2 > s
    <3> DEFINE z == C + r1 * C1 + r2 * C2
    <3>1. z \in Int /\ ~(z <= s)
      BY <1>0, <2>1
    <3> HIDE DEF z
    <3>2. z > s
      BY <2>1, <3>1
    <3> QED BY <3>2 DEF z
  <2> QED BY <1>0, <2>1, <2>2, AskedAtMost
<1> HIDE DEF a, b
<1>4. F1 \in Int /\ F2 \in Int /\ F1 + 1 \in Int /\ F2 + 1 \in Int
  BY <1>0
<1>5. C + F1 * C1 + F2 * C2 > a
  BY <1>1, <1>2, <1>3, <1>4
<1>6. C + (F1 + 1) * C1 + F2 * C2 > b
  BY <1>1, <1>2, <1>3, <1>4
<1>7. C + (F1 + 1) * C1 + (F2 + 1) * C2 > T
  BY <1>1, <1>2, <1>3, <1>4
<1>8. /\ a \in Nat \ {0} /\ b \in Nat \ {0} /\ a = F1 * T1 /\ b = F2 * T2
      /\ a <= b /\ b <= T /\ T < 2 * a
  BY <1>0, <1>1 DEF a, b
<1>9. ~ /\ C + F1 * C1 + F2 * C2 > a
        /\ C + (F1 + 1) * C1 + F2 * C2 > b
        /\ C + (F1 + 1) * C1 + (F2 + 1) * C2 > T
  BY <1>0, <1>8, ThreeMiss
<1> QED BY <1>5, <1>6, <1>7, <1>9

LEMMA ThreeFit ==
  ASSUME NEW C, NEW T, NEW C1, NEW T1, NEW C2, NEW T2,
         ThreeWithin(C, T, C1, T1, C2, T2), T1 <= T, T2 <= T
  PROVE  \E s \in 1 .. T : C + Rel(s, T1) * C1 + Rel(s, T2) * C2 <= s
<1>0. /\ C \in Nat /\ C1 \in Nat /\ C2 \in Nat
      /\ T \in Nat \ {0} /\ T1 \in Nat \ {0} /\ T2 \in Nat \ {0}
  BY DEF ThreeWithin
<1>1. PICK F1 : LastReleaseAt(F1, T1, T)
  BY <1>0, LastRelease
<1>2. PICK F2 : LastReleaseAt(F2, T2, T)
  BY <1>0, LastRelease
<1>3. CASE F1 * T1 <= F2 * T2
  BY <1>1, <1>2, <1>3, ThreeFitOrdered
<1>4. CASE F2 * T2 <= F1 * T1
  <2>1. /\ C2 * T1 * T + C1 * T2 * T + C * T2 * T1 = C1 * T2 * T + C2 * T1 * T + C * T1 * T2
        /\ T2 * T1 * T = T1 * T2 * T
    BY <1>0
  <2>2. ThreeWithin(C, T, C2, T2, C1, T1)
    BY <2>1 DEF ThreeWithin
  <2>3. PICK s \in 1 .. T : C + Rel(s, T2) * C2 + Rel(s, T1) * C1 <= s
    BY <1>1, <1>2, <1>4, <2>2, ThreeFitOrdered
  <2>4. Rel(s, T1) \in Nat /\ Rel(s, T2) \in Nat
    BY <1>1, <1>2 DEF LastReleaseAt
  <2> DEFINE r1 == Rel(s, T1)
             r2 == Rel(s, T2)
  <2>5. r1 \in Nat /\ r2 \in Nat /\ C + r2 * C2 + r1 * C1 <= s
    BY <2>3, <2>4
  <2> HIDE DEF r1, r2
  <2>6. C + r1 * C1 + r2 * C2 <= s
    BY <1>0, <2>5
  <2> QED BY <2>6 DEF r1, r2
<1>5. F1 * T1 <= F2 * T2 \/ F2 * T2 <= F1 * T1
  BY <1>0, <1>1, <1>2 DEF LastReleaseAt
<1> QED BY <1>3, <1>4, <1>5

-----------------------------------------------------------------------------
(* Two tasks, in the same way with one span less, and then the tasks in    *)
(* any order: those of a longer period only drop out.                      *)

TwoWithin(C, T, C1, T1) ==
  /\ C \in Nat /\ C1 \in Nat /\ T \in Nat \ {0} /\ T1 \in Nat \ {0}
  /\ 1000 * (C1 * T + C * T1) <= 828 * (T1 * T)

LEMMA TwoMiss ==
  ASSUME NEW C \in Nat, NEW T \in Nat \ {0}, NEW C1 \in Nat, NEW T1 \in Nat \ {0},
         NEW F \in Nat \ {0}, TwoWithin(C, T, C1, T1),
         NEW a \in Nat \ {0}, a = F * T1, a <= T, T < 2 * a
  PROVE  ~ (C + F * C1 > a /\ C + (F + 1) * C1 > T)
<1> SUFFICES ASSUME C + F * C1 > a, C + (F + 1) * C1 > T
             PROVE  FALSE
  OBVIOUS
<1> DEFINE d == C + (F - 1) * C1
<1>1. d + C1 = C + F * C1 /\ d + 2 * C1 = C + (F + 1) * C1
  OBVIOUS
<1>2. d \in Nat
  <2>1. (F - 1) * C1 >= 0
    <3>1. F - 1 >= 0 /\ F - 1 \in Int
      OBVIOUS
    <3> QED BY <3>1, ProductNonneg
  <2>2. (F - 1) * C1 \in Int
    OBVIOUS
  <2> QED BY <2>1, <2>2
<1>3. F * (C1 * T + C * T1) = C1 * T + d * a + (F - 1) * C1 * (T - a)
  <2>1. F * (C1 * T + C * T1) = F * C1 * T + C * a
    OBVIOUS
  <2>2. F * C1 * T + C * a = C1 * T + (C + (F - 1) * C1) * a + (F - 1) * C1 * (T - a)
    OBVIOUS
  <2> QED BY <2>1, <2>2
<1>4. F * (T1 * T) = a * T
  OBVIOUS
<1> HIDE DEF d
<1>5. 1000 * (C1 * T + d * a) > 828 * a * T
  <2>1. d + C1 > a /\ d + 2 * C1 > T
    BY <1>1
  <2> QED BY <1>2, <2>1, TwoSpans
<1>6. (F - 1) * C1 * (T - a) >= 0 /\ (F - 1) * C1 * (T - a) \in Int
  <2>1. F - 1 >= 0 /\ F - 1 \in Int /\ T - a >= 0 /\ T - a \in Int
    OBVIOUS
  <2>2. (F - 1) * C1 >= 0 /\ (F - 1) * C1 \in Int
    BY <2>1, ProductNonneg
  <2> QED BY <2>1, <2>2, ProductNonneg
<1> DEFINE num == C1 * T + C * T1
           den == T1 * T
           lo  == C1 * T + d * a
           x   == (F - 1) * C1 * (T - a)
           aT  == a * T
<1>7. /\ {num, den, lo, x, aT} \subseteq Int /\ 828 * a * T = 828 * aT
  BY <1>2, <1>6
<1>8. /\ F * num = lo + x /\ F * den = aT /\ x >= 0
      /\ 1000 * lo > 828 * aT /\ 1000 * num <= 828 * den
  BY <1>3, <1>4, <1>5, <1>6, <1>7 DEF TwoWithin
<1> HIDE DEF num, den, lo, x, aT
<1>9. F * (828 * den) >= F * (1000 * num)
  <2>1. 828 * den \in Int /\ 1000 * num \in Int /\ F >= 0
    BY <1>7
  <2> QED BY <1>8, <2>1, Monotone
<1>10. F * (828 * den) = 828 * (F * den) /\ F * (1000 * num) = 1000 * (F * num)
  BY <1>7
<1>11. 828 * aT >= 1000 * (lo + x)
  BY <1>8, <1>9, <1>10
<1> QED BY <1>7, <1>8, <1>11

LEMMA TwoFit ==
  ASSUME NEW C, NEW T, NEW C1, NEW T1, TwoWithin(C, T, C1, T1), T1 <= T
  PROVE  \E s \in 1 .. T : C + Rel(s, T1) * C1 <= s
<1> SUFFICES ASSUME \A s \in 1 .. T : ~(C + Rel(s, T1) * C1 <= s)
             PROVE  FALSE
  OBVIOUS
<1>0. C \in Nat /\ C1 \in Nat /\ T \in Nat \ {0} /\ T1 \in Nat \ {0}
  BY DEF TwoWithin
<1>1. PICK F : LastReleaseAt(F, T1, T)
  BY <1>0, LastRelease
<1> DEFINE a == F * T1
<1>2. /\ F \in Nat \ {0} /\ a \in 1 .. T /\ T < 2 * a
      /\ \A s \in 1 .. T : /\ Rel(s, T1) \in Nat /\ Rel(s, T1) <= F + 1
                           /\ s <= a => Rel(s, T1) <= F
  BY <1>1 DEF LastReleaseAt
<1>3. ASSUME NEW s \in 1 .. T, NEW m \in Int, Rel(s, T1) <= m
      PROVE  C + m * C1 > s
  <2> DEFINE r == Rel(s, T1)
  <2>1. r \in Int /\ s \in Int /\ ~(C + r * C1 <= s) /\ r <= m
    BY <1>2, <1>3
  <2> HIDE DEF r
  <2>2. C1 * m >= C1 * r
    BY <1>0, <2>1, Monotone
  <2> DEFINE p == C1 * m
             q == C1 * r
  <2>3. p \in Int /\ q \in Int /\ p >= q /\ ~(C + q <= s) /\ C + m * C1 = C + p
    BY <1>0, <2>1, <2>2
  <2> HIDE DEF p, q
  <2>4. C + p > s
    BY <1>0, <2>1, <2>3
  <2> QED BY <2>3, <2>4
<1> HIDE DEF a
<1>4. a \in 1 .. T /\ T \in 1 .. T /\ a <= T /\ a \in Nat \ {0} /\ F \in Int /\ F + 1 \in Int
  BY <1>0, <1>2
<1>5. C + F * C1 > a
  <2>1. Rel(a, T1) <= F
    BY <1>2, <1>4
  <2> QED BY <1>3, <1>4, <2>1
<1>6. C + (F + 1) * C1 > T
  BY <1>2, <1>3, <1>4
<1>7. ~ (C + F * C1 > a /\ C + (F + 1) * C1 > T)
  BY <1>0, <1>2, <1>4, TwoMiss DEF a
<1> QED BY <1>5, <1>6, <1>7

(* Only the tasks of no longer period count. *)
Share(t, c, T, s) == IF t <= T THEN Rel(s, t) * c ELSE 0

LEMMA CancelLe ==
  ASSUME NEW x \in Int, NEW y \in Int, NEW z \in Int, x > 0, x * y <= x * z
  PROVE  y <= z
OBVIOUS

(* A task fits into its period by itself. *)
LEMMA OneFits ==
  ASSUME NEW C \in Nat, NEW T \in Nat \ {0}, C <= T
  PROVE  \E s \in 1 .. T : C <= s
<1>1. T \in 1 .. T
  OBVIOUS
<1> QED BY <1>1

LEMMA TwoMeet ==
  ASSUME NEW C, NEW T, NEW C1, NEW T1, TwoWithin(C, T, C1, T1)
  PROVE  \E s \in 1 .. T : C + Share(T1, C1, T, s) <= s
<1>0. C \in Nat /\ C1 \in Nat /\ T \in Nat \ {0} /\ T1 \in Nat \ {0}
  BY DEF TwoWithin
<1>1. CASE T1 <= T
  BY <1>1, TwoFit DEF Share
<1>2. CASE ~(T1 <= T)
  <2>1. C <= T
    <3> DEFINE x == C1 * T
               y == T1 * C
               z == T1 * T
    <3>1. 1000 * (x + y) <= 828 * z /\ x >= 0 /\ y >= 0 /\ z >= 0 /\ {x, y, z} \subseteq Int
      <4>1. x >= 0 /\ y >= 0 /\ z >= 0
        BY <1>0, ProductNonneg
      <4>2. 1000 * (x + y) <= 828 * z
        <5>1. C * T1 = T1 * C
          BY <1>0
        <5> QED BY <5>1 DEF TwoWithin
      <4> QED BY <1>0, <4>1, <4>2
    <3> HIDE DEF x, y, z
    <3>2. y <= z
      BY <3>1
    <3> QED BY <1>0, <3>2, CancelLe DEF y, z
  <2>2. PICK s \in 1 .. T : C <= s
    BY <1>0, <2>1, OneFits
  <2>3. C + 0 <= s
    BY <1>0, <2>2
  <2> QED BY <1>2, <2>3 DEF Share
<1> QED BY <1>1, <1>2

(* Of three tasks two are within the limit, of which only one counts.      *)
LEMMA DropOne ==
  ASSUME NEW C, NEW T, NEW C1, NEW T1, NEW C2, NEW T2, ThreeWithin(C, T, C1, T1, C2, T2)
  PROVE  TwoWithin(C, T, C1, T1)
<1>0. /\ C \in Nat /\ C1 \in Nat /\ C2 \in Nat
      /\ T \in Nat \ {0} /\ T1 \in Nat \ {0} /\ T2 \in Nat \ {0}
  BY DEF ThreeWithin
<1> DEFINE x == 1000 * (C1 * T + C * T1)
           z == T1 * T
           y == C2 * z
<1>1. C1 * T2 * T + C2 * T1 * T + C * T1 * T2 = T2 * (C1 * T + C * T1) + y
  BY <1>0
<1>2. T1 * T2 * T = T2 * z
  BY <1>0
<1>3. z \in Int /\ z >= 0 /\ x \in Int /\ y \in Int
  BY <1>0, ProductNonneg
<1>4. y >= 0
  BY <1>0, <1>3, ProductNonneg
<1>5. 1000 * (T2 * (C1 * T + C * T1)) = T2 * x
  BY <1>0
<1>6. 1000 * (T2 * (C1 * T + C * T1) + y) <= 779 * (T2 * z)
  BY <1>1, <1>2 DEF ThreeWithin
<1>7. T2 * x + 1000 * y <= T2 * (828 * z)
  <2> DEFINE p == T2 * (C1 * T + C * T1)
             q == T2 * z
  <2>1. p \in Int /\ q \in Int /\ q >= 0 /\ T2 * x = 1000 * p /\ T2 * (828 * z) = 828 * q
    <3>1. q >= 0
      BY <1>0, <1>3, ProductNonneg
    <3>2. p \in Int /\ q \in Int
      BY <1>0
    <3>3. T2 * (828 * z) = 828 * (T2 * z)
      <4> HIDE DEF z
      <4> QED BY <1>0, <1>3
    <3> QED BY <1>5, <3>1, <3>2, <3>3
  <2>2. 1000 * (p + y) <= 779 * q
    BY <1>6
  <2> HIDE DEF p, q, x, y, z
  <2> QED BY <1>3, <2>1, <2>2
<1> HIDE DEF x, y, z
<1>8. T2 * x <= T2 * (828 * z)
  BY <1>0, <1>3, <1>4, <1>7
<1>9. x <= 828 * z
  <2>1. 828 * z \in Int
    BY <1>3
  <2> QED BY <1>0, <1>3, <1>8, <2>1, CancelLe
<1> QED BY <1>0, <1>9 DEF TwoWithin, x, z

LEMMA ThreeMeet ==
  ASSUME NEW C, NEW T, NEW C1, NEW T1, NEW C2, NEW T2, ThreeWithin(C, T, C1, T1, C2, T2)
  PROVE  \E s \in 1 .. T : C + Share(T1, C1, T, s) + Share(T2, C2, T, s) <= s
<1>0. /\ C \in Nat /\ C1 \in Nat /\ C2 \in Nat
      /\ T \in Nat \ {0} /\ T1 \in Nat \ {0} /\ T2 \in Nat \ {0}
  BY DEF ThreeWithin
<1>1. CASE T1 <= T /\ T2 <= T
  BY <1>1, ThreeFit DEF Share
<1>2. ASSUME NEW s, NEW t \in Nat \ {0}, NEW c \in Nat, s \in 1 .. T
      PROVE  Share(t, c, T, s) \in Int
  <2>1. Rel(s, t) \in Int
    BY <1>0, <1>2 DEF Rel
  <2>2. Rel(s, t) * c \in Int
    BY <2>1
  <2> QED BY <2>2 DEF Share
<1>3. CASE ~(T2 <= T)
  <2>1. PICK s \in 1 .. T : C + Share(T1, C1, T, s) <= s
    BY DropOne, TwoMeet
  <2> DEFINE x == Share(T1, C1, T, s)
  <2>2. Share(T2, C2, T, s) = 0 /\ x \in Int /\ C + x <= s
    BY <1>0, <1>2, <1>3, <2>1 DEF Share
  <2> HIDE DEF x
  <2>3. C + x + 0 <= s
    BY <1>0, <2>2
  <2> QED BY <2>2, <2>3 DEF x
<1>4. CASE ~(T1 <= T)
  <2>1. /\ C2 * T1 * T + C1 * T2 * T + C * T2 * T1 = C1 * T2 * T + C2 * T1 * T + C * T1 * T2
        /\ T2 * T1 * T = T1 * T2 * T
    BY <1>0
  <2>2. ThreeWithin(C, T, C2, T2, C1, T1)
    BY <2>1 DEF ThreeWithin
  <2>3. PICK s \in 1 .. T : C + Share(T2, C2, T, s) <= s
    BY <2>2, DropOne, TwoMeet
  <2> DEFINE x == Share(T2, C2, T, s)
  <2>4. Share(T1, C1, T, s) = 0 /\ x \in Int /\ C + x <= s
    BY <1>0, <1>2, <1>4, <2>3 DEF Share
  <2> HIDE DEF x
  <2>5. C + 0 + x <= s
    BY <1>0, <2>4
  <2> QED BY <2>4, <2>5 DEF x
<1> QED BY <1>1, <1>3, <1>4

-----------------------------------------------------------------------------
(* The fractions and the demands of one task, two tasks and three.         *)

LEMMA TaskFields ==
  ASSUME NEW ts \in Seq(TaskRecords), NEW k \in 1 .. Len(ts)
  PROVE  ts[k].wcet \in Nat /\ ts[k].period \in Nat \ {0}
<1>1. ts[k] \in TaskRecords
  OBVIOUS
<1> QED BY <1>1 DEF TaskRecords

(* What the loop of the check computes for one task, two and three. *)
Sums(ts, u) ==
  /\ u[0] = [num |-> 0, den |-> 1]
  /\ \A k \in 1 .. Len(ts) : u[k] = Added(ts[k], u[k - 1])

(* The same fraction, before it is reduced. *)
Stands(f, num, den) ==
  /\ f \in Fractions
  /\ \E m \in Nat \ {0} : m * f.num = num /\ m * f.den = den

LEMMA Extended ==
  ASSUME NEW m \in Nat \ {0}, NEW d \in Nat \ {0}, NEW a \in Int, NEW b \in Nat,
         NEW w \in Nat, NEW p \in Nat, NEW x \in Int, NEW y \in Nat,
         d * x = a * p + w * b, d * y = b * p
  PROVE  /\ m * d \in Nat \ {0}
         /\ (m * d) * x = (m * a) * p + w * (m * b)
         /\ (m * d) * y = (m * b) * p
<1>1. (m * d) * x = m * (d * x) /\ (m * d) * y = m * (d * y)
  OBVIOUS
<1>2. m * (a * p + w * b) = (m * a) * p + w * (m * b) /\ m * (b * p) = (m * b) * p
  OBVIOUS
<1>3. m * d \in Nat \ {0}
  OBVIOUS
<1> QED BY <1>1, <1>2, <1>3

LEMMA NextSum ==
  ASSUME NEW ts \in Seq(TaskRecords), NEW u, Sums(ts, u), NEW k \in 1 .. Len(ts),
         NEW num, NEW den, Stands(u[k - 1], num, den)
  PROVE  Stands(u[k], num * ts[k].period + ts[k].wcet * den, den * ts[k].period)
<1> DEFINE f == u[k - 1]
           t == ts[k]
<1>1. u[k] = Added(t, f) /\ f \in Fractions /\ t \in TaskRecords
  BY DEF Sums, Stands
<1>2. PICK m \in Nat \ {0} : m * f.num = num /\ m * f.den = den
  BY DEF Stands
<1>3. /\ u[k] \in Fractions
      /\ \E d \in Nat \ {0} : /\ d * u[k].num = f.num * t.period + t.wcet * f.den
                              /\ d * u[k].den = f.den * t.period
  BY <1>1, AddedIs
<1>4. PICK d \in Nat \ {0} : /\ d * u[k].num = f.num * t.period + t.wcet * f.den
                            /\ d * u[k].den = f.den * t.period
  BY <1>3
<1>5. /\ f.num \in Int /\ f.den \in Nat /\ t.wcet \in Nat /\ t.period \in Nat
      /\ u[k].num \in Int /\ u[k].den \in Nat
  BY <1>1, <1>3 DEF Fractions, TaskRecords
<1>6. /\ m * d \in Nat \ {0}
      /\ (m * d) * u[k].num = (m * f.num) * t.period + t.wcet * (m * f.den)
      /\ (m * d) * u[k].den = (m * f.den) * t.period
  <2> DEFINE a == f.num
             b == f.den
             w == t.wcet
             p == t.period
             x == u[k].num
             y == u[k].den
  <2>1. d * x = a * p + w * b /\ d * y = b * p
    BY <1>4
  <2>2. a \in Int /\ b \in Nat /\ w \in Nat /\ p \in Nat /\ x \in Int /\ y \in Nat
    BY <1>5
  <2> HIDE DEF a, b, w, p, x, y
  <2>3. /\ m * d \in Nat \ {0}
        /\ (m * d) * x = (m * a) * p + w * (m * b)
        /\ (m * d) * y = (m * b) * p
    BY <2>1, <2>2, Extended
  <2> QED BY <2>3 DEF a, b, w, p, x, y
<1> HIDE DEF f, t
<1>7. /\ (m * d) * u[k].num = num * t.period + t.wcet * den
      /\ (m * d) * u[k].den = den * t.period
  BY <1>2, <1>6
<1> QED BY <1>3, <1>6, <1>7 DEF Stands, t

LEMMA FirstSum ==
  ASSUME NEW ts \in Seq(TaskRecords), NEW u, Sums(ts, u), Len(ts) >= 1
  PROVE  Stands(u[1], ts[1].wcet, ts[1].period)
<1>1. 1 \in 1 .. Len(ts) /\ 1 - 1 = 0
  OBVIOUS
<1>2. u[0] \in Fractions /\ u[0].num = 0 /\ u[0].den = 1
  BY DEF Sums, Fractions
<1>3. Stands(u[1 - 1], 0, 1)
  BY <1>1, <1>2 DEF Stands
<1>4. Stands(u[1], 0 * ts[1].period + ts[1].wcet * 1, 1 * ts[1].period)
  BY <1>1, <1>3, NextSum
<1>5. ts[1].wcet \in Nat /\ ts[1].period \in Nat
  BY <1>1, TaskFields
<1>6. 0 * ts[1].period + ts[1].wcet * 1 = ts[1].wcet /\ 1 * ts[1].period = ts[1].period
  BY <1>5
<1> QED BY <1>4, <1>6

LEMMA SecondSum ==
  ASSUME NEW ts \in Seq(TaskRecords), NEW u, Sums(ts, u), Len(ts) >= 2
  PROVE  Stands(u[2], ts[1].wcet * ts[2].period + ts[2].wcet * ts[1].period,
                ts[1].period * ts[2].period)
<1>1. 2 \in 1 .. Len(ts) /\ 2 - 1 = 1 /\ Len(ts) >= 1
  OBVIOUS
<1>2. Stands(u[2 - 1], ts[1].wcet, ts[1].period)
  BY <1>1, FirstSum
<1> QED BY <1>1, <1>2, NextSum

LEMMA ThirdSum ==
  ASSUME NEW ts \in Seq(TaskRecords), NEW u, Sums(ts, u), Len(ts) >= 3
  PROVE  Stands(u[3],
                (ts[1].wcet * ts[2].period + ts[2].wcet * ts[1].period) * ts[3].period
                  + ts[3].wcet * (ts[1].period * ts[2].period),
                ts[1].period * ts[2].period * ts[3].period)
<1>1. 3 \in 1 .. Len(ts) /\ 3 - 1 = 2 /\ Len(ts) >= 2
  OBVIOUS
<1>2. Stands(u[3 - 1], ts[1].wcet * ts[2].period + ts[2].wcet * ts[1].period,
             ts[1].period * ts[2].period)
  BY <1>1, SecondSum
<1> QED BY <1>1, <1>2, NextSum

LEMMA Raised ==
  ASSUME NEW m \in Nat \ {0}, NEW x \in Int, NEW y \in Nat, NEW limit \in Nat,
         1000 * x <= limit * y
  PROVE  1000 * (m * x) <= limit * (m * y)
<1>1. m * (1000 * x) <= m * (limit * y)
  <2>1. 1000 * x \in Int /\ limit * y \in Int
    OBVIOUS
  <2> QED BY <2>1, Monotone
<1>2. m * (1000 * x) = 1000 * (m * x) /\ m * (limit * y) = limit * (m * y)
  OBVIOUS
<1> QED BY <1>1, <1>2

(* The comparison with the limit does not depend on it. *)
LEMMA Compared ==
  ASSUME NEW f, NEW num, NEW den, Stands(f, num, den), NEW limit \in Nat,
         1000 * f.num <= limit * f.den
  PROVE  1000 * num <= limit * den
<1>1. PICK m \in Nat \ {0} : m * f.num = num /\ m * f.den = den
  BY DEF Stands
<1>2. f.num \in Int /\ f.den \in Nat
  BY DEF Stands, Fractions
<1>3. 1000 * (m * f.num) <= limit * (m * f.den)
  BY <1>2, Raised
<1> QED BY <1>1, <1>3

(* What task j asks for while task i waits: Asked adds it to the sum. *)
Sharing(ts, i, span, j) ==
  IF j = i THEN 0 ELSE Share(ts[j].period, ts[j].wcet, ts[i].period, span)

LEMMA AskedShare ==
  ASSUME NEW ts \in Seq(TaskRecords), NEW i \in 1 .. Len(ts), NEW j \in 1 .. Len(ts),
         NEW span \in Nat, NEW sum \in Int
  PROVE  /\ Asked(ts, i, span, j, sum) = sum + Sharing(ts, i, span, j)
         /\ Sharing(ts, i, span, j) \in Int
<1>1. ts[j].period \in Nat \ {0} /\ ts[j].wcet \in Nat
  BY TaskFields
<1>2. Rms!Releases(ts[j], span) = Rel(span, ts[j].period)
  BY DEF Rms!Releases, Rel
<1>3. Rel(span, ts[j].period) \in Int
  BY <1>1 DEF Rel
<1> DEFINE p == Rel(span, ts[j].period) * ts[j].wcet
<1>4. p \in Int /\ Rms!Releases(ts[j], span) * ts[j].wcet = p /\ sum + 0 = sum
  BY <1>1, <1>2, <1>3
<1>5. Asked(ts, i, span, j, sum)
        = IF j # i /\ ts[j].period <= ts[i].period THEN sum + p ELSE sum
  BY <1>4 DEF Asked
<1>6. Sharing(ts, i, span, j)
        = IF j = i THEN 0 ELSE IF ts[j].period <= ts[i].period THEN p ELSE 0
  BY DEF Share, Sharing
<1> HIDE DEF p
<1> QED BY <1>4, <1>5, <1>6

Demands(ts, i, span, d) ==
  /\ d[0] = ts[i].wcet
  /\ \A j \in 1 .. Len(ts) : d[j] = Asked(ts, i, span, j, d[j - 1])

LEMMA NextDemand ==
  ASSUME NEW ts \in Seq(TaskRecords), NEW i \in 1 .. Len(ts), NEW span \in Nat, NEW d,
         Demands(ts, i, span, d), NEW j \in 1 .. Len(ts), d[j - 1] \in Int
  PROVE  d[j] = d[j - 1] + Sharing(ts, i, span, j) /\ d[j] \in Int
<1>1. d[j] = Asked(ts, i, span, j, d[j - 1])
  BY DEF Demands
<1>2. /\ Asked(ts, i, span, j, d[j - 1]) = d[j - 1] + Sharing(ts, i, span, j)
      /\ Sharing(ts, i, span, j) \in Int
  BY AskedShare
<1> QED BY <1>1, <1>2

LEMMA DemandOfTwo ==
  ASSUME NEW ts \in Seq(TaskRecords), Len(ts) = 2, NEW i \in 1 .. 2, NEW span \in Nat
  PROVE  Rms!Demand(ts, i, span) =
           ts[i].wcet + Sharing(ts, i, span, 1) + Sharing(ts, i, span, 2)
<1>0. i \in 1 .. Len(ts) /\ 1 \in 1 .. Len(ts) /\ 2 \in 1 .. Len(ts) /\ 1 - 1 = 0 /\ 2 - 1 = 1
  OBVIOUS
<1>1. PICK d : Demands(ts, i, span, d) /\ Rms!Demand(ts, i, span) = d[Len(ts)]
  BY <1>0, DemandUnrolls DEF Demands
<1>2. d[0] = ts[i].wcet /\ d[0] \in Int
  <2>1. d[0] = ts[i].wcet
    BY <1>1 DEF Demands
  <2> QED BY <1>0, <2>1, TaskFields
<1>3. d[1] = d[0] + Sharing(ts, i, span, 1) /\ d[1] \in Int
  <2>1. d[1 - 1] \in Int
    BY <1>0, <1>2
  <2>2. d[1] = d[1 - 1] + Sharing(ts, i, span, 1) /\ d[1] \in Int
    BY <1>0, <1>1, <2>1, NextDemand
  <2> QED BY <1>0, <2>2
<1>4. d[2] = d[1] + Sharing(ts, i, span, 2)
  <2>1. d[2 - 1] \in Int
    BY <1>0, <1>3
  <2>2. d[2] = d[2 - 1] + Sharing(ts, i, span, 2)
    BY <1>0, <1>1, <2>1, NextDemand
  <2> QED BY <1>0, <2>2
<1> QED BY <1>1, <1>2, <1>3, <1>4

LEMMA DemandOfThree ==
  ASSUME NEW ts \in Seq(TaskRecords), Len(ts) = 3, NEW i \in 1 .. 3, NEW span \in Nat
  PROVE  Rms!Demand(ts, i, span) =
           ts[i].wcet + Sharing(ts, i, span, 1) + Sharing(ts, i, span, 2)
             + Sharing(ts, i, span, 3)
<1>0. /\ i \in 1 .. Len(ts) /\ 1 \in 1 .. Len(ts) /\ 2 \in 1 .. Len(ts) /\ 3 \in 1 .. Len(ts)
      /\ 1 - 1 = 0 /\ 2 - 1 = 1 /\ 3 - 1 = 2
  OBVIOUS
<1>1. PICK d : Demands(ts, i, span, d) /\ Rms!Demand(ts, i, span) = d[Len(ts)]
  BY <1>0, DemandUnrolls DEF Demands
<1>2. d[0] = ts[i].wcet /\ d[0] \in Int
  <2>1. d[0] = ts[i].wcet
    BY <1>1 DEF Demands
  <2> QED BY <1>0, <2>1, TaskFields
<1>3. d[1] = d[0] + Sharing(ts, i, span, 1) /\ d[1] \in Int
  <2>1. d[1 - 1] \in Int
    BY <1>0, <1>2
  <2>2. d[1] = d[1 - 1] + Sharing(ts, i, span, 1) /\ d[1] \in Int
    BY <1>0, <1>1, <2>1, NextDemand
  <2> QED BY <1>0, <2>2
<1>4. d[2] = d[1] + Sharing(ts, i, span, 2) /\ d[2] \in Int
  <2>1. d[2 - 1] \in Int
    BY <1>0, <1>3
  <2>2. d[2] = d[2 - 1] + Sharing(ts, i, span, 2) /\ d[2] \in Int
    BY <1>0, <1>1, <2>1, NextDemand
  <2> QED BY <1>0, <2>2
<1>5. d[3] = d[2] + Sharing(ts, i, span, 3)
  <2>1. d[3 - 1] \in Int
    BY <1>0, <1>4
  <2>2. d[3] = d[3 - 1] + Sharing(ts, i, span, 3)
    BY <1>0, <1>1, <2>1, NextDemand
  <2> QED BY <1>0, <2>2
<1> QED BY <1>1, <1>2, <1>3, <1>4, <1>5

LEMMA DemandOfOne ==
  ASSUME NEW ts \in Seq(TaskRecords), Len(ts) = 1, NEW span \in Nat
  PROVE  Rms!Demand(ts, 1, span) = ts[1].wcet
<1>0. 1 \in 1 .. Len(ts) /\ 1 - 1 = 0
  OBVIOUS
<1>1. PICK d : Demands(ts, 1, span, d) /\ Rms!Demand(ts, 1, span) = d[Len(ts)]
  BY <1>0, DemandUnrolls DEF Demands
<1>2. d[1] = Asked(ts, 1, span, 1, d[0]) /\ d[0] = ts[1].wcet
  <2>1. d[1] = Asked(ts, 1, span, 1, d[1 - 1])
    BY <1>0, <1>1 DEF Demands
  <2> QED BY <1>0, <1>1, <2>1 DEF Demands
<1> QED BY <1>1, <1>2 DEF Asked

-----------------------------------------------------------------------------
(* The check, and the verdict that main gets.                              *)

LEMMA SharingIsInt ==
  ASSUME NEW ts \in Seq(TaskRecords), NEW i \in 1 .. Len(ts), NEW j \in 1 .. Len(ts),
         NEW span \in Nat
  PROVE  Sharing(ts, i, span, j) \in Int
<1>1. 0 \in Int
  OBVIOUS
<1> QED BY <1>1, AskedShare

LEMMA Answered ==
  ASSUME NEW ts \in Seq(TaskRecords), Len(ts) > 0, Rms!CheckSchedulability(ts)
  PROVE  \E u : /\ Sums(ts, u)
                /\ 1000 * u[Len(ts)].num <= Rms!Limit(Len(ts)) * u[Len(ts)].den
<1>1. 1000 * Rms!Utilisation(ts).num <= Rms!Limit(Len(ts)) * Rms!Utilisation(ts).den
  <2>1. ts # << >>
    OBVIOUS
  <2> QED BY <2>1 DEF Rms!CheckSchedulability
<1> QED BY <1>1, UtilisationUnrolls DEF Sums

LEMMA Limits == Rms!Limit(1) = 1000 /\ Rms!Limit(2) = 828 /\ Rms!Limit(3) = 779
BY DEF Rms!Limit

LEMMA OneSchedulable ==
  ASSUME NEW ts \in Seq(TaskRecords), Len(ts) = 1, Rms!CheckSchedulability(ts)
  PROVE  Rms!MeetsDeadlines(ts)
<1>1. 1 \in 1 .. Len(ts) /\ Len(ts) > 0 /\ Len(ts) >= 1
  OBVIOUS
<1>2. ts[1].wcet \in Nat /\ ts[1].period \in Nat \ {0}
  BY <1>1, TaskFields
<1>3. 1000 * ts[1].wcet <= 1000 * ts[1].period
  <2>1. PICK u : /\ Sums(ts, u)
                 /\ 1000 * u[Len(ts)].num <= Rms!Limit(Len(ts)) * u[Len(ts)].den
    BY <1>1, Answered
  <2>2. Stands(u[1], ts[1].wcet, ts[1].period) /\ 1000 * u[1].num <= 1000 * u[1].den
    BY <1>1, <2>1, FirstSum, Limits
  <2>3. 1000 \in Nat
    OBVIOUS
  <2> QED BY <2>2, <2>3, Compared
<1>4. \E s \in 1 .. ts[1].period : ts[1].wcet <= s
  BY <1>2, <1>3, OneFits
<1>5. PICK s \in 1 .. ts[1].period : ts[1].wcet <= s
  BY <1>4
<1>6. s \in Nat
  BY <1>2
<1>7. Rms!Demand(ts, 1, s) <= s
  BY <1>5, <1>6, DemandOfOne
<1>8. \A i \in 1 .. Len(ts) : i = 1
  OBVIOUS
<1> QED BY <1>5, <1>7, <1>8 DEF Rms!MeetsDeadlines

LEMMA TwoSchedulable ==
  ASSUME NEW ts \in Seq(TaskRecords), Len(ts) = 2, Rms!CheckSchedulability(ts)
  PROVE  Rms!MeetsDeadlines(ts)
<1> DEFINE C1 == ts[1].wcet
           C2 == ts[2].wcet
           T1 == ts[1].period
           T2 == ts[2].period
<1>1. /\ 1 \in 1 .. Len(ts) /\ 2 \in 1 .. Len(ts) /\ Len(ts) > 0 /\ Len(ts) >= 2
      /\ \A i \in 1 .. Len(ts) : i \in {1, 2}
  OBVIOUS
<1>2. C1 \in Nat /\ C2 \in Nat /\ T1 \in Nat \ {0} /\ T2 \in Nat \ {0}
  BY <1>1, TaskFields
<1>3. 1000 * (C1 * T2 + C2 * T1) <= 828 * (T1 * T2)
  <2>1. PICK u : /\ Sums(ts, u)
                 /\ 1000 * u[Len(ts)].num <= Rms!Limit(Len(ts)) * u[Len(ts)].den
    BY <1>1, Answered
  <2>2. Stands(u[2], C1 * T2 + C2 * T1, T1 * T2)
    BY <1>1, <2>1, SecondSum
  <2>3. 828 \in Nat /\ 1000 * u[2].num <= 828 * u[2].den
    <3> HIDE DEF C1, C2, T1, T2
    <3> QED BY <2>1, Limits
  <2> HIDE DEF C1, C2, T1, T2
  <2> QED BY <2>2, <2>3, Compared
<1>4. ASSUME NEW s \in Nat
      PROVE  /\ Rms!Demand(ts, 1, s) = C1 + Share(T2, C2, T1, s)
             /\ Rms!Demand(ts, 2, s) = C2 + Share(T1, C1, T2, s)
  <2>1. Sharing(ts, 1, s, 2) \in Int /\ Sharing(ts, 2, s, 1) \in Int
    BY <1>1, SharingIsInt
  <2>2. /\ Sharing(ts, 1, s, 1) = 0 /\ Sharing(ts, 2, s, 2) = 0
        /\ Sharing(ts, 1, s, 2) = Share(T2, C2, T1, s)
        /\ Sharing(ts, 2, s, 1) = Share(T1, C1, T2, s)
    BY DEF Sharing
  <2>3. /\ Rms!Demand(ts, 1, s) = C1 + Sharing(ts, 1, s, 1) + Sharing(ts, 1, s, 2)
        /\ Rms!Demand(ts, 2, s) = C2 + Sharing(ts, 2, s, 1) + Sharing(ts, 2, s, 2)
    BY DemandOfTwo
  <2> HIDE DEF C1, C2, T1, T2
  <2> QED BY <1>2, <2>1, <2>2, <2>3
<1> HIDE DEF C1, C2, T1, T2
<1>5. TwoWithin(C1, T1, C2, T2) /\ TwoWithin(C2, T2, C1, T1)
  <2>1. C1 * T2 + C2 * T1 = C2 * T1 + C1 * T2 /\ T1 * T2 = T2 * T1
    BY <1>2
  <2> QED BY <1>2, <1>3, <2>1 DEF TwoWithin
<1>6. \E s \in 1 .. T1 : Rms!Demand(ts, 1, s) <= s
  <2>1. PICK s \in 1 .. T1 : C1 + Share(T2, C2, T1, s) <= s
    BY <1>5, TwoMeet
  <2>2. s \in Nat
    BY <1>2
  <2> QED BY <1>4, <2>1, <2>2
<1>7. \E s \in 1 .. T2 : Rms!Demand(ts, 2, s) <= s
  <2>1. PICK s \in 1 .. T2 : C2 + Share(T1, C1, T2, s) <= s
    BY <1>5, TwoMeet
  <2>2. s \in Nat
    BY <1>2
  <2> QED BY <1>4, <2>1, <2>2
<1> QED BY <1>1, <1>6, <1>7 DEF Rms!MeetsDeadlines, T1, T2

LEMMA ThreeSchedulable ==
  ASSUME NEW ts \in Seq(TaskRecords), Len(ts) = 3, Rms!CheckSchedulability(ts)
  PROVE  Rms!MeetsDeadlines(ts)
<1> DEFINE C1 == ts[1].wcet
           C2 == ts[2].wcet
           C3 == ts[3].wcet
           T1 == ts[1].period
           T2 == ts[2].period
           T3 == ts[3].period
<1>1. /\ 1 \in 1 .. Len(ts) /\ 2 \in 1 .. Len(ts) /\ 3 \in 1 .. Len(ts)
      /\ Len(ts) > 0 /\ Len(ts) >= 3
      /\ \A i \in 1 .. Len(ts) : i \in {1, 2, 3}
  OBVIOUS
<1>2. /\ C1 \in Nat /\ C2 \in Nat /\ C3 \in Nat
      /\ T1 \in Nat \ {0} /\ T2 \in Nat \ {0} /\ T3 \in Nat \ {0}
  BY <1>1, TaskFields
<1>3. 1000 * ((C1 * T2 + C2 * T1) * T3 + C3 * (T1 * T2)) <= 779 * (T1 * T2 * T3)
  <2>1. PICK u : /\ Sums(ts, u)
                 /\ 1000 * u[Len(ts)].num <= Rms!Limit(Len(ts)) * u[Len(ts)].den
    BY <1>1, Answered
  <2>2. Stands(u[3], (C1 * T2 + C2 * T1) * T3 + C3 * (T1 * T2), T1 * T2 * T3)
    BY <1>1, <2>1, ThirdSum
  <2>3. 779 \in Nat /\ 1000 * u[3].num <= 779 * u[3].den
    <3> HIDE DEF C1, C2, C3, T1, T2, T3
    <3> QED BY <2>1, Limits
  <2> HIDE DEF C1, C2, C3, T1, T2, T3
  <2> QED BY <2>2, <2>3, Compared
<1>4. ASSUME NEW s \in Nat
      PROVE  /\ Rms!Demand(ts, 1, s) = C1 + Share(T2, C2, T1, s) + Share(T3, C3, T1, s)
             /\ Rms!Demand(ts, 2, s) = C2 + Share(T1, C1, T2, s) + Share(T3, C3, T2, s)
             /\ Rms!Demand(ts, 3, s) = C3 + Share(T1, C1, T3, s) + Share(T2, C2, T3, s)
  <2>1. /\ Sharing(ts, 1, s, 2) \in Int /\ Sharing(ts, 1, s, 3) \in Int
        /\ Sharing(ts, 2, s, 1) \in Int /\ Sharing(ts, 2, s, 3) \in Int
        /\ Sharing(ts, 3, s, 1) \in Int /\ Sharing(ts, 3, s, 2) \in Int
    BY <1>1, SharingIsInt
  <2>2. /\ Sharing(ts, 1, s, 1) = 0 /\ Sharing(ts, 2, s, 2) = 0 /\ Sharing(ts, 3, s, 3) = 0
        /\ Sharing(ts, 1, s, 2) = Share(T2, C2, T1, s)
        /\ Sharing(ts, 1, s, 3) = Share(T3, C3, T1, s)
        /\ Sharing(ts, 2, s, 1) = Share(T1, C1, T2, s)
        /\ Sharing(ts, 2, s, 3) = Share(T3, C3, T2, s)
        /\ Sharing(ts, 3, s, 1) = Share(T1, C1, T3, s)
        /\ Sharing(ts, 3, s, 2) = Share(T2, C2, T3, s)
    BY DEF Sharing
  <2>3. \A i \in 1 .. 3 : Rms!Demand(ts, i, s) = ts[i].wcet + Sharing(ts, i, s, 1)
                                                   + Sharing(ts, i, s, 2) + Sharing(ts, i, s, 3)
    BY DemandOfThree
  <2>4. /\ Rms!Demand(ts, 1, s) = C1 + Sharing(ts, 1, s, 1)
                                    + Sharing(ts, 1, s, 2) + Sharing(ts, 1, s, 3)
        /\ Rms!Demand(ts, 2, s) = C2 + Sharing(ts, 2, s, 1)
                                    + Sharing(ts, 2, s, 2) + Sharing(ts, 2, s, 3)
        /\ Rms!Demand(ts, 3, s) = C3 + Sharing(ts, 3, s, 1)
                                    + Sharing(ts, 3, s, 2) + Sharing(ts, 3, s, 3)
    BY <2>3
  <2> HIDE DEF C1, C2, C3, T1, T2, T3
  <2> QED BY <1>2, <2>1, <2>2, <2>4
<1> HIDE DEF C1, C2, C3, T1, T2, T3
<1>5. /\ ThreeWithin(C1, T1, C2, T2, C3, T3)
      /\ ThreeWithin(C2, T2, C1, T1, C3, T3)
      /\ ThreeWithin(C3, T3, C1, T1, C2, T2)
  <2>1. /\ (C1 * T2 + C2 * T1) * T3 + C3 * (T1 * T2)
             = C2 * T3 * T1 + C3 * T2 * T1 + C1 * T2 * T3
        /\ (C1 * T2 + C2 * T1) * T3 + C3 * (T1 * T2)
             = C1 * T3 * T2 + C3 * T1 * T2 + C2 * T1 * T3
        /\ (C1 * T2 + C2 * T1) * T3 + C3 * (T1 * T2)
             = C1 * T2 * T3 + C2 * T1 * T3 + C3 * T1 * T2
        /\ T1 * T2 * T3 = T2 * T3 * T1 /\ T1 * T2 * T3 = T1 * T3 * T2
    BY <1>2
  <2> QED BY <1>2, <1>3, <2>1 DEF ThreeWithin
<1>6. \E s \in 1 .. T1 : Rms!Demand(ts, 1, s) <= s
  <2>1. PICK s \in 1 .. T1 : C1 + Share(T2, C2, T1, s) + Share(T3, C3, T1, s) <= s
    BY <1>5, ThreeMeet
  <2>2. s \in Nat
    BY <1>2
  <2> QED BY <1>4, <2>1, <2>2
<1>7. \E s \in 1 .. T2 : Rms!Demand(ts, 2, s) <= s
  <2>1. PICK s \in 1 .. T2 : C2 + Share(T1, C1, T2, s) + Share(T3, C3, T2, s) <= s
    BY <1>5, ThreeMeet
  <2>2. s \in Nat
    BY <1>2
  <2> QED BY <1>4, <2>1, <2>2
<1>8. \E s \in 1 .. T3 : Rms!Demand(ts, 3, s) <= s
  <2>1. PICK s \in 1 .. T3 : C3 + Share(T1, C1, T3, s) + Share(T2, C2, T3, s) <= s
    BY <1>5, ThreeMeet
  <2>2. s \in Nat
    BY <1>2
  <2> QED BY <1>4, <2>1, <2>2
<1> QED BY <1>1, <1>6, <1>7, <1>8 DEF Rms!MeetsDeadlines, T1, T2, T3

(* AutosarOS_CheckSchedulability is right about every set of at most three *)
(* tasks, in whatever order and with whatever periods and execution times: *)
(* what it calls schedulable meets all deadlines.                          *)
THEOREM UpToThreeTasks ==
  ASSUME NEW ts \in Seq(TaskRecords), Len(ts) <= 3, Rms!CheckSchedulability(ts)
  PROVE  Rms!MeetsDeadlines(ts)
<1>1. Len(ts) = 0 \/ Len(ts) = 1 \/ Len(ts) = 2 \/ Len(ts) = 3
  <2>1. \A n \in Nat : n <= 3 => n = 0 \/ n = 1 \/ n = 2 \/ n = 3
    OBVIOUS
  <2>2. Len(ts) \in Nat
    OBVIOUS
  <2> QED BY <2>1, <2>2
<1>2. CASE Len(ts) = 0
  <2>1. 1 .. Len(ts) = {}
    BY <1>2
  <2> QED BY <2>1 DEF Rms!MeetsDeadlines
<1> QED BY <1>1, <1>2, OneSchedulable, TwoSchedulable, ThreeSchedulable

(* main keeps the answer to the task set it has asked about. *)
VerdictIsAnAnswer ==
  verdict # NoVerdict =>
    \E ts \in TaskSets : verdict = [tasks |-> ts, answer |-> Rms!CheckSchedulability(ts)]

LEMMA VerdictStep == VerdictIsAnAnswer /\ [Next]_vars => VerdictIsAnAnswer'
<1> SUFFICES ASSUME VerdictIsAnAnswer, [Next]_vars
             PROVE  VerdictIsAnAnswer'
  OBVIOUS
<1>1. ASSUME NEW ts \in TaskSets, CheckSchedulability(ts)
      PROVE  VerdictIsAnAnswer'
  <2>1. verdict' = [tasks |-> ts, answer |-> Rms!CheckSchedulability(ts)]
    BY <1>1 DEF CheckSchedulability
  <2> QED BY <2>1 DEF VerdictIsAnAnswer
<1>2. CASE StartScheduler
  BY <1>2 DEF StartScheduler, VerdictIsAnAnswer
<1>3. CASE UNCHANGED verdict
  BY <1>3 DEF VerdictIsAnAnswer
<1>4. CASE UNCHANGED vars
  BY <1>3, <1>4 DEF vars
<1>5. ASSUME NEW n \in Names, NEW c \in Callbacks,
             SetRelAlarm(n, c) \/ SetRelAlarmFails(n, c)
      PROVE  VerdictIsAnAnswer'
  BY <1>3, <1>5 DEF SetRelAlarm, SetRelAlarmFails
<1>6. ASSUME NEW n \in Names, CancelAlarm(n)
      PROVE  VerdictIsAnAnswer'
  BY <1>3, <1>6 DEF CancelAlarm
<1>7. CASE CarryOut
  BY <1>3, <1>7 DEF CarryOut
<1>8. ASSUME NEW h \in Timers, Expire(h)
      PROVE  VerdictIsAnAnswer'
  BY <1>3, <1>8 DEF Expire
<1>9. CASE CallbackReturns
  BY <1>3, <1>9 DEF CallbackReturns
<1> QED BY <1>1, <1>2, <1>4, <1>5, <1>6, <1>7, <1>8, <1>9 DEF Next

(* "Validate RMS schedulability": with task sets of at most three tasks,   *)
(* as the one that main checks, the verdict that main gets is safe.        *)
THEOREM VerdictSafe ==
  ASSUME \A ts \in TaskSets : ts \in Seq(TaskRecords) /\ Len(ts) <= 3
  PROVE  Spec => []VerdictIsSafe
<1>1. Init => VerdictIsAnAnswer
  BY DEF Init, VerdictIsAnAnswer
<1>2. VerdictIsAnAnswer => VerdictIsSafe
  <2> SUFFICES ASSUME NEW ts \in TaskSets,
                      verdict = [tasks |-> ts, answer |-> Rms!CheckSchedulability(ts)],
                      verdict.answer
               PROVE  Rms!MeetsDeadlines(verdict.tasks)
    BY DEF VerdictIsAnAnswer, VerdictIsSafe
  <2>1. Rms!CheckSchedulability(ts) /\ verdict.tasks = ts
    OBVIOUS
  <2> QED BY <2>1, UpToThreeTasks
<1> QED BY <1>1, <1>2, VerdictStep, PTL DEF Spec
=============================================================================
