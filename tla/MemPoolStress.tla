--------------------------- MODULE MemPoolStress ---------------------------
(***************************************************************************)
(* src/mem_pool_stress.c on src/mem_pool.c: producers that fill a block,   *)
(* keep it while they sleep, verify it and free it, and a burst task that  *)
(* takes every block it can get, keeps them and frees them.  The checker   *)
(* only prints and is left out.                                            *)
(*                                                                         *)
(* What the tasks find depends on who may run when, so the scheduler is    *)
(* here: fixed priorities with preemption, equal ones in any order, nobody *)
(* but the task with the interrupt mask.  Delays have no length: a         *)
(* sleeping task may wake at any tick, but no tick comes under the mask.   *)
(***************************************************************************)
EXTENDS MemPool

CONSTANTS Producers, Burst

ASSUME StressAssumption ==
  /\ Clients = Producers \cup {Burst}
  /\ Burst \notin Producers

(* Three producers share 16 blocks: there is one for each.                 *)
ASSUME ProducersAssumption ==
  IsFiniteSet(Producers) /\ Cardinality(Producers) <= NumBlocks

VARIABLES
  stage,      \* where each task is in its loop
  asleep,     \* the tasks in vTaskDelay
  slots,      \* held[] of the burst task
  index,      \* its loop counter i
  grabbed,    \* grabbed
  corrupted   \* s_corruption_count # 0

stressVars == << stage, asleep, slots, index, grabbed, corrupted >>
loop       == << slots, index, grabbed >>
allVars    == << vars, stressVars >>

(* The fourth argument of xTaskCreate. *)
(* A slip in the next operator: one priority for all. *)
PriorityEqual == [t \in Clients |-> 2]

Priority == [t \in Clients |-> IF t = Burst THEN 1 ELSE 2]

(* A task that takes a step: the one with the mask, or one of the highest  *)
(* priority among those awake.                                             *)
Runs(t) ==
  IF mask # Null
  THEN mask = t
  ELSE /\ t \notin asleep
       /\ \A u \in Clients \ asleep : Priority[u] <= Priority[t]

(* The delays of the loops, and where the task goes on after each. *)
AfterDelay ==
  [stagger |-> "alloc", delay  |-> "verify",  oom  |-> "alloc",
   warmup  |-> "grab",  hold   |-> "release", rest |-> "grab"]

Stages == DOMAIN AfterDelay \cup {"alloc", "fill", "verify", "free", "grab", "release"}

StressInit ==
  /\ Init
  /\ stage     = [t \in Clients |-> IF t = Burst THEN "warmup" ELSE "stagger"]
  /\ asleep    = Clients
  /\ slots     = [n \in Blocks |-> Null]
  /\ index     = 0
  /\ grabbed   = 0
  /\ corrupted = FALSE

Move(t, s) == stage' = [stage EXCEPT ![t] = s]

-----------------------------------------------------------------------------
(* vTaskDelay *)
Delay(t) ==
  /\ Runs(t)
  /\ pc[t] = "idle"
  /\ stage[t] \in DOMAIN AfterDelay
  /\ asleep' = asleep \cup {t}
  /\ UNCHANGED << vars, stage, loop, corrupted >>

(* A slip in the next action: grabbed counts on from the last burst. *)
WakeCountingOn(t) ==
  /\ t \in asleep
  /\ mask = Null
  /\ stage[t] = "warmup" => \A p \in Producers : stage[p] # "stagger"
  /\ asleep' = asleep \ {t}
  /\ Move(t, AfterDelay[stage[t]])
  /\ index' = IF t = Burst THEN 0 ELSE index
  /\ UNCHANGED << vars, slots, grabbed, corrupted >>

(* A tick ends a delay.  The burst task's 15 s warm-up ends long after the *)
(* last producer's 120 ms.                                                 *)
Wake(t) ==
  /\ t \in asleep
  /\ mask = Null
  /\ stage[t] = "warmup" => \A p \in Producers : stage[p] # "stagger"
  /\ asleep' = asleep \ {t}
  /\ Move(t, AfterDelay[stage[t]])
  /\ index'   = IF t = Burst THEN 0 ELSE index
  /\ grabbed' = IF AfterDelay[stage[t]] = "grab" THEN 0 ELSE grabbed
  /\ UNCHANGED << vars, slots, corrupted >>

(* The statements inside MemPool_Alloc and MemPool_Free that do not return.*)
Working(t) ==
  /\ Runs(t)
  /\ ReadHead(t) \/ Pop(t) \/ OutOfBlocks(t) \/ Link(t) \/ Push(t)
  /\ UNCHANGED stressVars

-----------------------------------------------------------------------------
(* producer_task *)

ProducerCallsAlloc(p) ==
  /\ Runs(p)
  /\ stage[p] = "alloc"
  /\ EnterAlloc(p)
  /\ UNCHANGED stressVars

ProducerGetsAnswer(p) ==
  /\ ExitAlloc(p)
  /\ Move(p, IF ptr[p] = Null THEN "oom" ELSE "fill")
  /\ UNCHANGED << asleep, loop, corrupted >>

Fill(p) ==
  /\ Runs(p)
  /\ stage[p] = "fill"
  /\ Write(p, ptr[p])
  /\ Move(p, "delay")
  /\ UNCHANGED << asleep, loop, corrupted >>

Verify(p) ==
  /\ Runs(p)
  /\ stage[p] = "verify"
  /\ corrupted' = (corrupted \/ word[ptr[p]] # p)
  /\ Move(p, "free")
  /\ UNCHANGED << vars, asleep, loop >>

ProducerCallsFree(p) ==
  /\ Runs(p)
  /\ stage[p] = "free"
  /\ EnterFree(p, ptr[p])
  /\ UNCHANGED stressVars

ProducerHasFreed(p) ==
  /\ ExitFree(p)
  /\ Move(p, "alloc")
  /\ UNCHANGED << asleep, loop, corrupted >>

-----------------------------------------------------------------------------
(* oom_burst_task *)

Grab ==
  /\ Runs(Burst)
  /\ stage[Burst] = "grab"
  /\ index < NumBlocks
  /\ EnterAlloc(Burst)
  /\ UNCHANGED stressVars

KeepSlot ==
  /\ ExitAlloc(Burst)
  /\ slots'   = [slots EXCEPT ![index] = ptr[Burst]]
  /\ grabbed' = IF ptr[Burst] # Null THEN grabbed + 1 ELSE grabbed
  /\ index'   = index + 1
  /\ UNCHANGED << stage, asleep, corrupted >>

HoldAll ==
  /\ Runs(Burst)
  /\ stage[Burst] = "grab"
  /\ pc[Burst] = "idle"
  /\ index = NumBlocks
  /\ Move(Burst, "hold")
  /\ UNCHANGED << vars, asleep, loop, corrupted >>

Release ==
  /\ Runs(Burst)
  /\ stage[Burst] = "release"
  /\ index < grabbed
  /\ EnterFree(Burst, slots[index])
  /\ UNCHANGED stressVars

(* The slot has been freed, or there is nothing in it. *)
NextSlot ==
  /\ stage[Burst] = "release"
  /\ index < grabbed
  /\ IF slots[index] = Null
     THEN Runs(Burst) /\ pc[Burst] = "idle" /\ UNCHANGED vars
     ELSE ExitFree(Burst)
  /\ index' = index + 1
  /\ UNCHANGED << stage, asleep, slots, grabbed, corrupted >>

RestAfterBurst ==
  /\ Runs(Burst)
  /\ stage[Burst] = "release"
  /\ pc[Burst] = "idle"
  /\ index = grabbed
  /\ Move(Burst, "rest")
  /\ UNCHANGED << vars, asleep, loop, corrupted >>

-----------------------------------------------------------------------------
Produce(p) ==
  \/ ProducerCallsAlloc(p)
  \/ ProducerGetsAnswer(p)
  \/ Fill(p)
  \/ Verify(p)
  \/ ProducerCallsFree(p)
  \/ ProducerHasFreed(p)

BurstStep == Grab \/ KeepSlot \/ HoldAll \/ Release \/ NextSlot \/ RestAfterBurst

StressNext ==
  \/ \E t \in Clients : Delay(t) \/ Wake(t) \/ Working(t)
  \/ \E p \in Producers : Produce(p)
  \/ BurstStep

StressSpec == StressInit /\ [][StressNext]_allVars

-----------------------------------------------------------------------------
(* Properties *)

StressTypeOK ==
  /\ stage     \in [Clients -> Stages]
  /\ asleep    \subseteq Clients
  /\ slots     \in [Blocks -> Blocks \cup {Null}]
  /\ index     \in 0 .. NumBlocks
  /\ grabbed   \in 0 .. NumBlocks
  /\ corrupted \in BOOLEAN

(* "Pool integrity: PASS": a producer finds what it wrote, whatever the    *)
(* other producers and the burst task do with the pool while it sleeps.    *)
NoCorruption == ~corrupted

(* "Pool never leaks", of the burst task's blocks: after each burst it has *)
(* given back all it took (free_count is not num_blocks then, as the       *)
(* header says, because producers have blocks too).  The release loop      *)
(* stops at grabbed, so it returns every block only if no slot before the  *)
(* last block is empty.  That is so because a producer frees and takes     *)
(* again before the burst task, of lower priority, can see the block.      *)
BurstReturnsEverything == stage[Burst] \in {"warmup", "rest"} => held[Burst] = {}

(* For the same reason no producer is ever refused a block once all have   *)
(* one: the burst task gets only what the producers leave.                 *)
ProducersNeverRefused == \A p \in Producers : stage[p] # "oom"

(* "Hold for 2 seconds - producers hit OOM path": a producer that asks for *)
(* a block while the burst task keeps all it could get is told there is    *)
(* none.                                                                   *)
ProducersHitOOM ==
  [][\A p \in Producers :
       stage[Burst] = "hold" /\ pc[p] = "alloc" /\ pc'[p] # "alloc"
         => pc'[p] = "alloc_exit"]_allVars
=============================================================================
