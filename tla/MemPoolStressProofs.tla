------------------------ MODULE MemPoolStressProofs ------------------------
(***************************************************************************)
(* The stress test passes for any number of producers, and any pool with a *)
(* block for each.  The argument: its tasks keep the rules of the pool, so *)
(* MemPoolProofs applies; the burst task, of lower priority, takes blocks  *)
(* only while every producer sleeps with one in its hands, so it never has *)
(* more than what they leave, a producer always finds a block, and the     *)
(* first NULL the burst task gets is followed by nothing but NULLs.        *)
(***************************************************************************)
EXTENDS MemPoolStress, MemPoolProofs

-----------------------------------------------------------------------------
(* The inductive invariant. *)

(* Which calls a task is in, at which stage of its loop.                   *)
Places ==
  /\ \A p \in Producers :
       /\ stage[p] \in {"stagger", "oom", "alloc", "fill", "delay", "verify", "free"}
       /\ pc[p] \in {"alloc", "pop", "alloc_exit"} => stage[p] = "alloc"
       /\ pc[p] \in {"link", "push", "free_exit"}  => stage[p] = "free"
  /\ stage[Burst] \in {"warmup", "grab", "hold", "release", "rest"}
  /\ pc[Burst] \in {"alloc", "pop", "alloc_exit"} =>
       stage[Burst] = "grab" /\ index < NumBlocks
  /\ pc[Burst] \in {"link", "push", "free_exit"} =>
       stage[Burst] = "release" /\ index < grabbed
  /\ \A t \in asleep : stage[t] \in DOMAIN AfterDelay

(* While the burst task is in the pool every producer sleeps, and they have *)
(* all been through their first delay.                                     *)
BurstAlone ==
  /\ stage[Burst] # "warmup" => \A p \in Producers : stage[p] # "stagger"
  /\ mask = Burst => Producers \subseteq asleep

(* What a producer has in its hands, and in it, between its calls.         *)
Keeps(p) ==
  stage[p] \in {"fill", "delay", "verify"} \/ (stage[p] = "free" /\ pc[p] = "idle")

Hand(p) ==
  /\ Keeps(p)  => ptr[p] \in Blocks /\ held[p] = {ptr[p]}
  /\ ~Keeps(p) => held[p] = {}
  /\ stage[p] \in {"delay", "verify"} => word[ptr[p]] = p

Hands == \A p \in Producers : Hand(p)

(* The burst task never has more than the producers leave.  It is told     *)
(* that there is none when it has exactly that much.                       *)
Quota ==
  /\ Cardinality(Owned[Burst]) + Cardinality(Producers) <= NumBlocks
  /\ pc[Burst] = "alloc_exit" /\ ptr[Burst] = Null =>
       Cardinality(held[Burst]) + Cardinality(Producers) = NumBlocks

NoneRefused ==
  \A p \in Producers : stage[p] # "oom" /\ (pc[p] = "alloc_exit" => ptr[p] # Null)

(* The slots from which the burst task has not yet freed its block.        *)
Full ==
  (IF stage[Burst] # "release" THEN 0 ELSE IF pc[Burst] = "idle" THEN index ELSE index + 1)
    .. grabbed - 1

Prefix ==
  /\ stage[Burst] \in {"grab", "hold", "release"} =>
       /\ \A i \in 0 .. grabbed - 1 : slots[i] \in Blocks
       /\ \A i, j \in 0 .. grabbed - 1 : slots[i] = slots[j] => i = j
       /\ held[Burst] = {slots[i] : i \in Full}
  /\ stage[Burst] = "grab" =>
       /\ grabbed <= index
       /\ grabbed < index => Cardinality(held[Burst]) + Cardinality(Producers) = NumBlocks
  /\ stage[Burst] = "release" => index <= grabbed
  /\ stage[Burst] \in {"warmup", "rest"} => held[Burst] = {}

StressInv ==
  /\ IndInv /\ StressTypeOK /\ Places /\ BurstAlone /\ Hands
  /\ Quota /\ NoneRefused /\ Prefix /\ NoCorruption

-----------------------------------------------------------------------------
(* The tasks are clients of the pool. *)
LEMMA KeepsTheRules ==
  ASSUME StressInv, [StressNext]_allVars
  PROVE  [Next]_vars
<1> USE StressAssumption DEF Next, Inside
<1>1. ASSUME NEW t \in Clients, Delay(t) \/ Wake(t) \/ Working(t) PROVE [Next]_vars
  BY <1>1 DEF Delay, Wake, Working
<1>2. ASSUME NEW p \in Producers, Produce(p) PROVE [Next]_vars
  <2>1. ptr[p] \in held[p] => ptr[p] \in Blocks
    BY DEF StressInv, IndInv, TypeOK
  <2>2. ASSUME Fill(p) PROVE [Next]_vars
    BY <2>1, <2>2 DEF Fill, Write
  <2>3. ASSUME ProducerCallsFree(p) PROVE [Next]_vars
    BY <2>1, <2>3 DEF ProducerCallsFree, EnterFree
  <2> QED BY <1>2, <2>2, <2>3 DEF Produce, ProducerCallsAlloc, ProducerGetsAnswer, Verify,
                                  ProducerHasFreed
<1>3. ASSUME BurstStep PROVE [Next]_vars
  <2>1. ASSUME Release PROVE [Next]_vars
    <3>1. slots[index] \in Blocks
      BY <2>1 DEF Release, EnterFree, StressInv, IndInv, TypeOK
    <3> QED BY <2>1, <3>1 DEF Release
  <2> QED BY <1>3, <2>1 DEF BurstStep, Grab, KeepSlot, HoldAll, NextSlot, RestAfterBurst
<1>4. ASSUME UNCHANGED allVars PROVE [Next]_vars
  BY <1>4 DEF allVars
<1> QED BY <1>1, <1>2, <1>3, <1>4 DEF StressNext

(* A task on its way through the pool has the mask, and nobody else is in. *)
LEMMA Masked ==
  ASSUME IndInv, NEW t \in Clients, pc[t] # "idle"
  PROVE  mask = t /\ \A u \in Clients : u # t => pc[u] = "idle"
BY DEF IndInv, MaskedAlone

-----------------------------------------------------------------------------
(* Counting blocks. *)

LEMMA Finite ==
  /\ IsFiniteSet(Blocks) /\ Cardinality(Blocks) = NumBlocks
  /\ Cardinality(Producers) \in Nat
<1>1. Cardinality(0 .. NumBlocks - 1) =
        IF 0 > NumBlocks - 1 THEN 0 ELSE NumBlocks - 1 - 0 + 1
  BY NumBlocksAssumption, FS_Interval
<1> QED BY <1>1, NumBlocksAssumption, FS_Interval, ProducersAssumption, FS_CardinalityType
        DEF Blocks

ProducersBlocks == UNION {Owned[p] : p \in Producers}

(* A producer has one block at most, so all have no more than they are; and *)
(* fewer when one of them has none.                                        *)
LEMMA ProducersHaveFew ==
  ASSUME IndInv, StressTypeOK, Places, Hands, NEW Q \in SUBSET Producers,
         \A p \in Producers \ Q : Owned[p] = {}
  PROVE  /\ IsFiniteSet(ProducersBlocks)
         /\ Cardinality(ProducersBlocks) <= Cardinality(Q)
<1>1. \A p \in Producers : \A a, b \in Owned[p] : a = b
  BY StressAssumption DEF Owned, Hands, Hand, Keeps, Places, IndInv, TypeOK
<1> DEFINE f == [b \in ProducersBlocks |-> CHOOSE p \in Q : b \in Owned[p]]
<1>2. \A b \in ProducersBlocks : f[b] \in Q /\ b \in Owned[f[b]]
  BY DEF ProducersBlocks
<1>3. f \in Injection(ProducersBlocks, Q)
  <2>1. f \in [ProducersBlocks -> Q]
    BY <1>2
  <2>2. \A a, b \in ProducersBlocks : f[a] = f[b] => a = b
    BY <1>1, <1>2
  <2> HIDE DEF f
  <2> QED BY <2>1, <2>2 DEF Injection, IsInjective
<1>4. IsFiniteSet(Q)
  BY ProducersAssumption, FS_Subset
<1> HIDE DEF f
<1> QED BY <1>3, <1>4, FS_Injection

(* When they all sleep after their delays each has exactly one. *)
LEMMA SleepersHaveOne ==
  ASSUME IndInv, StressTypeOK, Places, Hands, Producers \subseteq asleep,
         \A p \in Producers : stage[p] \notin {"stagger", "oom"}
  PROVE  /\ IsFiniteSet(ProducersBlocks)
         /\ Cardinality(ProducersBlocks) = Cardinality(Producers)
<1>1. \A p \in Producers : stage[p] = "delay" /\ Owned[p] = {ptr[p]} /\ ptr[p] \in Blocks
  <2>1. \A p \in Producers : stage[p] = "delay"
    BY StressAssumption DEF Places, AfterDelay
  <2>2. \A p \in Producers : pc[p] = "idle"
    BY <2>1, StressAssumption DEF Places, IndInv, TypeOK, Labels
  <2> QED BY <2>1, <2>2, StressAssumption DEF Owned, Hands, Hand, Keeps
<1> DEFINE f == [p \in Producers |-> ptr[p]]
<1>2. \A p, q \in Producers : ptr[p] = ptr[q] => p = q
  BY <1>1, StressAssumption DEF IndInv, Separate
<1>3. f \in Bijection(Producers, ProducersBlocks)
  <2>1. f \in [Producers -> ProducersBlocks]
    BY <1>1 DEF ProducersBlocks
  <2>2. \A p, q \in Producers : f[p] = f[q] => p = q
    BY <1>2
  <2>3. \A b \in ProducersBlocks : \E p \in Producers : f[p] = b
    BY <1>1 DEF ProducersBlocks
  <2> HIDE DEF f
  <2> QED BY <2>1, <2>2, <2>3 DEF Bijection, Injection, Surjection, IsInjective
<1> HIDE DEF f
<1> QED BY <1>3, ProducersAssumption, FS_Bijection DEF ExistsBijection

LEMMA BurstBlocks ==
  ASSUME IndInv
  PROVE  /\ Owned[Burst] \subseteq Blocks /\ ProducersBlocks \subseteq Blocks
         /\ IsFiniteSet(Owned[Burst]) /\ Cardinality(Owned[Burst]) \in Nat
         /\ Owned[Burst] \cap ProducersBlocks = {}
         /\ Unowned = {} => Blocks = Owned[Burst] \cup ProducersBlocks
<1>1. \A c \in Clients : Owned[c] \subseteq Blocks
  BY DEF IndInv, TypeOK, Owned
<1>2. Owned[Burst] \subseteq Blocks /\ ProducersBlocks \subseteq Blocks
  BY <1>1, StressAssumption DEF ProducersBlocks
<1>3. IsFiniteSet(Owned[Burst]) /\ Cardinality(Owned[Burst]) \in Nat
  BY <1>2, Finite, FS_Subset, FS_CardinalityType
<1>4. Owned[Burst] \cap ProducersBlocks = {}
  BY StressAssumption DEF IndInv, Separate, ProducersBlocks
<1>5. Unowned = {} => Blocks = Owned[Burst] \cup ProducersBlocks
  BY <1>2, StressAssumption DEF Unowned, ProducersBlocks
<1> QED BY <1>2, <1>3, <1>4, <1>5

(* With nothing free the burst task has all but what the producers have. *)
LEMMA NothingFree ==
  ASSUME IndInv, StressTypeOK, Places, Hands, freeList = Null,
         NEW Q \in SUBSET Producers, \A p \in Producers \ Q : Owned[p] = {}
  PROVE  Cardinality(Owned[Burst]) + Cardinality(Q) >= NumBlocks
<1>1. Blocks = Owned[Burst] \cup ProducersBlocks
  BY BurstBlocks, EmptyListNoneFree
<1>2. IsFiniteSet(ProducersBlocks) /\ Cardinality(ProducersBlocks) <= Cardinality(Q)
  BY ProducersHaveFew
<1>3. NumBlocks = Cardinality(Owned[Burst]) + Cardinality(ProducersBlocks)
                    - Cardinality(Owned[Burst] \cap ProducersBlocks)
  BY <1>1, <1>2, BurstBlocks, Finite, FS_Union
<1>4. Cardinality(Owned[Burst] \cap ProducersBlocks) = 0
  BY BurstBlocks, FS_EmptySet
<1>5. Cardinality(Q) \in Nat /\ Cardinality(ProducersBlocks) \in Nat
  BY <1>2, ProducersAssumption, FS_Subset, FS_CardinalityType
<1> QED BY <1>2, <1>3, <1>4, <1>5, BurstBlocks, NumBlocksAssumption

-----------------------------------------------------------------------------
(* Every step keeps each part of the invariant. *)

LEMMA StressTypeStep ==
  ASSUME StressInv, [StressNext]_allVars
  PROVE  StressTypeOK'
<1> USE NumBlocksAssumption DEF StressInv, StressTypeOK, Stages, Move
<1>1. ASSUME NEW t \in Clients, Delay(t) PROVE StressTypeOK'
  BY <1>1 DEF Delay, loop
<1>2. ASSUME NEW t \in Clients, Wake(t) PROVE StressTypeOK'
  <2>1. AfterDelay[stage[t]] \in Stages
    BY <1>2, StressAssumption DEF Wake, AfterDelay, Places
  <2> QED BY <1>2, <2>1 DEF Wake
<1>3. ASSUME NEW t \in Clients, Working(t) PROVE StressTypeOK'
  BY <1>3 DEF Working, stressVars
<1>4. ASSUME NEW p \in Producers, Produce(p) PROVE StressTypeOK'
  BY <1>4, StressAssumption DEF Produce, ProducerCallsAlloc, ProducerGetsAnswer, Fill, Verify,
        ProducerCallsFree, ProducerHasFreed, stressVars, loop, AfterDelay
<1>5. ASSUME KeepSlot PROVE StressTypeOK'
  <2>1. stage[Burst] = "grab" /\ index < NumBlocks /\ grabbed <= index
    BY <1>5 DEF KeepSlot, ExitAlloc, Places, Prefix
  <2>2. ptr[Burst] \in Blocks \cup {Null}
    BY StressAssumption DEF IndInv, TypeOK
  <2>3. slots' \in [Blocks -> Blocks \cup {Null}]
    BY <1>5, <2>2 DEF KeepSlot
  <2>4. index' \in 0 .. NumBlocks /\ grabbed' \in 0 .. NumBlocks
    BY <1>5, <2>1 DEF KeepSlot
  <2> QED BY <1>5, <2>3, <2>4 DEF KeepSlot
<1>6. ASSUME Grab \/ HoldAll \/ Release \/ NextSlot \/ RestAfterBurst PROVE StressTypeOK'
  BY <1>6, StressAssumption DEF Grab, HoldAll, Release, NextSlot, RestAfterBurst, stressVars, loop,
        AfterDelay
<1>7. ASSUME UNCHANGED allVars PROVE StressTypeOK'
  BY <1>7 DEF allVars, stressVars
<1> QED BY <1>1, <1>2, <1>3, <1>4, <1>5, <1>6, <1>7 DEF StressNext, BurstStep

LEMMA PlacesStep ==
  ASSUME StressInv, [StressNext]_allVars
  PROVE  Places'
<1> USE StressAssumption DEF StressInv, StressTypeOK, IndInv, TypeOK, Places, Move, Goto
<1>1. ASSUME NEW t \in Clients, Delay(t) PROVE Places'
  BY <1>1 DEF Delay, loop, vars
<1>2. ASSUME NEW t \in Clients, Wake(t) PROVE Places'
  <2>1. pc[t] = "idle"
    BY <1>2, NullAssumption DEF Wake, MaskedAlone
  <2>2. AfterDelay[stage[t]] =
          CASE stage[t] \in {"stagger", "oom"} -> "alloc"
            [] stage[t] = "delay" -> "verify"
            [] stage[t] = "hold"  -> "release"
            [] stage[t] \in {"warmup", "rest"} -> "grab"
    BY <1>2 DEF Wake, AfterDelay
  <2> QED BY <1>2, <2>1, <2>2 DEF Wake, vars, AfterDelay
<1>3. ASSUME NEW t \in Clients, Working(t) PROVE Places'
  BY <1>3 DEF Working, stressVars, ReadHead, Pop, OutOfBlocks, Link, Push
<1>4. ASSUME NEW p \in Producers, Produce(p) PROVE Places'
  <2>1. ASSUME ProducerCallsAlloc(p) \/ ProducerCallsFree(p) PROVE Places'
    BY <2>1 DEF ProducerCallsAlloc, ProducerCallsFree, stressVars, EnterAlloc, EnterFree
  <2>2. ASSUME ProducerGetsAnswer(p) \/ ProducerHasFreed(p) PROVE Places'
    <3>1. p \notin asleep
      BY <2>2 DEF ProducerGetsAnswer, ProducerHasFreed, ExitAlloc, ExitFree, AfterDelay
    <3> QED BY <2>2, <3>1 DEF ProducerGetsAnswer, ProducerHasFreed, loop, ExitAlloc, ExitFree
  <2>3. ASSUME Fill(p) \/ Verify(p) PROVE Places'
    BY <2>3 DEF Fill, Verify, loop, Write, vars, AfterDelay
  <2> QED BY <1>4, <2>1, <2>2, <2>3 DEF Produce
<1>5. ASSUME Grab \/ Release PROVE Places'
  BY <1>5 DEF Grab, Release, stressVars, EnterAlloc, EnterFree
<1>6. ASSUME KeepSlot \/ NextSlot PROVE Places'
  BY <1>6 DEF KeepSlot, NextSlot, ExitAlloc, ExitFree, vars
<1>7. ASSUME HoldAll \/ RestAfterBurst PROVE Places'
  BY <1>7 DEF HoldAll, RestAfterBurst, vars, loop, AfterDelay
<1>8. ASSUME UNCHANGED allVars PROVE Places'
  BY <1>8 DEF allVars, stressVars, vars
<1> QED BY <1>1, <1>2, <1>3, <1>4, <1>5, <1>6, <1>7, <1>8 DEF StressNext, BurstStep

(* Nobody wakes while the mask is up, and it goes up for the burst task    *)
(* only when no producer is awake.                                         *)
LEMMA AloneStep ==
  ASSUME StressInv, [StressNext]_allVars
  PROVE  BurstAlone'
<1> USE StressAssumption, NullAssumption
    DEF StressInv, StressTypeOK, IndInv, TypeOK, Places, BurstAlone, Move
<1>1. ASSUME NEW t \in Clients, Delay(t) PROVE BurstAlone'
  BY <1>1 DEF Delay, loop, vars
<1>2. ASSUME NEW t \in Clients, Wake(t) PROVE BurstAlone'
  <2>1. AfterDelay[stage[t]] # "stagger" /\ AfterDelay[stage[t]] # "warmup"
    BY <1>2 DEF Wake, AfterDelay
  <2> QED BY <1>2, <2>1 DEF Wake, vars
<1>3. ASSUME NEW t \in Clients, Working(t) PROVE BurstAlone'
  BY <1>3 DEF Working, stressVars, ReadHead, Pop, OutOfBlocks, Link, Push
<1>4. ASSUME NEW p \in Producers, Produce(p) PROVE BurstAlone'
  BY <1>4 DEF Produce, ProducerCallsAlloc, ProducerGetsAnswer, Fill, Verify, ProducerCallsFree,
        ProducerHasFreed, stressVars, loop, vars, EnterAlloc, ExitAlloc, EnterFree, ExitFree,
        Write, RaiseMask, LowerMask
<1>5. ASSUME Grab \/ Release PROVE BurstAlone'
  <2>1. mask = Null /\ Runs(Burst)
    BY <1>5 DEF Grab, Release, EnterAlloc, EnterFree, RaiseMask
  <2>2. \A p \in Producers : p \notin asleep => Priority[p] <= Priority[Burst]
    BY <2>1 DEF Runs
  <2>3. Producers \subseteq asleep
    BY <2>2 DEF Priority
  <2> QED BY <1>5, <2>3 DEF Grab, Release, stressVars
<1>6. ASSUME KeepSlot \/ NextSlot \/ HoldAll \/ RestAfterBurst PROVE BurstAlone'
  BY <1>6 DEF KeepSlot, NextSlot, HoldAll, RestAfterBurst, ExitAlloc, ExitFree, LowerMask,
        vars, loop
<1>7. ASSUME UNCHANGED allVars PROVE BurstAlone'
  BY <1>7 DEF allVars, stressVars, vars
<1> QED BY <1>1, <1>2, <1>3, <1>4, <1>5, <1>6, <1>7 DEF StressNext, BurstStep

(* A producer keeps what it has as long as only others do something.       *)
LEMMA HandKept ==
  ASSUME StressInv, [StressNext]_allVars, NEW p \in Producers,
         ptr'[p] = ptr[p], held'[p] = held[p], pc'[p] = pc[p], stage'[p] = stage[p]
  PROVE  Hand(p)'
<1>1. Hand(p)
  BY DEF StressInv, Hands
<1>2. Keeps(p)' <=> Keeps(p)
  BY DEF Keeps
<1>3. ASSUME stage[p] \in {"delay", "verify"} PROVE word'[ptr[p]] = p
  <2>1. ptr[p] \in held[p] \cap held'[p] /\ word[ptr[p]] = p
    BY <1>1, <1>3 DEF Hand, Keeps
  <2> QED BY <2>1, KeepsTheRules, DataKept, StressAssumption DEF StressInv
<1> QED BY <1>1, <1>2, <1>3 DEF Hand

LEMMA HandsStep ==
  ASSUME StressInv, [StressNext]_allVars
  PROVE  Hands'
<1> SUFFICES ASSUME NEW p \in Producers PROVE Hand(p)'
  BY DEF Hands
<1>1. Hand(p) /\ p # Burst /\ p \in Clients
  BY StressAssumption DEF StressInv, Hands
<1> DEFINE Same == ptr'[p] = ptr[p] /\ held'[p] = held[p] /\ pc'[p] = pc[p] /\ stage'[p] = stage[p]
<1>2. Same => Hand(p)'
  BY HandKept
<1>3. /\ stage \in [Clients -> Stages]
      /\ pc \in [Clients -> Labels]
      /\ ptr \in [Clients -> Blocks \cup {Null}]
      /\ held \in [Clients -> SUBSET Blocks]
  BY DEF StressInv, StressTypeOK, IndInv, TypeOK
<1>4. ASSUME NEW t \in Clients, Delay(t) PROVE Hand(p)'
  BY <1>2, <1>4 DEF Delay, vars
<1>5. ASSUME NEW t \in Clients, Wake(t) PROVE Hand(p)'
  <2>1. CASE t # p
    BY <1>2, <1>3, <1>5, <2>1 DEF Wake, vars, Move
  <2>2. CASE t = p
    <3>1. UNCHANGED << ptr, held, pc, word >> /\ stage'[p] = AfterDelay[stage[p]]
      BY <1>1, <1>3, <1>5, <2>2 DEF Wake, vars, Move
    <3>2. /\ stage[p] \in {"stagger", "oom"} => AfterDelay[stage[p]] = "alloc"
          /\ stage[p] = "delay" => AfterDelay[stage[p]] = "verify"
          /\ stage[p] \in {"stagger", "oom", "delay"}
      BY <1>1, <1>5, <2>2 DEF StressInv, Places, Wake, AfterDelay
    <3> QED BY <1>1, <3>1, <3>2 DEF Hand, Keeps
  <2> QED BY <2>1, <2>2
<1>6. ASSUME NEW t \in Clients, Working(t) PROVE Hand(p)'
  <2>1. CASE t # p
    <3>1. Same
      BY <1>1, <1>3, <1>6, <2>1
         DEF Working, stressVars, ReadHead, Pop, OutOfBlocks, Link, Push, Goto
    <3> QED BY <1>2, <3>1
  <2>2. CASE t = p
    <3>1. pc[p] # "idle" /\ pc'[p] # "idle" /\ UNCHANGED << held, stage >>
      BY <1>1, <1>3, <1>6, <2>2
         DEF Working, stressVars, ReadHead, Pop, OutOfBlocks, Link, Push, Goto
    <3>2. stage[p] \in {"alloc", "free"}
      BY <1>3, <3>1, <1>1 DEF StressInv, Places, Labels
    <3> QED BY <1>1, <3>1, <3>2 DEF Hand, Keeps
  <2> QED BY <2>1, <2>2
<1>7. ASSUME NEW q \in Producers, Produce(q) PROVE Hand(p)'
  <2>1. CASE q # p
    <3> USE DEF stressVars, vars, Goto, Move
    <3>1. ASSUME ProducerCallsAlloc(q) \/ ProducerGetsAnswer(q) PROVE Same
      BY <1>1, <1>3, <2>1, <3>1, StressAssumption
         DEF ProducerCallsAlloc, ProducerGetsAnswer, EnterAlloc, ExitAlloc
    <3>2. ASSUME Fill(q) \/ Verify(q) PROVE Same
      BY <1>1, <1>3, <2>1, <3>2, StressAssumption DEF Fill, Verify, Write
    <3>3. ASSUME ProducerCallsFree(q) \/ ProducerHasFreed(q) PROVE Same
      BY <1>1, <1>3, <2>1, <3>3, StressAssumption
         DEF ProducerCallsFree, ProducerHasFreed, EnterFree, ExitFree
    <3> QED BY <1>2, <1>7, <3>1, <3>2, <3>3 DEF Produce
  <2>2. CASE q = p /\ ProducerCallsAlloc(p)
    BY <1>1, <1>3, <2>2 DEF ProducerCallsAlloc, EnterAlloc, stressVars, Goto, Hand, Keeps
  <2>3. CASE q = p /\ ProducerGetsAnswer(p)
    <3>1. stage[p] = "alloc" /\ held[p] = {}
      BY <1>1, <2>3 DEF ProducerGetsAnswer, ExitAlloc, StressInv, Places, Hand, Keeps
    <3>2. /\ held'[p] = {ptr[p]} \ {Null} /\ ptr' = ptr
          /\ stage'[p] = IF ptr[p] = Null THEN "oom" ELSE "fill"
      BY <1>1, <1>3, <2>3, <3>1 DEF ProducerGetsAnswer, ExitAlloc, Move
    <3>3. ptr[p] \in Blocks \cup {Null}
      BY <1>1, <1>3
    <3> QED BY <3>2, <3>3 DEF Hand, Keeps
  <2>4. CASE q = p /\ Fill(p)
    BY <1>1, <1>3, <2>4 DEF Fill, Write, Move, Hand, Keeps, StressInv, IndInv, TypeOK
  <2>5. CASE q = p /\ Verify(p)
    <3>1. pc[p] = "idle"
      BY <1>1, <1>3, <2>5 DEF Verify, StressInv, Places, Labels
    <3> QED BY <1>1, <1>3, <2>5, <3>1 DEF Verify, Move, vars, Hand, Keeps
  <2>6. CASE q = p /\ ProducerCallsFree(p)
    BY <1>1, <1>3, <2>6 DEF ProducerCallsFree, EnterFree, stressVars, Goto, Hand, Keeps
  <2>7. CASE q = p /\ ProducerHasFreed(p)
    <3>1. stage[p] = "free" /\ pc[p] # "idle"
      BY <1>1, <2>7 DEF ProducerHasFreed, ExitFree, StressInv, Places
    <3> QED BY <1>1, <1>3, <2>7, <3>1 DEF ProducerHasFreed, ExitFree, Move, Hand, Keeps
  <2> QED BY <1>7, <2>1, <2>2, <2>3, <2>4, <2>5, <2>6, <2>7 DEF Produce
<1>8. ASSUME BurstStep PROVE Hand(p)'
  BY <1>1, <1>2, <1>3, <1>8
     DEF BurstStep, Grab, KeepSlot, HoldAll, Release, NextSlot, RestAfterBurst, stressVars, vars,
         EnterAlloc, ExitAlloc, EnterFree, ExitFree, Goto, Move
<1>9. ASSUME UNCHANGED allVars PROVE Hand(p)'
  BY <1>2, <1>9 DEF allVars, vars, stressVars
<1> QED BY <1>4, <1>5, <1>6, <1>7, <1>8, <1>9 DEF StressNext

(* A producer that verifies finds its pattern. *)
LEMMA CorruptionStep ==
  ASSUME StressInv, [StressNext]_allVars
  PROVE  NoCorruption'
<1> USE DEF NoCorruption, StressInv
<1>1. ASSUME NEW p \in Producers, Verify(p) PROVE NoCorruption'
  BY <1>1 DEF Verify, Hands, Hand
<1>2. ASSUME NEW p \in Producers, Produce(p), ~Verify(p) PROVE NoCorruption'
  BY <1>2 DEF Produce, ProducerCallsAlloc, ProducerGetsAnswer, Fill, ProducerCallsFree,
              ProducerHasFreed, stressVars
<1>3. ASSUME NEW t \in Clients, Delay(t) \/ Wake(t) \/ Working(t) PROVE NoCorruption'
  BY <1>3 DEF Delay, Wake, Working, stressVars
<1>4. ASSUME BurstStep PROVE NoCorruption'
  BY <1>4 DEF BurstStep, Grab, KeepSlot, HoldAll, Release, NextSlot, RestAfterBurst, stressVars
<1>5. ASSUME UNCHANGED allVars PROVE NoCorruption'
  BY <1>5 DEF allVars, stressVars
<1> QED BY <1>1, <1>2, <1>3, <1>4, <1>5 DEF StressNext

(* What a producer does is nothing to the burst task's own variables. *)
LEMMA ProducerStep ==
  ASSUME StressInv, NEW p \in Producers, Delay(p) \/ Wake(p) \/ Working(p) \/ Produce(p)
  PROVE  /\ UNCHANGED << pc[Burst], ptr[Burst], held[Burst], stage[Burst] >>
         /\ UNCHANGED << slots, index, grabbed >>
<1>1. /\ p \in Clients /\ Burst \in Clients /\ p # Burst
      /\ stage \in [Clients -> Stages]
      /\ pc \in [Clients -> Labels]
      /\ ptr \in [Clients -> Blocks \cup {Null}]
      /\ held \in [Clients -> SUBSET Blocks]
  BY StressAssumption DEF StressInv, StressTypeOK, IndInv, TypeOK
<1>2. CASE Delay(p)
  BY <1>2 DEF Delay, vars, loop
<1>3. CASE Wake(p)
  <2>1. AfterDelay[stage[p]] # "grab"
    BY <1>3 DEF StressInv, Places, Wake, AfterDelay
  <2> QED BY <1>1, <1>3, <2>1 DEF Wake, vars, Move
<1>4. CASE Working(p)
  BY <1>1, <1>4 DEF Working, stressVars, ReadHead, Pop, OutOfBlocks, Link, Push, Goto
<1>5. CASE Produce(p)
  <2> USE <1>1 DEF stressVars, loop, vars, Goto, Move
  <2>1. CASE ProducerCallsAlloc(p) \/ ProducerGetsAnswer(p)
    BY <2>1 DEF ProducerCallsAlloc, ProducerGetsAnswer, EnterAlloc, ExitAlloc
  <2>2. CASE Fill(p) \/ Verify(p)
    BY <2>2 DEF Fill, Verify, Write
  <2>3. CASE ProducerCallsFree(p) \/ ProducerHasFreed(p)
    BY <2>3 DEF ProducerCallsFree, ProducerHasFreed, EnterFree, ExitFree
  <2> QED BY <1>5, <2>1, <2>2, <2>3 DEF Produce
<1> QED BY <1>2, <1>3, <1>4, <1>5

(* Working has one of five effects, and the task stays in the pool. *)
LEMMA BurstWorks ==
  ASSUME StressInv, Working(Burst)
  PROVE  /\ pc[Burst] # "idle" /\ pc'[Burst] # "idle"
         /\ UNCHANGED << held, stage, slots, index, grabbed >>
BY StressAssumption
   DEF StressInv, IndInv, TypeOK, Working, stressVars, ReadHead, Pop, OutOfBlocks, Link, Push, Goto

(* A producer that asks finds a block. *)
LEMMA RefusedStep ==
  ASSUME StressInv, [StressNext]_allVars
  PROVE  NoneRefused'
<1> USE StressAssumption
<1>1. /\ stage \in [Clients -> Stages] /\ pc \in [Clients -> Labels]
      /\ ptr \in [Clients -> Blocks \cup {Null}]
      /\ NoneRefused /\ IndInv /\ Registers
  BY DEF StressInv, StressTypeOK, IndInv, TypeOK
<1>2. ASSUME NEW p \in Producers, OutOfBlocks(p) PROVE FALSE
  <2>1. freeList = Null /\ pc[p] = "alloc"
    BY <1>2 DEF OutOfBlocks
  <2>2. Owned[p] = {}
    <3>1. held[p] = {}
      BY <2>1 DEF StressInv, Hands, Hand, Keeps, Places
    <3> QED BY <2>1, <3>1 DEF Owned
  <2> DEFINE Q == Producers \ {p}
  <2>3. Cardinality(Q) = Cardinality(Producers) - 1
    BY ProducersAssumption, FS_RemoveElement
  <2>4. Q \in SUBSET Producers /\ \A q \in Producers \ Q : Owned[q] = {}
    BY <2>2
  <2>5. Cardinality(Owned[Burst]) + Cardinality(Q) >= NumBlocks
    <3> HIDE DEF Q
    <3> QED BY <2>1, <2>4, NothingFree DEF StressInv
  <2> QED BY <2>3, <2>5, Finite, BurstBlocks, NumBlocksAssumption DEF StressInv, Quota
<1>3. ASSUME NEW t \in Clients, Delay(t) PROVE NoneRefused'
  BY <1>1, <1>3 DEF Delay, vars, NoneRefused
<1>4. ASSUME NEW t \in Clients, Wake(t) PROVE NoneRefused'
  <2>1. AfterDelay[stage[t]] # "oom"
    BY <1>4 DEF Wake, AfterDelay, StressInv, Places
  <2> QED BY <1>1, <1>4, <2>1 DEF Wake, vars, Move, NoneRefused
<1>5. ASSUME NEW t \in Clients, Working(t) PROVE NoneRefused'
  <2>1. CASE ReadHead(t) \/ Link(t) \/ Push(t)
    BY <1>1, <1>5, <2>1 DEF Working, stressVars, ReadHead, Link, Push, Goto, NoneRefused
  <2>2. CASE Pop(t)
    <3>1. ptr[t] # Null
      BY <1>1, <2>2, NullIsNoBlock DEF Pop, Registers
    <3> QED BY <1>1, <1>5, <2>2, <3>1 DEF Working, stressVars, Pop, Goto, NoneRefused
  <2>3. CASE OutOfBlocks(t)
    <3>1. t = Burst
      BY <1>2, <2>3
    <3> QED BY <1>1, <1>5, <2>3, <3>1 DEF Working, stressVars, OutOfBlocks, Goto, NoneRefused
  <2> QED BY <1>5, <2>1, <2>2, <2>3 DEF Working
<1>6. ASSUME NEW p \in Producers, Produce(p) PROVE NoneRefused'
  <2> USE <1>1 DEF stressVars, loop, vars, Goto, Move, NoneRefused
  <2>1. CASE ProducerCallsAlloc(p)
    BY <2>1 DEF ProducerCallsAlloc, EnterAlloc
  <2>2. CASE ProducerGetsAnswer(p)
    BY <2>2 DEF ProducerGetsAnswer, ExitAlloc
  <2>3. CASE Fill(p) \/ Verify(p)
    BY <2>3 DEF Fill, Verify, Write
  <2>4. CASE ProducerCallsFree(p) \/ ProducerHasFreed(p)
    BY <2>4 DEF ProducerCallsFree, ProducerHasFreed, EnterFree, ExitFree
  <2> QED BY <1>6, <2>1, <2>2, <2>3, <2>4 DEF Produce
<1>7. ASSUME BurstStep PROVE NoneRefused'
  BY <1>1, <1>7
     DEF BurstStep, Grab, KeepSlot, HoldAll, Release, NextSlot, RestAfterBurst, stressVars, vars,
         EnterAlloc, ExitAlloc, EnterFree, ExitFree, Goto, Move, NoneRefused
<1>8. ASSUME UNCHANGED allVars PROVE NoneRefused'
  BY <1>1, <1>8 DEF allVars, stressVars, vars, NoneRefused
<1> QED BY <1>3, <1>4, <1>5, <1>6, <1>7, <1>8 DEF StressNext

(* What a step does to the blocks the burst task has.                      *)
LEMMA BurstOwns ==
  ASSUME StressInv, [StressNext]_allVars
  PROVE  \/ Owned'[Burst] \subseteq Owned[Burst]
         \/ Pop(Burst) /\ Owned'[Burst] = Owned[Burst] \cup {ptr[Burst]}
<1>1. IndInv /\ [Next]_vars /\ Burst \in Clients /\ Owned = [c \in Clients |-> Owned[c]]
  BY KeepsTheRules, StressAssumption DEF StressInv, Owned
<1>2. CASE UNCHANGED vars
  BY <1>2 DEF vars, Owned
<1>3. ASSUME NEW c \in Clients,
             \/ EnterAlloc(c) \/ \E b \in Blocks : EnterFree(c, b) \/ Write(c, b)
             \/ Inside(c)
      PROVE  \/ Owned'[Burst] \subseteq Owned[Burst]
             \/ Pop(Burst) /\ Owned'[Burst] = Owned[Burst] \cup {ptr[Burst]}
  <2>1. CASE Pop(c)
    <3>1. Owned' = [Owned EXCEPT ![c] = @ \cup {ptr[c]}]
      BY <1>1, <2>1, Ownership
    <3> QED BY <1>1, <2>1, <3>1
  <2>2. CASE Push(c)
    <3>1. Owned' = [Owned EXCEPT ![c] = @ \ {ptr[c]}]
      BY <1>1, <2>2, Ownership
    <3> QED BY <1>1, <3>1
  <2>3. CASE ~Pop(c) /\ ~Push(c)
    <3>1. Owned' = Owned
      BY <1>1, <1>3, <2>3, Ownership DEF Inside
    <3> QED BY <3>1
  <2> QED BY <2>1, <2>2, <2>3
<1> QED BY <1>1, <1>2, <1>3 DEF Next

LEMMA QuotaStep ==
  ASSUME StressInv, [StressNext]_allVars
  PROVE  Quota'
<1> USE StressAssumption, NumBlocksAssumption
<1>1. /\ pc \in [Clients -> Labels] /\ ptr \in [Clients -> Blocks \cup {Null}]
      /\ held \in [Clients -> SUBSET Blocks]
      /\ IndInv /\ Quota
  BY DEF StressInv, IndInv, TypeOK
<1>2. Cardinality(Owned'[Burst]) + Cardinality(Producers) <= NumBlocks
  <2>1. CASE Owned'[Burst] \subseteq Owned[Burst]
    <3>1. /\ Cardinality(Owned'[Burst]) <= Cardinality(Owned[Burst])
          /\ Cardinality(Owned'[Burst]) \in Nat
      BY <1>1, <2>1, BurstBlocks, FS_Subset, FS_CardinalityType
    <3> QED BY <1>1, <3>1, BurstBlocks, Finite DEF Quota
  <2>2. CASE Pop(Burst) /\ Owned'[Burst] = Owned[Burst] \cup {ptr[Burst]}
    <3> DEFINE new == Owned[Burst] \cup {ptr[Burst]}
    <3>1. /\ ptr[Burst] = freeList /\ freeList \in Unowned
      <4>1. ptr[Burst] = freeList /\ ptr[Burst] \in Blocks
        BY <1>1, <2>2 DEF Pop, IndInv, Registers
      <4> QED BY <1>1, <4>1, NullIsNoBlock, HeadIsUnowned
    <3>2. ptr[Burst] \in Blocks /\ ptr[Burst] \notin ProducersBlocks
      BY <3>1 DEF Unowned, ProducersBlocks
    <3>3. Producers \subseteq asleep /\ \A p \in Producers : stage[p] \notin {"stagger", "oom"}
      <4>1. mask = Burst /\ stage[Burst] = "grab"
        BY <1>1, <2>2, Masked DEF Pop, StressInv, Places
      <4> QED BY <4>1 DEF StressInv, BurstAlone, NoneRefused
    <3>4. IsFiniteSet(ProducersBlocks) /\ Cardinality(ProducersBlocks) = Cardinality(Producers)
      BY <3>3, SleepersHaveOne DEF StressInv
    <3>5. /\ IsFiniteSet(new) /\ Cardinality(new) \in Nat
          /\ new \cap ProducersBlocks = {} /\ new \cup ProducersBlocks \subseteq Blocks
      BY <1>1, <3>2, BurstBlocks, FS_AddElement, FS_CardinalityType
    <3>6. Cardinality(new \cup ProducersBlocks) <= NumBlocks
      BY <3>5, Finite, FS_Subset
    <3>7. Cardinality(new \cup ProducersBlocks)
            = Cardinality(new) + Cardinality(ProducersBlocks) - Cardinality({})
      BY <3>4, <3>5, FS_Union
    <3> QED BY <2>2, <3>4, <3>5, <3>6, <3>7, Finite, FS_EmptySet
  <2> QED BY <2>1, <2>2, BurstOwns
<1>3. ASSUME pc'[Burst] = "alloc_exit" /\ ptr'[Burst] = Null
      PROVE  Cardinality(held'[Burst]) + Cardinality(Producers) = NumBlocks
  <2>1. CASE UNCHANGED << pc[Burst], ptr[Burst], held[Burst] >>
    BY <1>1, <1>3, <2>1 DEF Quota
  <2>2. CASE OutOfBlocks(Burst)
    <3>1. freeList = Null /\ pc[Burst] = "alloc" /\ held' = held
      BY <2>2 DEF OutOfBlocks
    <3>2. Owned[Burst] = held[Burst]
      BY <3>1 DEF Owned
    <3>3. Cardinality(Owned[Burst]) + Cardinality(Producers) >= NumBlocks
      BY <3>1, NothingFree DEF StressInv
    <3> QED BY <1>1, <3>1, <3>2, <3>3, BurstBlocks, Finite DEF Quota
  <2>3. CASE Working(Burst) /\ ~OutOfBlocks(Burst)
    <3>1. Pop(Burst) /\ ptr[Burst] \in Blocks
      BY <1>1, <1>3, <2>3
         DEF Working, ReadHead, Pop, Link, Push, Goto, IndInv, Registers
    <3> QED BY <1>3, <3>1, NullIsNoBlock DEF Pop
  <2>4. CASE BurstStep
    <3>1. ASSUME Grab PROVE FALSE
      BY <1>1, <1>3, <3>1 DEF Grab, EnterAlloc, Goto
    <3>2. ASSUME KeepSlot \/ Release \/ (NextSlot /\ ExitFree(Burst)) PROVE FALSE
      BY <1>1, <1>3, <3>2 DEF KeepSlot, Release, ExitAlloc, EnterFree, ExitFree, Goto
    <3>3. HoldAll \/ RestAfterBurst \/ (NextSlot /\ ~ExitFree(Burst)) => UNCHANGED vars
      BY DEF HoldAll, RestAfterBurst, NextSlot
    <3> QED BY <2>1, <2>4, <3>1, <3>2, <3>3 DEF BurstStep, vars
  <2>5. CASE Delay(Burst) \/ Wake(Burst) \/ UNCHANGED allVars
    BY <2>1, <2>5 DEF Delay, Wake, allVars, vars
  <2>6. ASSUME NEW p \in Producers, Delay(p) \/ Wake(p) \/ Working(p) \/ Produce(p)
        PROVE  UNCHANGED << pc[Burst], ptr[Burst], held[Burst] >>
    BY <2>6, ProducerStep
  <2> QED BY <2>1, <2>2, <2>3, <2>4, <2>5, <2>6 DEF StressNext, Working
<1> QED BY <1>2, <1>3 DEF Quota

LEMMA PrefixKept ==
  ASSUME Prefix, UNCHANGED << held[Burst], stage[Burst], slots, index, grabbed >>,
         pc'[Burst] = "idle" <=> pc[Burst] = "idle"
  PROVE  Prefix'
<1>1. Full' = Full
  BY DEF Full
<1> QED BY <1>1 DEF Prefix

LEMMA PrefixStep ==
  ASSUME StressInv, [StressNext]_allVars
  PROVE  Prefix'
<1> USE StressAssumption
<1>1. /\ stage \in [Clients -> Stages] /\ pc \in [Clients -> Labels]
      /\ ptr \in [Clients -> Blocks \cup {Null}] /\ held \in [Clients -> SUBSET Blocks]
      /\ index \in Nat /\ grabbed \in Nat /\ index <= NumBlocks
      /\ slots \in [Blocks -> Blocks \cup {Null}]
      /\ Burst \in Clients /\ IndInv /\ Prefix
  BY DEF StressInv, StressTypeOK, IndInv, TypeOK
<1>2. ASSUME NEW p \in Producers, Delay(p) \/ Wake(p) \/ Working(p) \/ Produce(p) PROVE Prefix'
  BY <1>1, <1>2, ProducerStep, PrefixKept
<1>3. ASSUME Delay(Burst) \/ UNCHANGED allVars PROVE Prefix'
  BY <1>1, <1>3, PrefixKept DEF Delay, loop, vars, allVars, stressVars
<1>4. ASSUME Working(Burst) PROVE Prefix'
  BY <1>1, <1>4, BurstWorks, PrefixKept
<1>5. ASSUME Wake(Burst) PROVE Prefix'
  <2>1. /\ UNCHANGED << held, pc, slots >> /\ index' = 0 /\ pc[Burst] = "idle"
        /\ stage'[Burst] = AfterDelay[stage[Burst]]
        /\ grabbed' = IF AfterDelay[stage[Burst]] = "grab" THEN 0 ELSE grabbed
    BY <1>1, <1>5, NullAssumption DEF Wake, vars, Move, IndInv, MaskedAlone
  <2>2. CASE stage[Burst] \in {"warmup", "rest"}
    <3>1. AfterDelay[stage[Burst]] = "grab"
      BY <2>2 DEF AfterDelay
    <3>2. held'[Burst] = {} /\ grabbed' = 0 /\ stage'[Burst] = "grab"
      BY <1>1, <2>1, <2>2, <3>1 DEF Prefix
    <3>3. Full' = 0 .. -1
      BY <3>2 DEF Full
    <3> QED BY <2>1, <3>2, <3>3 DEF Prefix
  <2>3. CASE stage[Burst] = "hold"
    <3>1. AfterDelay[stage[Burst]] = "release"
      BY <2>3 DEF AfterDelay
    <3>2. Full' = Full
      BY <2>1, <2>3, <3>1 DEF Full
    <3> QED BY <1>1, <2>1, <2>3, <3>1, <3>2 DEF Prefix
  <2> QED BY <1>5, <2>2, <2>3 DEF Wake, AfterDelay, StressInv, Places
<1>6. ASSUME Grab PROVE Prefix'
  <2>1. /\ UNCHANGED << held, slots, index, grabbed, stage >> /\ stage[Burst] = "grab"
    BY <1>6 DEF Grab, EnterAlloc, stressVars
  <2>2. Full' = Full
    BY <2>1 DEF Full
  <2> QED BY <1>1, <2>1, <2>2 DEF Prefix
<1>7. ASSUME KeepSlot PROVE Prefix'
  <2>1. /\ pc[Burst] = "alloc_exit" /\ stage[Burst] = "grab" /\ stage' = stage
        /\ index < NumBlocks /\ index' = index + 1 /\ grabbed <= index
        /\ slots' = [slots EXCEPT ![index] = ptr[Burst]]
        /\ grabbed' = IF ptr[Burst] # Null THEN grabbed + 1 ELSE grabbed
        /\ held'[Burst] = held[Burst] \cup ({ptr[Burst]} \ {Null})
    BY <1>1, <1>7 DEF KeepSlot, ExitAlloc, StressInv, Places, Prefix
  <2>2. /\ held[Burst] = {slots[i] : i \in 0 .. grabbed - 1}
        /\ Full' = 0 .. grabbed' - 1
    BY <1>1, <2>1 DEF Prefix, Full
  <2>3. \A i \in 0 .. grabbed - 1 : slots'[i] = slots[i] /\ slots[i] \in Blocks
    BY <1>1, <2>1, NumBlocksAssumption DEF Prefix, Blocks
  <2>4. CASE ptr[Burst] = Null
    <3>1. Cardinality(held'[Burst]) + Cardinality(Producers) = NumBlocks
      BY <2>1, <2>4 DEF StressInv, Quota
    <3>2. held'[Burst] = {slots'[i] : i \in Full'}
      BY <2>1, <2>2, <2>3, <2>4
    <3> QED BY <1>1, <2>1, <2>3, <2>4, <3>1, <3>2 DEF Prefix
  <2>5. CASE ptr[Burst] # Null
    <3>1. ptr[Burst] \in Blocks /\ ptr[Burst] \notin held[Burst]
      BY <1>1, <2>1, <2>5 DEF IndInv, Separate
    <3>2. grabbed = index
      <4>1. Owned[Burst] = held[Burst] \cup {ptr[Burst]}
        BY <1>1, <2>1, <2>5 DEF Owned
      <4>2. IsFiniteSet(held[Burst]) /\ Cardinality(held[Burst]) \in Nat
        BY <1>1, Finite, FS_Subset, FS_CardinalityType
      <4>3. Cardinality(Owned[Burst]) = Cardinality(held[Burst]) + 1
        BY <3>1, <4>1, <4>2, FS_AddElement
      <4>4. ~(Cardinality(held[Burst]) + Cardinality(Producers) = NumBlocks)
        BY <4>2, <4>3, Finite, NumBlocksAssumption DEF StressInv, Quota
      <4> QED BY <1>1, <2>1, <4>4 DEF Prefix
    <3>3. grabbed' = grabbed + 1 /\ slots'[grabbed] = ptr[Burst]
      BY <1>1, <2>1, <2>5, <3>2, NumBlocksAssumption DEF Blocks
    <3>4. \A i \in 0 .. grabbed' - 1 : i \in 0 .. grabbed - 1 \/ i = grabbed
      BY <1>1, <3>3
    <3>5. held'[Burst] = {slots'[i] : i \in Full'}
      <4>1. Full' = (0 .. grabbed - 1) \cup {grabbed}
        BY <1>1, <2>2, <3>3
      <4>2. held'[Burst] = {slots[i] : i \in 0 .. grabbed - 1} \cup {ptr[Burst]}
        BY <2>1, <2>2, <2>5
      <4> QED BY <2>3, <3>3, <4>1, <4>2
    <3>6. \A i, j \in 0 .. grabbed' - 1 : slots'[i] = slots'[j] => i = j
      <4>1. \A i \in 0 .. grabbed - 1 : slots'[i] # ptr[Burst]
        BY <2>2, <2>3, <3>1
      <4>2. \A i, j \in 0 .. grabbed - 1 : slots[i] = slots[j] => i = j
        BY <1>1, <2>1 DEF Prefix
      <4> QED BY <2>3, <3>3, <3>4, <4>1, <4>2
    <3>7. \A i \in 0 .. grabbed' - 1 : slots'[i] \in Blocks
      BY <2>3, <3>1, <3>3, <3>4
    <3>8. grabbed' <= index' /\ ~(grabbed' < index')
      BY <1>1, <2>1, <3>2, <3>3
    <3> QED BY <2>1, <3>5, <3>6, <3>7, <3>8 DEF Prefix
  <2> QED BY <2>4, <2>5
<1>8. ASSUME HoldAll PROVE Prefix'
  <2>1. /\ UNCHANGED << held, slots, index, grabbed, pc >> /\ stage[Burst] = "grab"
        /\ stage'[Burst] = "hold"
    BY <1>1, <1>8 DEF HoldAll, vars, loop, Move
  <2>2. Full' = Full
    BY <2>1 DEF Full
  <2> QED BY <1>1, <2>1, <2>2 DEF Prefix
<1>9. ASSUME Release PROVE Prefix'
  <2>1. /\ stage[Burst] = "release" /\ index < grabbed /\ pc[Burst] = "idle"
        /\ held'[Burst] = held[Burst] \ {slots[index]} /\ pc'[Burst] = "link"
        /\ UNCHANGED << stage, slots, index, grabbed >>
    BY <1>1, <1>9 DEF Release, EnterFree, stressVars, Goto
  <2>2. Full = index .. grabbed - 1 /\ Full' = index + 1 .. grabbed - 1
    BY <2>1 DEF Full
  <2>3. /\ held[Burst] = {slots[i] : i \in index .. grabbed - 1}
        /\ \A i, j \in 0 .. grabbed - 1 : slots[i] = slots[j] => i = j
    BY <1>1, <2>1, <2>2 DEF Prefix
  <2>4. held'[Burst] = {slots[i] : i \in index + 1 .. grabbed - 1}
    <3>1. \A i \in index .. grabbed - 1 : i # index <=> slots[i] # slots[index]
      BY <1>1, <2>1, <2>3
    <3>2. index + 1 .. grabbed - 1 = (index .. grabbed - 1) \ {index}
      BY <1>1, <2>1
    <3> QED BY <2>1, <2>3, <3>1, <3>2
  <2> QED BY <1>1, <2>1, <2>2, <2>4 DEF Prefix
<1>10. ASSUME NextSlot PROVE Prefix'
  <2>1. /\ stage[Burst] = "release" /\ index < grabbed /\ index' = index + 1
        /\ UNCHANGED << stage, slots, grabbed >>
    BY <1>10 DEF NextSlot
  <2>2. slots[index] # Null
    BY <1>1, <2>1, NullIsNoBlock DEF Prefix
  <2>3. pc[Burst] # "idle" /\ pc'[Burst] = "idle" /\ held' = held
    BY <1>1, <1>10, <2>2 DEF NextSlot, ExitFree, Goto
  <2>4. Full' = Full
    BY <2>1, <2>3 DEF Full
  <2> QED BY <1>1, <2>1, <2>3, <2>4 DEF Prefix
<1>11. ASSUME RestAfterBurst PROVE Prefix'
  <2>1. /\ stage[Burst] = "release" /\ pc[Burst] = "idle" /\ index = grabbed
        /\ held' = held /\ stage'[Burst] = "rest"
    BY <1>1, <1>11 DEF RestAfterBurst, Move, vars
  <2>2. Full = {}
    BY <1>1, <2>1 DEF Full
  <2>3. held'[Burst] = {}
    BY <1>1, <2>1, <2>2 DEF Prefix
  <2> QED BY <2>1, <2>3 DEF Prefix
<1> QED BY <1>2, <1>3, <1>4, <1>5, <1>6, <1>7, <1>8, <1>9, <1>10, <1>11 DEF StressNext, BurstStep

-----------------------------------------------------------------------------
LEMMA StressInitially == StressInit => StressInv
<1> SUFFICES ASSUME StressInit PROVE StressInv
  OBVIOUS
<1> USE StressAssumption, NumBlocksAssumption DEF StressInit
<1>1. IndInv
  BY Initially
<1>2. StressTypeOK /\ NoCorruption
  <2>1. "warmup" \in Stages /\ "stagger" \in Stages
    BY DEF Stages, AfterDelay
  <2>2. stage \in [Clients -> Stages]
    BY <2>1
  <2>3. asleep \subseteq Clients /\ slots \in [Blocks -> Blocks \cup {Null}]
    OBVIOUS
  <2>4. index \in 0 .. NumBlocks /\ grabbed \in 0 .. NumBlocks
    OBVIOUS
  <2>5. corrupted \in BOOLEAN /\ ~corrupted
    OBVIOUS
  <2> QED BY <2>2, <2>3, <2>4, <2>5 DEF StressTypeOK, NoCorruption
<1>3. Places
  BY DEF Init, Places, AfterDelay
<1>4. BurstAlone /\ Hands /\ NoneRefused
  BY NullAssumption DEF Init, BurstAlone, Hands, Hand, Keeps, NoneRefused
<1>5. Quota
  <2>1. Owned[Burst] = {} /\ pc[Burst] = "idle"
    BY DEF Init, Owned
  <2> QED BY <2>1, Finite, FS_EmptySet, ProducersAssumption DEF Quota
<1>6. Prefix
  BY DEF Init, Prefix
<1> QED BY <1>1, <1>2, <1>3, <1>4, <1>5, <1>6 DEF StressInv

THEOREM StressInvariance == StressSpec => []StressInv
<1>1. StressInv /\ [StressNext]_allVars => StressInv'
  <2> SUFFICES ASSUME StressInv, [StressNext]_allVars PROVE StressInv'
    OBVIOUS
  <2>1. IndInv'
    BY KeepsTheRules, Preserved DEF StressInv
  <2> QED BY <2>1, StressTypeStep, PlacesStep, AloneStep, HandsStep, CorruptionStep, RefusedStep,
             QuotaStep, PrefixStep DEF StressInv
<1> QED BY StressInitially, <1>1, PTL DEF StressSpec

-----------------------------------------------------------------------------
(* The theorems. *)

(* The tasks' variables keep their types: the burst task's counters stay   *)
(* inside its array held[].                                                *)
THEOREM StressTypeCorrect == StressSpec => []StressTypeOK
<1>1. StressInv => StressTypeOK
  BY DEF StressInv
<1> QED BY <1>1, StressInvariance, PTL

(* "Pool integrity: PASS", for any number of producers.                    *)
THEOREM IntegrityPasses == StressSpec => []NoCorruption
<1>1. StressInv => NoCorruption
  BY DEF StressInv
<1> QED BY <1>1, StressInvariance, PTL

(* "Pool never leaks": the release loop of the burst task, which stops at  *)
(* the number of blocks it was given, gives back every one of them.        *)
THEOREM NothingLeaks == StressSpec => []BurstReturnsEverything
<1>1. StressInv => BurstReturnsEverything
  BY DEF StressInv, Prefix, BurstReturnsEverything
<1> QED BY <1>1, StressInvariance, PTL

(* A producer never meets the OOM path it has code for, as long as there   *)
(* are no fewer blocks than producers.                                     *)
THEOREM NeverRefused == StressSpec => []ProducersNeverRefused
<1>1. StressInv => ProducersNeverRefused
  BY DEF StressInv, NoneRefused, ProducersNeverRefused
<1> QED BY <1>1, StressInvariance, PTL

-----------------------------------------------------------------------------
(* The three programs of mem_pool_stress.c are clients of mem_pool.c: what *)
(* they do is a behaviour of that module, so its theorems hold of them.    *)
THEOREM StressIsClient == StressSpec => Spec
<1>1. StressInit => Init
  BY DEF StressInit
<1>2. StressInv /\ [StressNext]_allVars => [Next]_vars
  BY KeepsTheRules
<1> QED BY <1>1, <1>2, StressInvariance, PTL DEF StressSpec, Spec

(* They see the abstract pool of blocks, and nobody but its holder writes  *)
(* into a block, the burst that empties the pool included.                 *)
THEOREM StressSeesPool == StressSpec => ImplementsBlockPool /\ HeldBlocksAreLeftAlone
BY StressIsClient, Implements, DataSurvives, PTL
=============================================================================
