------------------------------ MODULE MemPool ------------------------------
(***************************************************************************)
(* src/mem_pool.c: blocks of one size on an intrusive free list, the link  *)
(* of a free block being the first word of the block itself, the very word *)
(* a client overwrites while it has the block.                             *)
(*                                                                         *)
(* A step is one statement that touches the pool.  What makes the list     *)
(* safe is the interrupt mask the code raises around it: while a client    *)
(* has it raised there is no tick and no switch, and nobody else runs.     *)
(***************************************************************************)
EXTENDS Integers, FiniteSets

CONSTANTS Clients,     \* the tasks that use the pool
          NumBlocks,   \* num_blocks
          CountMod,    \* 2^32 in the code: the counters are uint32_t
          Null         \* NULL

ASSUME NumBlocksAssumption == NumBlocks \in Nat \ {0}
ASSUME CountModAssumption  == CountMod \in Nat \ {0}
ASSUME NullAssumption      == Null \notin Int \cup Clients
ASSUME ClientsAssumption   == Clients \cap Int = {}

VARIABLES
  freeList,     \* free_list
  word,         \* the first word of each block: a link, or a client's data
  freeCount,    \* free_count
  allocCount,   \* alloc_count
  failCount,    \* fail_count
  mask,         \* the client that has raised the interrupt mask, or Null
  pc,           \* where each client is inside the API
  ptr,          \* ptr: what MemPool_Free is given and MemPool_Alloc returns
  held          \* the blocks each client has been given and has not freed

counters == << freeCount, allocCount, failCount >>
vars     == << freeList, word, freeCount, allocCount, failCount, mask, pc,
               ptr, held >>

Blocks == 0 .. NumBlocks - 1
Labels == {"idle", "alloc", "pop", "alloc_exit", "link", "push", "free_exit"}

(* MemPool_Init: each block is put before the ones already on the list. *)
Init ==
  /\ freeList   = NumBlocks - 1
  /\ word       = [b \in Blocks |-> IF b = 0 THEN Null ELSE b - 1]
  /\ freeCount  = NumBlocks
  /\ allocCount = 0
  /\ failCount  = 0
  /\ mask       = Null
  /\ pc         = [c \in Clients |-> "idle"]
  /\ ptr        = [c \in Clients |-> Null]
  /\ held       = [c \in Clients |-> {}]

Goto(c, label) == pc' = [pc EXCEPT ![c] = label]

(* taskENTER_CRITICAL_FROM_ISR and taskEXIT_CRITICAL_FROM_ISR, after a slip*)
(* in the first: nothing is masked.                                        *)
MaskNothing(c) == mask = Null /\ mask' = mask

RaiseMask(c) == mask = Null /\ mask' = c
LowerMask(c) == mask' = Null

-----------------------------------------------------------------------------
(* MemPool_Alloc *)

EnterAlloc(c) ==
  /\ pc[c] = "idle"
  /\ RaiseMask(c)
  /\ ptr' = [ptr EXCEPT ![c] = Null]
  /\ Goto(c, "alloc")
  /\ UNCHANGED << freeList, word, counters, held >>

ReadHead(c) ==
  /\ pc[c] = "alloc"
  /\ freeList # Null
  /\ ptr' = [ptr EXCEPT ![c] = freeList]
  /\ Goto(c, "pop")
  /\ UNCHANGED << freeList, word, counters, mask, held >>

(* Slips in the next action: the head stays, or free_count does. *)
PopInPlace(c) ==
  /\ pc[c] = "pop"
  /\ freeCount'  = freeCount - 1
  /\ allocCount' = (allocCount + 1) % CountMod
  /\ Goto(c, "alloc_exit")
  /\ UNCHANGED << freeList, word, failCount, mask, ptr, held >>

PopUncounted(c) ==
  /\ pc[c] = "pop"
  /\ freeList'   = word[ptr[c]]
  /\ allocCount' = (allocCount + 1) % CountMod
  /\ Goto(c, "alloc_exit")
  /\ UNCHANGED << word, freeCount, failCount, mask, ptr, held >>

Pop(c) ==
  /\ pc[c] = "pop"
  /\ freeList'   = word[ptr[c]]
  /\ freeCount'  = freeCount - 1
  /\ allocCount' = (allocCount + 1) % CountMod
  /\ Goto(c, "alloc_exit")
  /\ UNCHANGED << word, failCount, mask, ptr, held >>

(* A slip in the next action: the last block is never given out. *)
OutOfBlocksEarly(c) ==
  /\ pc[c] = "alloc"
  /\ freeCount <= 1
  /\ failCount' = (failCount + 1) % CountMod
  /\ Goto(c, "alloc_exit")
  /\ UNCHANGED << freeList, word, freeCount, allocCount, mask, ptr, held >>

OutOfBlocks(c) ==
  /\ pc[c] = "alloc"
  /\ freeList = Null
  /\ failCount' = (failCount + 1) % CountMod
  /\ Goto(c, "alloc_exit")
  /\ UNCHANGED << freeList, word, freeCount, allocCount, mask, ptr, held >>

ExitAlloc(c) ==
  /\ pc[c] = "alloc_exit"
  /\ LowerMask(c)
  /\ held' = [held EXCEPT ![c] = @ \cup ({ptr[c]} \ {Null})]
  /\ Goto(c, "idle")
  /\ UNCHANGED << freeList, word, counters, ptr >>

-----------------------------------------------------------------------------
(* MemPool_Free, of a block the caller has (of NULL it does nothing) *)

EnterFree(c, b) ==
  /\ pc[c] = "idle"
  /\ b \in held[c]
  /\ RaiseMask(c)
  /\ ptr'  = [ptr EXCEPT ![c] = b]
  /\ held' = [held EXCEPT ![c] = @ \ {b}]
  /\ Goto(c, "link")
  /\ UNCHANGED << freeList, word, counters >>

(* A slip in the next action: the block keeps its data where the link goes.*)
LinkForgotten(c) ==
  /\ pc[c] = "link"
  /\ Goto(c, "push")
  /\ UNCHANGED << freeList, word, counters, mask, ptr, held >>

Link(c) ==
  /\ pc[c] = "link"
  /\ word' = [word EXCEPT ![ptr[c]] = freeList]
  /\ Goto(c, "push")
  /\ UNCHANGED << freeList, counters, mask, ptr, held >>

Push(c) ==
  /\ pc[c] = "push"
  /\ freeList'  = ptr[c]
  /\ freeCount' = freeCount + 1
  /\ Goto(c, "free_exit")
  /\ UNCHANGED << word, allocCount, failCount, mask, ptr, held >>

ExitFree(c) ==
  /\ pc[c] = "free_exit"
  /\ LowerMask(c)
  /\ Goto(c, "idle")
  /\ UNCHANGED << freeList, word, counters, ptr, held >>

-----------------------------------------------------------------------------
(* A client uses a block: its own data goes over the link. *)
Write(c, b) ==
  /\ pc[c] = "idle"
  /\ mask = Null
  /\ b \in held[c]
  /\ word' = [word EXCEPT ![b] = c]
  /\ UNCHANGED << freeList, counters, mask, pc, ptr, held >>

(* The statements of the API after the mask has been raised. *)
Inside(c) ==
  \/ ReadHead(c)
  \/ Pop(c)
  \/ OutOfBlocks(c)
  \/ ExitAlloc(c)
  \/ Link(c)
  \/ Push(c)
  \/ ExitFree(c)

Next ==
  \E c \in Clients :
    \/ EnterAlloc(c)
    \/ \E b \in Blocks : EnterFree(c, b) \/ Write(c, b)
    \/ Inside(c)

Spec == Init /\ [][Next]_vars

-----------------------------------------------------------------------------
(* Properties *)

TypeOK ==
  /\ freeList   \in Blocks \cup {Null}
  /\ word       \in [Blocks -> Blocks \cup {Null} \cup Clients]
  /\ freeCount  \in 0 .. NumBlocks
  /\ allocCount \in 0 .. CountMod - 1
  /\ failCount  \in 0 .. CountMod - 1
  /\ mask       \in Clients \cup {Null}
  /\ pc         \in [Clients -> Labels]
  /\ ptr        \in [Clients -> Blocks \cup {Null}]
  /\ held       \in [Clients -> SUBSET Blocks]

(* The blocks a client has: also the one it is about to be given, and the  *)
(* one it gives back as long as the list does not start with it.           *)
Owned ==
  [c \in Clients |->
     held[c] \cup (IF pc[c] \in {"alloc_exit", "link", "push"}
                   THEN {ptr[c]} \ {Null} ELSE {})]

(* The sequence f of n blocks is linked from first to NULL. *)
Linked(f, n, first, w) ==
  /\ \A i, j \in 1 .. n : f[i] = f[j] => i = j
  /\ IF n = 0 THEN first = Null
              ELSE /\ first = f[1]
                   /\ \A i \in 1 .. n - 1 : w[f[i]] = f[i + 1]
                   /\ w[f[n]] = Null

(* The list can be walked to its NULL, is as long as free_count says, and  *)
(* holds every block nobody has and no other: none is lost, none is there  *)
(* twice, and no link is ever a client's data.                             *)
FreeListIsSound ==
  \E f \in [1 .. freeCount -> Blocks] :
    /\ Linked(f, freeCount, freeList, word)
    /\ {f[i] : i \in 1 .. freeCount} = Blocks \ UNION {Owned[c] : c \in Clients}

(* A block is written by the client that has it and by nobody else, the    *)
(* pool included, for as long as the client has it.                        *)
HeldBlocksAreLeftAlone ==
  [][\A c \in Clients : \A b \in held[c] \cap held'[c] :
       word'[b] # word[b] => word'[b] = c]_vars

(* The module implements BlockPool. *)
Pool == INSTANCE BlockPool WITH
          owns <- Owned, grants <- allocCount, refusals <- failCount

ImplementsBlockPool == Pool!Spec

(* No block is given to two clients. *)
NoBlockShared == Pool!NoBlockShared
=============================================================================
