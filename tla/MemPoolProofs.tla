--------------------------- MODULE MemPoolProofs ---------------------------
(***************************************************************************)
(* What mem_pool.c guarantees for any number of blocks and clients.  The   *)
(* argument: whoever is inside the API has the interrupt mask, so at most  *)
(* one is; through each of its statements the list stays a chain of        *)
(* exactly the blocks nobody has; so a client's data is never on the list  *)
(* and a block on the list is never a client's.                            *)
(***************************************************************************)
EXTENDS MemPool, TLAPS, FiniteSetTheorems

-----------------------------------------------------------------------------
(* Lemmas about chains. *)

Elements(f, n) == {f[i] : i \in 1 .. n}

LEMMA NullIsNoBlock == Null \notin Blocks
BY NullAssumption DEF Blocks

(* The chain that is left when its head is taken off. *)
LEMMA TakeHead ==
  ASSUME NEW n \in Nat, NEW f \in [1 .. n -> Blocks], NEW first, NEW w,
         Linked(f, n, first, w), first # Null
  PROVE  /\ n > 0
         /\ first \in Elements(f, n)
         /\ \E g \in [1 .. n - 1 -> Blocks] :
              /\ Linked(g, n - 1, w[first], w)
              /\ Elements(g, n - 1) = Elements(f, n) \ {first}
<1> DEFINE g == [i \in 1 .. n - 1 |-> f[i + 1]]
<1>1. n > 0 /\ first = f[1] /\ w[f[n]] = Null
  BY DEF Linked
<1>2. first \in Elements(f, n)
  BY <1>1 DEF Elements
<1>3. g \in [1 .. n - 1 -> Blocks]
  BY <1>1
<1>4. /\ \A i, j \in 1 .. n : f[i] = f[j] => i = j
      /\ \A i \in 1 .. n - 1 : w[f[i]] = f[i + 1]
  BY <1>1 DEF Linked
<1>5. \A i, j \in 1 .. n - 1 : g[i] = g[j] => i = j
  BY <1>1, <1>4
<1>6. Linked(g, n - 1, w[first], w)
  <2>1. CASE n = 1
    BY <1>1, <1>5, <2>1 DEF Linked
  <2>2. CASE n # 1
    <3>1. w[first] = g[1]
      BY <1>1, <1>4, <2>2
    <3>2. \A i \in 1 .. (n - 1) - 1 : w[g[i]] = g[i + 1]
      BY <1>1, <1>4, <2>2
    <3>3. w[g[n - 1]] = Null
      BY <1>1, <2>2
    <3> QED BY <1>1, <1>5, <2>2, <3>1, <3>2, <3>3 DEF Linked
  <2> QED BY <2>1, <2>2
<1>7. Elements(g, n - 1) = Elements(f, n) \ {first}
  <2>1. \A i \in 1 .. n - 1 : i + 1 \in 1 .. n /\ g[i] = f[i + 1] /\ f[i + 1] # first
    BY <1>1, <1>4
  <2>2. \A i \in 1 .. n : f[i] # first => i - 1 \in 1 .. n - 1 /\ f[i] = g[i - 1]
    BY <1>1
  <2> HIDE DEF g
  <2> QED BY <2>1, <2>2 DEF Elements
<1> QED BY <1>1, <1>2, <1>3, <1>6, <1>7

(* A block that is not in the chain and links to its head becomes the head.*)
LEMMA PutHead ==
  ASSUME NEW n \in Nat, NEW f \in [1 .. n -> Blocks], NEW first, NEW w,
         Linked(f, n, first, w),
         NEW b \in Blocks, b \notin Elements(f, n), w[b] = first
  PROVE  \E g \in [1 .. n + 1 -> Blocks] :
           /\ Linked(g, n + 1, b, w)
           /\ Elements(g, n + 1) = Elements(f, n) \cup {b}
<1> DEFINE g == [i \in 1 .. n + 1 |-> IF i = 1 THEN b ELSE f[i - 1]]
<1>1. g \in [1 .. n + 1 -> Blocks]
  OBVIOUS
<1>2. /\ g[1] = b
      /\ \A i \in 1 .. n : i + 1 \in 1 .. n + 1 /\ g[i + 1] = f[i]
      /\ \A i \in 1 .. n + 1 : i # 1 => i - 1 \in 1 .. n /\ g[i] = f[i - 1]
  OBVIOUS
<1>3. \A i \in 1 .. n : f[i] # b
  BY DEF Elements
<1>4. \A i, j \in 1 .. n + 1 : g[i] = g[j] => i = j
  <2>1. \A i, j \in 1 .. n : f[i] = f[j] => i = j
    BY DEF Linked
  <2> QED BY <1>2, <1>3, <2>1
<1>5. Linked(g, n + 1, b, w)
  <2>1. \A i \in 1 .. (n + 1) - 1 : w[g[i]] = g[i + 1]
    BY <1>2 DEF Linked
  <2>2. w[g[n + 1]] = Null
    BY <1>2 DEF Linked
  <2> QED BY <1>2, <1>4, <2>1, <2>2 DEF Linked
<1>6. Elements(g, n + 1) = Elements(f, n) \cup {b}
  <2> HIDE DEF g
  <2> QED BY <1>2 DEF Elements
<1> QED BY <1>1, <1>5, <1>6

(* A chain does not notice what is written into other blocks. *)
LEMMA WriteElsewhere ==
  ASSUME NEW n \in Nat, NEW f \in [1 .. n -> Blocks], NEW first, NEW w, NEW v,
         Linked(f, n, first, w), \A b \in Elements(f, n) : v[b] = w[b]
  PROVE  Linked(f, n, first, v)
BY DEF Linked, Elements

(* A chain is no longer than the pool is large. *)
LEMMA ChainIsBounded ==
  ASSUME NEW n \in Nat, NEW f \in [1 .. n -> Blocks], NEW first, NEW w,
         Linked(f, n, first, w)
  PROVE  n <= NumBlocks
<1>1. f \in Injection(1 .. n, Blocks)
  BY DEF Linked, Injection, IsInjective
<1>2. IsFiniteSet(Blocks) /\ Cardinality(Blocks) = NumBlocks
  <2>1. Cardinality(0 .. NumBlocks - 1) =
          IF 0 > NumBlocks - 1 THEN 0 ELSE NumBlocks - 1 - 0 + 1
    BY NumBlocksAssumption, FS_Interval
  <2> QED BY <2>1, NumBlocksAssumption, FS_Interval DEF Blocks
<1>3. Cardinality(1 .. n) = n
  <2>1. Cardinality(1 .. n) = IF 1 > n THEN 0 ELSE n - 1 + 1
    BY FS_Interval
  <2> QED BY <2>1
<1> QED BY <1>1, <1>2, <1>3, FS_Injection

-----------------------------------------------------------------------------
(* The inductive invariant.  FreeListIsSound alone is not inductive: that  *)
(* nobody else runs between two statements of the pool is in MaskedAlone,  *)
(* what a client read from the pool and still relies on is in Registers.   *)

(* A client inside the API is the one that has the mask.                   *)
MaskedAlone == \A c \in Clients : pc[c] # "idle" <=> mask = c

(* No block is with two clients, and none is counted twice for one.        *)
Separate ==
  /\ \A c, d \in Clients : c # d => Owned[c] \cap Owned[d] = {}
  /\ \A c \in Clients : pc[c] \in {"alloc_exit", "link", "push"} => ptr[c] \notin held[c]

(* What a client read is still so when it uses it.                         *)
Registers ==
  \A c \in Clients :
    /\ pc[c] = "alloc" => ptr[c] = Null
    /\ pc[c] = "pop" => ptr[c] = freeList
    /\ pc[c] \in {"pop", "link", "push"} => ptr[c] \in Blocks
    /\ pc[c] = "push" => word[ptr[c]] = freeList

IndInv == TypeOK /\ MaskedAlone /\ FreeListIsSound /\ Separate /\ Registers

(* The blocks nobody has: those that must be on the list.                  *)
Unowned == Blocks \ UNION {Owned[c] : c \in Clients}

-----------------------------------------------------------------------------
(* What a step does to the blocks clients have: popping gives one, pushing *)
(* takes one back, and every other statement leaves them as they are.      *)
LEMMA Ownership ==
  ASSUME IndInv, NEW c \in Clients
  PROVE  /\ \/ EnterAlloc(c) \/ ReadHead(c) \/ OutOfBlocks(c) \/ ExitAlloc(c)
            \/ Link(c) \/ ExitFree(c)
            \/ \E b \in Blocks : EnterFree(c, b) \/ Write(c, b)
            => Owned' = Owned
         /\ Pop(c) => Owned' = [Owned EXCEPT ![c] = @ \cup {ptr[c]}]
         /\ Push(c) => Owned' = [Owned EXCEPT ![c] = @ \ {ptr[c]}]
<1> USE DEF IndInv
<1>1. ASSUME EnterAlloc(c) PROVE Owned' = Owned
  BY <1>1 DEF EnterAlloc, Goto, Owned, TypeOK
<1>2. ASSUME ReadHead(c) PROVE Owned' = Owned
  BY <1>2 DEF ReadHead, Goto, Owned, TypeOK
<1>3. ASSUME OutOfBlocks(c) PROVE Owned' = Owned
  BY <1>3 DEF OutOfBlocks, Goto, Owned, TypeOK, Registers
<1>4. ASSUME ExitAlloc(c) PROVE Owned' = Owned
  BY <1>4 DEF ExitAlloc, Goto, Owned, TypeOK
<1>5. ASSUME Link(c) PROVE Owned' = Owned
  BY <1>5 DEF Link, Goto, Owned, TypeOK
<1>6. ASSUME ExitFree(c) PROVE Owned' = Owned
  BY <1>6 DEF ExitFree, Goto, Owned, TypeOK
<1>7. ASSUME NEW b \in Blocks, EnterFree(c, b) PROVE Owned' = Owned
  BY <1>7, NullIsNoBlock DEF EnterFree, Goto, Owned, TypeOK
<1>8. ASSUME NEW b \in Blocks, Write(c, b) PROVE Owned' = Owned
  BY <1>8 DEF Write, Owned
<1>9. ASSUME Pop(c) PROVE Owned' = [Owned EXCEPT ![c] = @ \cup {ptr[c]}]
  BY <1>9, NullIsNoBlock DEF Pop, Goto, Owned, TypeOK, Registers
<1>10. ASSUME Push(c) PROVE Owned' = [Owned EXCEPT ![c] = @ \ {ptr[c]}]
  <2>1. pc[c] = "push" /\ ptr[c] \in Blocks /\ ptr[c] \notin held[c]
    BY <1>10 DEF Push, Separate, Registers
  <2>2. Owned[c] = held[c] \cup {ptr[c]}
    BY <2>1, NullIsNoBlock DEF Owned
  <2>3. \A d \in Clients : d # c => Owned'[d] = Owned[d]
    BY <1>10 DEF Push, Goto, Owned, TypeOK
  <2>4. Owned'[c] = held[c]
    BY <1>10 DEF Push, Goto, Owned, TypeOK
  <2>5. Owned'[c] = Owned[c] \ {ptr[c]}
    BY <2>1, <2>2, <2>4
  <2>6. Owned' = [d \in Clients |-> Owned'[d]] /\ Owned = [d \in Clients |-> Owned[d]]
    BY DEF Owned
  <2> QED BY <2>3, <2>5, <2>6
<1> QED BY <1>1, <1>2, <1>3, <1>4, <1>5, <1>6, <1>7, <1>8, <1>9, <1>10

(* A chain of the blocks nobody has after a step.                          *)
LEMMA ChainAfterStep ==
  ASSUME NEW g \in [1 .. freeCount' -> Blocks],
         Linked(g, freeCount', freeList', word'), Elements(g, freeCount') = Unowned'
  PROVE  FreeListIsSound'
BY DEF FreeListIsSound, Linked, Elements, Unowned

(* A step that changes neither the list nor what clients have.             *)
LEMMA ListUntouched ==
  ASSUME FreeListIsSound, Owned' = Owned,
         UNCHANGED << freeList, word, freeCount >>
  PROVE  FreeListIsSound'
<1>1. PICK f \in [1 .. freeCount -> Blocks] :
        /\ Linked(f, freeCount, freeList, word)
        /\ Elements(f, freeCount) = Unowned
  BY DEF FreeListIsSound, Elements, Unowned
<1>2. Unowned' = Unowned
  BY DEF Unowned
<1> QED BY <1>1, <1>2 DEF FreeListIsSound, Elements, Unowned, Linked

-----------------------------------------------------------------------------
(* Every step keeps each part of the invariant. *)

LEMMA Initially == Init => IndInv
<1> SUFFICES ASSUME Init PROVE IndInv
  OBVIOUS
<1> USE NumBlocksAssumption, CountModAssumption, NullAssumption, NullIsNoBlock DEF Init
<1>1. TypeOK
  BY DEF TypeOK, Blocks, Labels
<1>2. MaskedAlone /\ Separate /\ Registers
  BY DEF MaskedAlone, Separate, Registers, Owned
<1>3. FreeListIsSound
  <2> DEFINE f == [i \in 1 .. NumBlocks |-> NumBlocks - i]
  <2>1. f \in [1 .. freeCount -> Blocks]
    BY DEF Blocks
  <2>2. Linked(f, freeCount, freeList, word)
    BY DEF Linked, Blocks
  <2>3. Elements(f, freeCount) = Blocks
    <3>1. \A b \in Blocks : NumBlocks - b \in 1 .. NumBlocks /\ f[NumBlocks - b] = b
      BY DEF Blocks
    <3>2. \A i \in 1 .. NumBlocks : f[i] \in Blocks
      BY DEF Blocks
    <3> HIDE DEF f
    <3> QED BY <3>1, <3>2 DEF Elements
  <2>4. UNION {Owned[c] : c \in Clients} = {}
    BY DEF Owned
  <2> HIDE DEF f
  <2> QED BY <2>1, <2>2, <2>3, <2>4 DEF FreeListIsSound, Elements
<1> QED BY <1>1, <1>2, <1>3 DEF IndInv

(* Nobody gets into the API while somebody is inside it.                   *)
LEMMA MaskStep ==
  ASSUME TypeOK, MaskedAlone, [Next]_vars
  PROVE  MaskedAlone'
<1> USE NullAssumption DEF MaskedAlone, TypeOK, Goto, RaiseMask, LowerMask
<1>1. ASSUME NEW c \in Clients, EnterAlloc(c) PROVE MaskedAlone'
  BY <1>1 DEF EnterAlloc
<1>2. ASSUME NEW c \in Clients, NEW b \in Blocks, EnterFree(c, b) PROVE MaskedAlone'
  BY <1>2 DEF EnterFree
<1>3. ASSUME NEW c \in Clients, NEW b \in Blocks, Write(c, b) PROVE MaskedAlone'
  BY <1>3 DEF Write
<1>4. ASSUME NEW c \in Clients, Inside(c) PROVE MaskedAlone'
  BY <1>4 DEF Inside, ReadHead, Pop, OutOfBlocks, ExitAlloc, Link, Push, ExitFree
<1>5. CASE UNCHANGED vars
  BY <1>5 DEF vars
<1> QED BY <1>1, <1>2, <1>3, <1>4, <1>5 DEF Next

(* The list stays a chain of exactly the blocks nobody has.                *)
LEMMA ListStep ==
  ASSUME IndInv, [Next]_vars
  PROVE  FreeListIsSound' /\ freeCount' \in 0 .. NumBlocks
<1> USE DEF IndInv
<1>1. PICK f \in [1 .. freeCount -> Blocks] :
        /\ Linked(f, freeCount, freeList, word)
        /\ Elements(f, freeCount) = Unowned
  BY DEF FreeListIsSound, Elements, Unowned
<1>2. freeCount \in 0 .. NumBlocks /\ freeCount \in Nat
  BY NumBlocksAssumption DEF TypeOK
<1>3. ASSUME NEW c \in Clients, Pop(c)
      PROVE  FreeListIsSound' /\ freeCount' \in 0 .. NumBlocks
  <2>1. pc[c] = "pop" /\ ptr[c] = freeList /\ freeList \in Blocks /\ freeList # Null
    BY <1>3, NullIsNoBlock DEF Pop, Registers
  <2>2. PICK g \in [1 .. freeCount - 1 -> Blocks] :
          /\ Linked(g, freeCount - 1, word[freeList], word)
          /\ Elements(g, freeCount - 1) = Elements(f, freeCount) \ {freeList}
    BY <1>1, <1>2, <2>1, TakeHead
  <2>3. freeCount > 0
    BY <1>1, <1>2, <2>1, TakeHead
  <2>4. Unowned' = Unowned \ {freeList}
    <3>1. Owned' = [Owned EXCEPT ![c] = @ \cup {freeList}]
      BY <1>3, <2>1, Ownership
    <3>2. DOMAIN Owned = Clients
      BY DEF Owned
    <3>3. \A d \in Clients :
            Owned'[d] = IF d = c THEN Owned[d] \cup {freeList} ELSE Owned[d]
      BY <3>1, <3>2
    <3> QED BY <3>3 DEF Unowned
  <2>5. /\ freeCount' = freeCount - 1
        /\ freeList' = word[freeList]
        /\ word' = word
    BY <1>3, <2>1 DEF Pop
  <2>6. Linked(g, freeCount', freeList', word')
    BY <2>2, <2>5
  <2>7. Elements(g, freeCount') = Unowned'
    BY <1>1, <2>2, <2>4, <2>5
  <2>8. FreeListIsSound'
    <3>1. g \in [1 .. freeCount' -> Blocks]
      BY <2>2, <2>5
    <3> QED BY <3>1, <2>6, <2>7, ChainAfterStep
  <2> QED BY <1>2, <2>3, <2>5, <2>8, NumBlocksAssumption
<1>4. ASSUME NEW c \in Clients, Push(c)
      PROVE  FreeListIsSound' /\ freeCount' \in 0 .. NumBlocks
  <2>1. pc[c] = "push" /\ ptr[c] \in Blocks /\ word[ptr[c]] = freeList
    BY <1>4 DEF Push, Registers
  <2>2. ptr[c] \in Owned[c]
    BY <2>1, NullIsNoBlock DEF Owned
  <2>3. PICK g \in [1 .. freeCount + 1 -> Blocks] :
          /\ Linked(g, freeCount + 1, ptr[c], word)
          /\ Elements(g, freeCount + 1) = Elements(f, freeCount) \cup {ptr[c]}
    <3>1. ptr[c] \notin Elements(f, freeCount)
      BY <1>1, <2>2 DEF Unowned
    <3> QED BY <1>1, <1>2, <2>1, <3>1, PutHead
  <2>4. Unowned' = Unowned \cup {ptr[c]}
    <3>1. \A d \in Clients : d # c => ptr[c] \notin Owned[d]
      BY <2>2 DEF Separate
    <3>2. Owned' = [Owned EXCEPT ![c] = @ \ {ptr[c]}]
      BY <1>4, Ownership
    <3>3. DOMAIN Owned = Clients
      BY DEF Owned
    <3>4. \A d \in Clients : Owned'[d] = Owned[d] \ {ptr[c]}
      BY <3>1, <3>2, <3>3
    <3> QED BY <2>1, <3>4 DEF Unowned
  <2>5. /\ freeCount' = freeCount + 1
        /\ freeList' = ptr[c]
        /\ word' = word
    BY <1>4 DEF Push
  <2>6. Linked(g, freeCount', freeList', word')
    BY <2>3, <2>5
  <2>7. Elements(g, freeCount') = Unowned'
    BY <1>1, <2>3, <2>4, <2>5
  <2>8. FreeListIsSound'
    <3>1. g \in [1 .. freeCount' -> Blocks]
      BY <2>3, <2>5
    <3> QED BY <3>1, <2>6, <2>7, ChainAfterStep
  <2>9. freeCount + 1 <= NumBlocks
    BY <1>2, <2>3, ChainIsBounded
  <2> QED BY <1>2, <2>5, <2>8, <2>9, NumBlocksAssumption
<1>5. ASSUME NEW c \in Clients, NEW b \in Owned[c], b \in Blocks,
             Owned' = Owned, word' = [word EXCEPT ![b] = word'[b]],
             UNCHANGED << freeList, freeCount >>
      PROVE  FreeListIsSound' /\ freeCount' \in 0 .. NumBlocks
  <2>1. b \notin Unowned
    BY <1>5 DEF Unowned
  <2>2. \A x \in Elements(f, freeCount) : word'[x] = word[x]
    BY <1>1, <1>5, <2>1 DEF Unowned, TypeOK
  <2>3. Linked(f, freeCount, freeList, word')
    BY <1>1, <1>2, <2>2, WriteElsewhere
  <2>4. Unowned' = Unowned
    BY <1>5 DEF Unowned
  <2> QED BY <1>1, <1>2, <1>5, <2>3, <2>4
          DEF FreeListIsSound, Linked, Elements, Unowned
<1>6. ASSUME NEW c \in Clients, Link(c)
      PROVE  FreeListIsSound' /\ freeCount' \in 0 .. NumBlocks
  <2>1. ptr[c] \in Owned[c] /\ ptr[c] \in Blocks
    BY <1>6, NullIsNoBlock DEF Link, Registers, Owned
  <2>2. word' = [word EXCEPT ![ptr[c]] = word'[ptr[c]]]
    BY <1>6, <2>1 DEF Link, TypeOK
  <2>3. UNCHANGED << freeList, freeCount >> /\ Owned' = Owned
    BY <1>6, Ownership DEF Link, counters
  <2> QED BY <1>5, <2>1, <2>2, <2>3
<1>7. ASSUME NEW c \in Clients, NEW b \in Blocks, Write(c, b)
      PROVE  FreeListIsSound' /\ freeCount' \in 0 .. NumBlocks
  <2>1. b \in Owned[c]
    BY <1>7 DEF Write, Owned
  <2>2. word' = [word EXCEPT ![b] = word'[b]]
    BY <1>7 DEF Write, TypeOK
  <2>3. UNCHANGED << freeList, freeCount >> /\ Owned' = Owned
    BY <1>7, Ownership DEF Write, counters
  <2> QED BY <1>5, <2>1, <2>2, <2>3
<1>8. ASSUME NEW c \in Clients,
             \/ EnterAlloc(c) \/ ReadHead(c) \/ OutOfBlocks(c) \/ ExitAlloc(c)
             \/ ExitFree(c) \/ \E b \in Blocks : EnterFree(c, b)
      PROVE  FreeListIsSound' /\ freeCount' \in 0 .. NumBlocks
  <2>1. Owned' = Owned
    BY <1>8, Ownership
  <2>2. UNCHANGED << freeList, word, freeCount >>
    BY <1>8 DEF EnterAlloc, ReadHead, OutOfBlocks, ExitAlloc, ExitFree, EnterFree, counters
  <2> QED BY <1>2, <2>1, <2>2, ListUntouched
<1>9. CASE UNCHANGED vars
  <2>1. Owned' = Owned /\ UNCHANGED << freeList, word, freeCount >>
    BY <1>9 DEF vars, Owned
  <2> QED BY <1>2, <2>1, ListUntouched
<1> QED BY <1>3, <1>4, <1>6, <1>7, <1>8, <1>9 DEF Next, Inside

(* The head of the list is a block nobody has, and what it links to is a   *)
(* block or the end of the list, never data.                               *)
LEMMA HeadIsUnowned ==
  ASSUME IndInv, freeList # Null
  PROVE  freeList \in Unowned /\ word[freeList] \in Blocks \cup {Null}
<1>1. PICK f \in [1 .. freeCount -> Blocks] :
        /\ Linked(f, freeCount, freeList, word)
        /\ Elements(f, freeCount) = Unowned
  BY DEF IndInv, FreeListIsSound, Elements, Unowned
<1>2. freeCount \in Nat
  BY NumBlocksAssumption DEF IndInv, TypeOK
<1>3. freeCount > 0 /\ freeList \in Unowned
  BY <1>1, <1>2, TakeHead
<1>4. PICK g \in [1 .. freeCount - 1 -> Blocks] :
        Linked(g, freeCount - 1, word[freeList], word)
  BY <1>1, <1>2, TakeHead
<1>5. word[freeList] \in Blocks \cup {Null}
  BY <1>2, <1>3, <1>4 DEF Linked
<1> QED BY <1>3, <1>5

(* No step gives a client a block another client has.                      *)
LEMMA SeparateStep ==
  ASSUME IndInv, [Next]_vars
  PROVE  Separate'
<1> USE DEF IndInv
<1>1. ASSUME Owned' = Owned PROVE \A c, d \in Clients : c # d => Owned'[c] \cap Owned'[d] = {}
  BY <1>1 DEF Separate
<1>2. ASSUME NEW c \in Clients, Pop(c)
      PROVE  \A d, e \in Clients : d # e => Owned'[d] \cap Owned'[e] = {}
  <2>1. Owned' = [Owned EXCEPT ![c] = @ \cup {ptr[c]}] /\ DOMAIN Owned = Clients
    BY <1>2, Ownership DEF Owned
  <2>2. ptr[c] \in Unowned
    BY <1>2, NullIsNoBlock, HeadIsUnowned DEF Pop, Registers
  <2>3. \A d \in Clients : ptr[c] \notin Owned[d]
    BY <2>2 DEF Unowned
  <2>4. \A d \in Clients :
          Owned'[d] = IF d = c THEN Owned[d] \cup {ptr[c]} ELSE Owned[d]
    BY <2>1
  <2> QED BY <2>3, <2>4 DEF Separate
<1>3. ASSUME NEW c \in Clients, Push(c)
      PROVE  \A d, e \in Clients : d # e => Owned'[d] \cap Owned'[e] = {}
  <2>1. Owned' = [Owned EXCEPT ![c] = @ \ {ptr[c]}] /\ DOMAIN Owned = Clients
    BY <1>3, Ownership DEF Owned
  <2>2. \A d \in Clients : Owned'[d] = IF d = c THEN Owned[d] \ {ptr[c]} ELSE Owned[d]
    BY <2>1
  <2> QED BY <2>2 DEF Separate
<1>4. CASE UNCHANGED vars
  BY <1>4 DEF vars, Owned, Separate
<1>5. \A c, d \in Clients : c # d => Owned'[c] \cap Owned'[d] = {}
  <2>1. ASSUME UNCHANGED vars PROVE Owned' = Owned
    BY <2>1 DEF vars, Owned
  <2> QED BY <1>1, <1>2, <1>3, <2>1, Ownership DEF Next, Inside
<1>6. ASSUME NEW s \in Clients, pc'[s] \in {"alloc_exit", "link", "push"}
      PROVE  ptr'[s] \notin held'[s]
  <2> USE <1>6, NullIsNoBlock DEF Goto, TypeOK
  <2>1. ASSUME NEW c \in Clients, EnterAlloc(c) PROVE ptr'[s] \notin held'[s]
    BY <2>1 DEF EnterAlloc, Separate
  <2>2. ASSUME NEW c \in Clients, ReadHead(c) PROVE ptr'[s] \notin held'[s]
    BY <2>2 DEF ReadHead, Separate
  <2>3. ASSUME NEW c \in Clients, Pop(c) PROVE ptr'[s] \notin held'[s]
    <3>3. ptr[c] \in Unowned
      BY <2>3, HeadIsUnowned DEF Pop, Registers
    <3>4. held[c] \subseteq Owned[c]
      BY DEF Owned
    <3>5. ptr[c] \notin held[c]
      BY <3>3, <3>4 DEF Unowned
    <3> QED BY <2>3, <3>5 DEF Pop, Separate
  <2>4. ASSUME NEW c \in Clients, OutOfBlocks(c) PROVE ptr'[s] \notin held'[s]
    BY <2>4 DEF OutOfBlocks, Separate, Registers
  <2>5. ASSUME NEW c \in Clients, ExitAlloc(c) PROVE ptr'[s] \notin held'[s]
    BY <2>5 DEF ExitAlloc, Separate
  <2>6. ASSUME NEW c \in Clients, NEW b \in Blocks, EnterFree(c, b)
        PROVE  ptr'[s] \notin held'[s]
    BY <2>6 DEF EnterFree, Separate
  <2>7. ASSUME NEW c \in Clients, Link(c) \/ Push(c) \/ ExitFree(c)
        PROVE  ptr'[s] \notin held'[s]
    BY <2>7 DEF Link, Push, ExitFree, Separate
  <2>8. ASSUME NEW c \in Clients, NEW b \in Blocks, Write(c, b)
        PROVE  ptr'[s] \notin held'[s]
    BY <2>8 DEF Write, Separate
  <2>9. ASSUME UNCHANGED vars PROVE ptr'[s] \notin held'[s]
    BY <2>9 DEF vars, Separate
  <2> QED BY <2>1, <2>2, <2>3, <2>4, <2>5, <2>6, <2>7, <2>8, <2>9 DEF Next, Inside
<1> QED BY <1>5, <1>6 DEF Separate

(* What the client with the mask has read stays true until it lowers it:   *)
(* nobody else moves the head, and a client writes only into its blocks.   *)
LEMMA RegistersStep ==
  ASSUME IndInv, [Next]_vars
  PROVE  Registers'
<1> USE NullIsNoBlock DEF IndInv, Registers, Goto, TypeOK
<1>1. ASSUME NEW c \in Clients, EnterAlloc(c) PROVE Registers'
  BY <1>1 DEF EnterAlloc
<1>2. ASSUME NEW c \in Clients, ReadHead(c) PROVE Registers'
  BY <1>2 DEF ReadHead
<1>3. ASSUME NEW c \in Clients, OutOfBlocks(c) \/ ExitAlloc(c) \/ ExitFree(c)
      PROVE  Registers'
  BY <1>3 DEF OutOfBlocks, ExitAlloc, ExitFree, counters
<1>4. ASSUME NEW c \in Clients, NEW b \in Blocks, EnterFree(c, b) PROVE Registers'
  BY <1>4 DEF EnterFree, counters
<1>5. ASSUME NEW c \in Clients, pc[c] # "idle" PROVE \A d \in Clients \ {c} : pc[d] = "idle"
  BY <1>5, NullAssumption DEF MaskedAlone
<1>6. ASSUME NEW c \in Clients, Pop(c) \/ Push(c) PROVE Registers'
  BY <1>5, <1>6 DEF Pop, Push
<1>7. ASSUME NEW c \in Clients, Link(c) PROVE Registers'
  BY <1>5, <1>7 DEF Link
<1>8. ASSUME NEW c \in Clients, NEW b \in Blocks, Write(c, b) PROVE Registers'
  <2>1. \A d \in Clients : pc[d] = "idle"
    BY <1>8, NullAssumption DEF Write, MaskedAlone
  <2> QED BY <1>8, <2>1 DEF Write
<1>9. CASE UNCHANGED vars
  BY <1>9 DEF vars
<1> QED BY <1>1, <1>2, <1>3, <1>4, <1>6, <1>7, <1>8, <1>9 DEF Next, Inside

LEMMA TypeStep ==
  ASSUME IndInv, [Next]_vars
  PROVE  TypeOK'
<1> USE NullIsNoBlock, CountModAssumption DEF IndInv, TypeOK, Labels, Goto
<1>1. freeCount' \in 0 .. NumBlocks
  BY ListStep
<1>2. ASSUME NEW c \in Clients, EnterAlloc(c) PROVE TypeOK'
  BY <1>1, <1>2 DEF EnterAlloc, RaiseMask, counters
<1>3. ASSUME NEW c \in Clients, ReadHead(c) PROVE TypeOK'
  BY <1>1, <1>3 DEF ReadHead, counters
<1>4. ASSUME NEW c \in Clients, Pop(c) PROVE TypeOK'
  <2>1. freeList' \in Blocks \cup {Null}
    BY <1>4, HeadIsUnowned DEF Pop, Registers
  <2>2. allocCount' \in 0 .. CountMod - 1
    BY <1>4 DEF Pop
  <2> QED BY <1>1, <1>4, <2>1, <2>2 DEF Pop
<1>5. ASSUME NEW c \in Clients, OutOfBlocks(c) PROVE TypeOK'
  <2>1. failCount' \in 0 .. CountMod - 1
    BY <1>5 DEF OutOfBlocks
  <2> QED BY <1>1, <1>5, <2>1 DEF OutOfBlocks
<1>6. ASSUME NEW c \in Clients, ExitAlloc(c) PROVE TypeOK'
  BY <1>1, <1>6 DEF ExitAlloc, LowerMask, counters
<1>7. ASSUME NEW c \in Clients, NEW b \in Blocks, EnterFree(c, b) PROVE TypeOK'
  BY <1>1, <1>7 DEF EnterFree, RaiseMask, counters
<1>8. ASSUME NEW c \in Clients, Link(c) PROVE TypeOK'
  BY <1>1, <1>8 DEF Link, counters
<1>9. ASSUME NEW c \in Clients, Push(c) PROVE TypeOK'
  BY <1>1, <1>9 DEF Push, Registers
<1>10. ASSUME NEW c \in Clients, ExitFree(c) PROVE TypeOK'
  BY <1>1, <1>10 DEF ExitFree, LowerMask, counters
<1>11. ASSUME NEW c \in Clients, NEW b \in Blocks, Write(c, b) PROVE TypeOK'
  BY <1>1, <1>11 DEF Write, counters
<1>12. CASE UNCHANGED vars
  BY <1>12 DEF vars
<1> QED BY <1>2, <1>3, <1>4, <1>5, <1>6, <1>7, <1>8, <1>9, <1>10, <1>11, <1>12
        DEF Next, Inside

LEMMA Preserved == IndInv /\ [Next]_vars => IndInv'
BY TypeStep, MaskStep, ListStep, SeparateStep, RegistersStep DEF IndInv

THEOREM Invariance == Spec => []IndInv
BY Initially, Preserved, PTL DEF Spec

-----------------------------------------------------------------------------
(* The theorems. *)

(* Type correctness; in particular free_count never leaves 0 .. num_blocks, *)
(* so the uint32_t never wraps below zero.                                  *)
THEOREM TypeCorrect == Spec => []TypeOK
<1>1. IndInv => TypeOK
  BY DEF IndInv
<1> QED BY Invariance, <1>1, PTL

(* At every moment the list is a chain of exactly the blocks nobody has,    *)
(* and free_count its length.                                               *)
THEOREM ListSound == Spec => []FreeListIsSound
<1>1. IndInv => FreeListIsSound
  BY DEF IndInv
<1> QED BY Invariance, <1>1, PTL

(* No block is ever with two clients.                                       *)
THEOREM Exclusive == Spec => []NoBlockShared
<1>1. IndInv => NoBlockShared
  BY DEF IndInv, Separate, NoBlockShared, Pool!NoBlockShared
<1> QED BY Invariance, <1>1, PTL

(* Only the client that has a block writes into it.                        *)
LEMMA DataKept ==
  ASSUME IndInv, [Next]_vars, NEW c \in Clients, NEW b \in held[c] \cap held'[c],
         word'[b] # word[b]
  PROVE  word'[b] = c
<1> USE DEF IndInv
<1>1. b \in Owned[c] /\ b \in Blocks
  BY DEF Owned, TypeOK
<1>2. ASSUME NEW d \in Clients, Link(d) PROVE FALSE
  <2>1. ptr[d] = b
    BY <1>1, <1>2 DEF Link, TypeOK
  <2>2. b \in Owned[d]
    BY <1>1, <1>2, <2>1, NullIsNoBlock DEF Link, Owned
  <2>3. d = c
    BY <1>1, <2>2 DEF Separate
  <2> QED BY <1>2, <2>1, <2>3 DEF Link, Separate
<1>3. ASSUME NEW d \in Clients, NEW x \in Blocks, Write(d, x) PROVE word'[b] = c
  <2>1. x = b /\ word'[b] = d
    BY <1>1, <1>3 DEF Write, TypeOK
  <2>2. b \in Owned[d]
    BY <1>3, <2>1 DEF Write, Owned
  <2> QED BY <1>1, <2>1, <2>2 DEF Separate
<1>4. ASSUME NEW d \in Clients,
             \/ EnterAlloc(d) \/ ReadHead(d) \/ Pop(d) \/ OutOfBlocks(d) \/ ExitAlloc(d)
             \/ Push(d) \/ ExitFree(d) \/ \E x \in Blocks : EnterFree(d, x)
      PROVE  FALSE
  BY <1>4 DEF EnterAlloc, ReadHead, Pop, OutOfBlocks, ExitAlloc, Push,
                ExitFree, EnterFree, counters
<1>5. ASSUME UNCHANGED vars PROVE FALSE
  BY <1>5 DEF vars
<1> QED BY <1>2, <1>3, <1>4, <1>5 DEF Next, Inside

(* What a client has written stays in its block until it frees it.          *)
THEOREM DataSurvives == Spec => HeldBlocksAreLeftAlone
<1>1. IndInv /\ [Next]_vars =>
        [\A c \in Clients : \A b \in held[c] \cap held'[c] :
           word'[b] # word[b] => word'[b] = c]_vars
  BY DataKept
<1> QED BY Invariance, <1>1, PTL DEF Spec, HeldBlocksAreLeftAlone

-----------------------------------------------------------------------------
(* mem_pool.c implements BlockPool: a request is granted at the statement   *)
(* that pops the list and refused only when nothing is free, a block is     *)
(* returned at the statement that pushes it, and the rest is a stutter.     *)

LEMMA EmptyListNoneFree ==
  ASSUME IndInv, freeList = Null
  PROVE  Unowned = {}
<1>1. PICK f \in [1 .. freeCount -> Blocks] :
        /\ Linked(f, freeCount, freeList, word)
        /\ Elements(f, freeCount) = Unowned
  BY DEF IndInv, FreeListIsSound, Elements, Unowned
<1>2. freeCount \in Nat
  BY NumBlocksAssumption DEF IndInv, TypeOK
<1>3. freeCount = 0
  BY <1>1, <1>2, NullIsNoBlock DEF Linked
<1> QED BY <1>1, <1>3 DEF Elements

LEMMA ImplementationStep ==
  ASSUME IndInv, [Next]_vars
  PROVE  [Pool!Next]_(Pool!poolVars)
<1> USE DEF IndInv, Pool!poolVars
<1>1. ASSUME NEW c \in Clients, Pop(c) PROVE Pool!Grant(c)
  <2>3. ptr[c] \in Unowned
    BY <1>1, NullIsNoBlock, HeadIsUnowned DEF Pop, Registers
  <2>4. Owned' = [Owned EXCEPT ![c] = @ \cup {ptr[c]}]
    BY <1>1, Ownership
  <2> QED BY <1>1, <2>3, <2>4 DEF Pool!Grant, Pool!Free, Unowned, Pop
<1>2. ASSUME NEW c \in Clients, OutOfBlocks(c) PROVE Pool!Refuse(c)
  <2>1. Owned' = Owned
    BY <1>2, Ownership
  <2>2. Unowned = {}
    BY <1>2, EmptyListNoneFree DEF OutOfBlocks
  <2> QED BY <1>2, <2>1, <2>2 DEF Pool!Refuse, Pool!Free, Unowned, OutOfBlocks
<1>3. ASSUME NEW c \in Clients, Push(c) PROVE Pool!Return(c)
  <2>1. Owned' = [Owned EXCEPT ![c] = @ \ {ptr[c]}]
    BY <1>3, Ownership
  <2>2. ptr[c] \in Owned[c]
    BY <1>3, NullIsNoBlock DEF Push, Registers, Owned
  <2> QED BY <1>3, <2>1, <2>2 DEF Pool!Return, Push
<1>4. ASSUME NEW c \in Clients,
             \/ EnterAlloc(c) \/ ReadHead(c) \/ ExitAlloc(c) \/ Link(c) \/ ExitFree(c)
             \/ \E b \in Blocks : EnterFree(c, b) \/ Write(c, b)
      PROVE  UNCHANGED Pool!poolVars
  <2>1. Owned' = Owned
    BY <1>4, Ownership
  <2> QED BY <1>4, <2>1 DEF EnterAlloc, ReadHead, ExitAlloc, Link, ExitFree,
                            EnterFree, Write, counters
<1>5. ASSUME UNCHANGED vars PROVE UNCHANGED Pool!poolVars
  BY <1>5 DEF vars, Owned
<1> QED BY <1>1, <1>2, <1>3, <1>4, <1>5 DEF Next, Inside, Pool!Next

THEOREM Implements == Spec => ImplementsBlockPool
<1>1. Init => Pool!Init
  BY DEF Init, Pool!Init, Owned
<1> QED BY <1>1, Invariance, ImplementationStep, PTL
        DEF Spec, ImplementsBlockPool, Pool!Spec
=============================================================================
