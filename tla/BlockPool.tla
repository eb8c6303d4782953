----------------------------- MODULE BlockPool -----------------------------
(***************************************************************************)
(* What mem_pool.c promises: a fixed set of blocks, each free or with one  *)
(* client; a client that asks gets some free block, and is told there is   *)
(* none only when there is none.  There is no list and no link here.       *)
(***************************************************************************)
EXTENDS Naturals

CONSTANTS Clients, Blocks, CountMod

VARIABLES
  owns,      \* the blocks each client has
  grants,    \* how many requests were granted, modulo CountMod
  refusals   \* how many were refused, modulo CountMod

poolVars == << owns, grants, refusals >>

Free == Blocks \ UNION {owns[c] : c \in Clients}

Init ==
  /\ owns     = [c \in Clients |-> {}]
  /\ grants   = 0
  /\ refusals = 0

Grant(c) ==
  /\ \E b \in Free : owns' = [owns EXCEPT ![c] = @ \cup {b}]
  /\ grants' = (grants + 1) % CountMod
  /\ UNCHANGED refusals

Refuse(c) ==
  /\ Free = {}
  /\ refusals' = (refusals + 1) % CountMod
  /\ UNCHANGED << owns, grants >>

Return(c) ==
  /\ \E b \in owns[c] : owns' = [owns EXCEPT ![c] = @ \ {b}]
  /\ UNCHANGED << grants, refusals >>

Next == \E c \in Clients : Grant(c) \/ Refuse(c) \/ Return(c)

Spec == Init /\ [][Next]_poolVars

(* No block is with two clients at once. *)
NoBlockShared ==
  \A c, d \in Clients : c # d => owns[c] \cap owns[d] = {}
=============================================================================
