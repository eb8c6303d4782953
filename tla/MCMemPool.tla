----------------------------- MODULE MCMemPool -----------------------------
(* MemPool on a small instance: the clients are interchangeable. *)
EXTENDS MemPool, TLC

ClientSymmetry == Permutations(Clients)
=============================================================================
