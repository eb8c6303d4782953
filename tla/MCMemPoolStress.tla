-------------------------- MODULE MCMemPoolStress --------------------------
(* A small instance of MemPoolStress for TLC. *)
EXTENDS MemPoolStress, TLC

ProducerSymmetry == Permutations(Producers)
=============================================================================
