---------------------------- MODULE MCKvarnPool ----------------------------
(* A small instance of the tail pool alone.                                *)
EXTENDS KvarnPool, TLC

Symmetry == Permutations(Blocks)
============================================================================
