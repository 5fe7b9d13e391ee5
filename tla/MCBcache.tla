------------------------------ MODULE MCBcache ------------------------------
EXTENDS Bcache

(* Processes, buffers and blocks are interchangeable. *)
Symmetry == Permutations(Proc) \cup Permutations(Buf) \cup Permutations(Block)
=============================================================================
