------------------------------- MODULE MCSched -------------------------------
EXTENDS Sched, TLC

(* The harts are interchangeable. *)
Symmetry == Permutations(CPU)
=============================================================================
