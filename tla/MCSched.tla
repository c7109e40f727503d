------------------------------- MODULE MCSched ------------------------------
(* Three thread structures and two tasks. *)
EXTENDS Sched, TLC

Symmetry == Permutations(Thread \ {KThread}) \cup Permutations(Task \ {KTask})
=============================================================================
