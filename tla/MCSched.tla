------------------------------ MODULE MCSched ------------------------------
(* Model checking of Sched: processors, threads and tasks are               *)
(* interchangeable.                                                         *)
EXTENDS Sched, TLC

Symmetry == Permutations(P) \cup Permutations(M) \cup Permutations(T)
=============================================================================
