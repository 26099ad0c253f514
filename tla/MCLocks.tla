------------------------------ MODULE MCLocks -------------------------------
(* Locks with interchangeable threads. *)
EXTENDS Locks, TLC

Symmetry == Permutations(Threads)
=============================================================================
