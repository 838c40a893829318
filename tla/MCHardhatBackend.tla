-------------------------- MODULE MCHardhatBackend --------------------------
(* Threads are interchangeable: none of the invariants names one. *)
EXTENDS HardhatBackend

ThreadSymmetry == Permutations(Threads)
=============================================================================
