------------------------------ MODULE MCQueue ------------------------------
(* Instances of Queue for TLC. *)
EXTENDS Queue, TLC

\* The threads run the same code, so any permutation of them is a symmetry.
Symmetry == Permutations(Threads)

=============================================================================
