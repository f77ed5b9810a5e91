------------------------ MODULE MCRunLockRefinement -------------------------
(* Small instances of RunLock and of its refinement for TLC. *)
EXTENDS RunLockRefinement, RunLockInv, TLC

(* Invocations are interchangeable, and so are owners (safety runs only). *)
Symmetry == Permutations(Proc) \cup Permutations(Owner)

=============================================================================
