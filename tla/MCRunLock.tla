----------------------------- MODULE MCRunLock ------------------------------
(* Small instances of RunLock for TLC. *)
EXTENDS RunLockInv, TLC

(* Invocations are interchangeable, and so are owners (safety runs only). *)
Symmetry == Permutations(Proc) \cup Permutations(Owner)

=============================================================================
